--------------------------- MODULE WorkQueue_proofs ---------------------------
(***************************************************************************)
(* Proofs about the tasks that run other tasks' work.  The work queue, for *)
(* any number of producers and worker identities, any queue size and any   *)
(* number of lifecycles.  The migration that runs on it: an image that is  *)
(* given up finds its host.  And the FreeRTOS scheduler, for any number of *)
(* timers and application tasks and any bounds: its blocks, its expiries   *)
(* and its lists.                                                          *)
(***************************************************************************)
EXTENDS MCWorkQueue, TimerDispatch, FiniteSetTheorems, TLAPS

USE QueueSizeAssumption, MaxLifeAssumption, ThreadsAssumption

(* The labels each kind of task can be at.                                 *)
AppLabels == {"idle", "gate", "send", "initReopen", "initFlush", "spawn", "storeRunning",
              "stopCas", "deinitWait", "deinitLoad", "deinitFlush", "park"}
WorkerLabels == {"dead", "loop", "receive", "run", "drain", "exit", "gate", "send"}
ProducerLabels == {"idle", "gate", "send"}

Control ==
    /\ pc[App] \in AppLabels
    /\ ret[App] \in {"idle", "deinitWait"}
    /\ \A p \in Producers : pc[p] \in ProducerLabels /\ ret[p] = "idle"
    /\ \A w \in Workers : /\ pc[w] \in WorkerLabels
                          /\ pc[w] \in {"gate", "send"} => ret[w] = "drain"

(* A worker lives only in the states that say so, or between the creation  *)
(* of its task and the store of RUNNING.                                   *)
WorkerState ==
    \A w \in Workers : Alive(w) =>
        \/ queueState \in {"RUNNING", "STOP_REQUESTED"}
        \/ queueState = "INIT_DONE" /\ pc[App] = "storeRunning"

(* What the lifecycle call under way knows about queue_state.              *)
AppState ==
    /\ pc[App] \in {"initFlush", "spawn", "storeRunning", "deinitFlush", "park"}
         => queueState = "INIT_DONE"
    /\ pc[App] = "initReopen" => queueState \in {"DEINIT", "PARKED"} /\ life < MaxLife

(* Only a requested stop makes a worker leave its loop.                    *)
ExitState == \A w \in Workers : pc[w] = "exit" => queueState = "STOP_REQUESTED"

(* Outside the flush of init every entry belongs to this lifecycle.        *)
FreshQueue == pc[App] # "initFlush" => \A i \in 1..Len(queue) : queue[i].sent = life

LifeInv == /\ TypeOK /\ Control /\ AtMostOneWorker /\ WorkerState /\ AppState
           /\ ExitState /\ FreshQueue /\ NoStaleEntryRuns

-----------------------------------------------------------------------------
(* Removing the oldest entry of a non-empty queue leaves a queue, one      *)
(* shorter, whose i-th entry was the (i+1)-st.                             *)
LEMMA TailQueue ==
    ASSUME NEW S, NEW q \in Seq(S), q # <<>>
    PROVE  /\ Tail(q) \in Seq(S)
           /\ Head(q) \in S
           /\ Head(q) = q[1]
           /\ Len(q) \in Nat /\ Len(q) >= 1
           /\ Len(Tail(q)) = Len(q) - 1
           /\ \A i \in 1..Len(Tail(q)) : Tail(q)[i] = q[i + 1]
  OBVIOUS

(* Appending an entry keeps the older ones in place.                       *)
LEMMA AppendQueue ==
    ASSUME NEW S, NEW q \in Seq(S), NEW e \in S
    PROVE  /\ Append(q, e) \in Seq(S)
           /\ Len(Append(q, e)) = Len(q) + 1
           /\ \A i \in 1..Len(q) : Append(q, e)[i] = q[i]
           /\ Append(q, e)[Len(q) + 1] = e
  OBVIOUS

(* The entries the model builds are entries.                               *)
LEMMA EntryType ==
    /\ NoEntry \in Entries
    /\ \A k \in Kinds, g \in 0..MaxLife, s \in 0..MaxLife :
          Entry(k, g, s) \in Entries /\ Entry(k, g, s).sent = s
    /\ \A e \in Entries : e.kind \in Kinds /\ e.gate \in 0..MaxLife
  BY DEF Entry, NoEntry, Entries, Kinds

(* The initial state satisfies the invariant.                              *)
LEMMA LifeInvInit == Init => LifeInv
  BY DEF Init, LifeInv, TypeOK, Control, AtMostOneWorker, WorkerState, AppState, ExitState,
         FreshQueue, NoStaleEntryRuns, Alive, Threads, Labels, AppLabels, WorkerLabels,
         ProducerLabels, QueueStates, Entries, Entry, NoEntry, Kinds

(* Every step of Next, and stuttering, preserves the invariant.            *)
LEMMA LifeInvNext == LifeInv /\ [Next]_vars => LifeInv'
  <1> SUFFICES ASSUME LifeInv, [Next]_vars PROVE LifeInv'
    OBVIOUS
  <1> USE DEF LifeInv, Goto, Threads
  <1>1. ASSUME NEW p \in Producers, AddTask(p) PROVE LifeInv'
    BY <1>1 DEF AddTask, TypeOK, Control, AtMostOneWorker, WorkerState, AppState, ExitState,
       FreshQueue, NoStaleEntryRuns,
              Alive, Labels, AppLabels, WorkerLabels, ProducerLabels, QueueStates, Entries, Entry, NoEntry, Kinds
  <1>2. ASSUME NEW t \in Threads, AddGate(t) PROVE LifeInv'
    <2>1. TypeOK'
      <3>1. Entry(item[t].kind, life, 0) \in Entries /\ NoEntry \in Entries
        BY EntryType DEF TypeOK
      <3>2. pc' \in [Threads -> Labels] /\ ret' \in [Threads -> Labels]
        BY <1>2 DEF AddGate, AddReturn, TypeOK, Labels
      <3>3. item' \in [Threads -> Entries]
        BY <1>2, <3>1 DEF AddGate, AddReturn, TypeOK
      <3> QED
        BY <1>2, <3>2, <3>3 DEF AddGate, TypeOK
    <2>2. Control'
      BY <1>2 DEF AddGate, AddReturn, TypeOK, Control, AppLabels, WorkerLabels, ProducerLabels
    <2>3. AtMostOneWorker'
      BY <1>2 DEF AddGate, AddReturn, TypeOK, Control, AtMostOneWorker, WorkerState, AppState, Alive
    <2>4. WorkerState'
      BY <1>2 DEF AddGate, AddReturn, TypeOK, Control, WorkerState, AppState, ExitState,
         AtMostOneWorker, Alive
    <2>5. AppState'
      BY <1>2 DEF AddGate, AddReturn, TypeOK, Control, AppState, WorkerState, ExitState, Alive
    <2>6. ExitState'
      BY <1>2 DEF AddGate, AddReturn, TypeOK, Control, ExitState, AppState, WorkerState,
         AtMostOneWorker, Alive
    <2>7. FreshQueue'
      BY <1>2 DEF AddGate, AddReturn, TypeOK, Control, FreshQueue, Entries, Entry
    <2>8. NoStaleEntryRuns'
      BY <1>2 DEF AddGate, AddReturn, TypeOK, Control, NoStaleEntryRuns, FreshQueue, WorkerState,
         AppState, Alive, Entries, Entry, WorkerLabels
    <2> QED
      BY <2>1, <2>2, <2>3, <2>4, <2>5, <2>6, <2>7, <2>8
  <1>3. ASSUME NEW t \in Threads, AddSend(t) PROVE LifeInv'
    <2>1. TypeOK'
      <3>1. Entry(item[t].kind, item[t].gate, life) \in Entries
        BY EntryType DEF TypeOK
      <3>2. queue' \in Seq(Entries) /\ Len(queue') <= QueueSize
        <4> DEFINE e == Entry(item[t].kind, item[t].gate, life)
        <4>1. Append(queue, e) \in Seq(Entries) /\ Len(Append(queue, e)) = Len(queue) + 1
          BY <3>1, AppendQueue DEF TypeOK
        <4> QED BY <1>3, <4>1 DEF AddSend, TypeOK
      <3> QED
        BY <1>3, <3>2, EntryType DEF AddSend, AddReturn, TypeOK, Labels
    <2>2. Control'
      BY <1>3 DEF AddSend, AddReturn, TypeOK, Control, AppLabels, WorkerLabels, ProducerLabels
    <2>3. AtMostOneWorker'
      BY <1>3 DEF AddSend, AddReturn, TypeOK, Control, AtMostOneWorker, WorkerState, AppState, Alive
    <2>4. WorkerState'
      BY <1>3 DEF AddSend, AddReturn, TypeOK, Control, WorkerState, AppState, ExitState,
         AtMostOneWorker, Alive
    <2>5. AppState'
      BY <1>3 DEF AddSend, AddReturn, TypeOK, Control, AppState, WorkerState, ExitState, Alive
    <2>6. ExitState'
      BY <1>3 DEF AddSend, AddReturn, TypeOK, Control, ExitState, AppState, WorkerState,
         AtMostOneWorker, Alive
    <2>7. FreshQueue'
      <3> DEFINE e == Entry(item[t].kind, item[t].gate, life)
      <3>1. e \in Entries /\ e.sent = life
        BY EntryType DEF TypeOK
      <3>2. pc'[App] # "initFlush" => pc[App] # "initFlush"
        BY <1>3 DEF AddSend, AddReturn, TypeOK
      <3>3. CASE queue' = queue
        BY <1>3, <3>2, <3>3 DEF AddSend, FreshQueue
      <3>4. CASE queue' = Append(queue, e)
        <4> HIDE DEF e
        <4> QED BY <1>3, <3>1, <3>2, <3>4, AppendQueue DEF AddSend, FreshQueue, TypeOK
      <3> QED
        BY <1>3, <3>3, <3>4 DEF AddSend
    <2>8. NoStaleEntryRuns'
      BY <1>3, AppendQueue DEF AddSend, AddReturn, TypeOK, Control, NoStaleEntryRuns, FreshQueue,
         WorkerState, AppState, Alive, Entries, Entry, WorkerLabels
    <2> QED
      BY <2>1, <2>2, <2>3, <2>4, <2>5, <2>6, <2>7, <2>8
  <1>4. ASSUME InitLoad PROVE LifeInv'
    <2>1. TypeOK'
      BY <1>4 DEF InitLoad, TypeOK, Labels
    <2>2. Control'
      BY <1>4 DEF InitLoad, TypeOK, Control, AppLabels, WorkerLabels, ProducerLabels
    <2>3. AtMostOneWorker'
      BY <1>4 DEF InitLoad, TypeOK, Control, AtMostOneWorker, WorkerState, AppState, Alive
    <2>4. WorkerState'
      BY <1>4 DEF InitLoad, TypeOK, Control, WorkerState, AppState, ExitState, AtMostOneWorker,
         Alive
    <2>5. AppState'
      BY <1>4 DEF InitLoad, TypeOK, Control, AppState, WorkerState, ExitState, Alive
    <2>6. ExitState'
      BY <1>4 DEF InitLoad, TypeOK, Control, ExitState, AppState, WorkerState, AtMostOneWorker,
         Alive
    <2>7. FreshQueue'
      BY <1>4 DEF InitLoad, TypeOK, Control, FreshQueue, Entries, Entry
    <2>8. NoStaleEntryRuns'
      BY <1>4 DEF InitLoad, TypeOK, Control, NoStaleEntryRuns, FreshQueue, WorkerState, AppState,
         Alive, Entries, Entry, WorkerLabels
    <2> QED
      BY <2>1, <2>2, <2>3, <2>4, <2>5, <2>6, <2>7, <2>8
  <1>5. ASSUME InitReopen PROVE LifeInv'
    BY <1>5 DEF InitReopen, TypeOK, Control, AtMostOneWorker, WorkerState, AppState, ExitState,
       FreshQueue, NoStaleEntryRuns,
              Alive, Labels, AppLabels, WorkerLabels, ProducerLabels, QueueStates, Entries, Entry, NoEntry, Kinds
  <1>6. ASSUME InitFlush PROVE LifeInv'
    <2>1. TypeOK'
      BY <1>6, TailQueue DEF InitFlush, FlushStep, TypeOK, Labels
    <2>2. Control'
      BY <1>6 DEF InitFlush, FlushStep, TypeOK, Control, AppLabels, WorkerLabels, ProducerLabels
    <2>3. AtMostOneWorker'
      BY <1>6 DEF InitFlush, FlushStep, TypeOK, Control, AtMostOneWorker, WorkerState, AppState,
         Alive
    <2>4. WorkerState'
      BY <1>6 DEF InitFlush, FlushStep, TypeOK, Control, WorkerState, AppState, ExitState,
         AtMostOneWorker, Alive
    <2>5. AppState'
      BY <1>6 DEF InitFlush, FlushStep, TypeOK, Control, AppState, WorkerState, ExitState, Alive
    <2>6. ExitState'
      BY <1>6 DEF InitFlush, FlushStep, TypeOK, Control, ExitState, AppState, WorkerState,
         AtMostOneWorker, Alive
    <2>7. FreshQueue'
      BY <1>6, TailQueue DEF InitFlush, FlushStep, TypeOK, Control, FreshQueue, Entries, Entry
    <2>8. NoStaleEntryRuns'
      BY <1>6, TailQueue DEF InitFlush, FlushStep, TypeOK, Control, NoStaleEntryRuns, FreshQueue,
         WorkerState, AppState, Alive, Entries, Entry, WorkerLabels
    <2> QED
      BY <2>1, <2>2, <2>3, <2>4, <2>5, <2>6, <2>7, <2>8
  <1>7. ASSUME StartLoad PROVE LifeInv'
    BY <1>7 DEF StartLoad, TypeOK, Control, AtMostOneWorker, WorkerState, AppState, ExitState,
       FreshQueue, NoStaleEntryRuns,
              Alive, Labels, AppLabels, WorkerLabels, ProducerLabels, QueueStates, Entries, Entry, NoEntry, Kinds
  <1>8. ASSUME StartSpawn PROVE LifeInv'
    <2>1. TypeOK'
      BY <1>8 DEF StartSpawn, TypeOK, Labels, QueueStates, Entries, Entry, NoEntry, Kinds
    <2>2. Control'
      BY <1>8 DEF StartSpawn, TypeOK, Control, AppLabels, WorkerLabels, ProducerLabels
    <2>3. AtMostOneWorker'
      BY <1>8 DEF StartSpawn, TypeOK, Control, AtMostOneWorker, WorkerState, AppState, Alive
    <2>4. WorkerState'
      BY <1>8 DEF StartSpawn, TypeOK, Control, WorkerState, AppState, ExitState, AtMostOneWorker,
         Alive
    <2>5. AppState'
      BY <1>8 DEF StartSpawn, TypeOK, Control, AppState, WorkerState, ExitState, Alive
    <2>6. ExitState'
      BY <1>8 DEF StartSpawn, TypeOK, Control, ExitState, AppState, WorkerState, AtMostOneWorker,
         Alive
    <2>7. FreshQueue'
      BY <1>8 DEF StartSpawn, TypeOK, Control, FreshQueue, Entries, Entry
    <2>8. NoStaleEntryRuns'
      BY <1>8 DEF StartSpawn, TypeOK, Control, NoStaleEntryRuns, FreshQueue, WorkerState, AppState,
         Alive, Entries, Entry, WorkerLabels
    <2> QED
      BY <2>1, <2>2, <2>3, <2>4, <2>5, <2>6, <2>7, <2>8
  <1>9. ASSUME StartStore PROVE LifeInv'
    BY <1>9 DEF StartStore, TypeOK, Control, AtMostOneWorker, WorkerState, AppState, ExitState,
       FreshQueue, NoStaleEntryRuns,
              Alive, Labels, AppLabels, WorkerLabels, ProducerLabels, QueueStates, Entries, Entry, NoEntry, Kinds
  <1>10. ASSUME Stop PROVE LifeInv'
    <2>1. TypeOK'
      BY <1>10 DEF Stop, StopCas, TypeOK, Labels, QueueStates, Entries, Entry, NoEntry, Kinds
    <2>2. Control'
      BY <1>10 DEF Stop, StopCas, TypeOK, Control, AppLabels, WorkerLabels, ProducerLabels
    <2>3. AtMostOneWorker'
      BY <1>10 DEF Stop, StopCas, TypeOK, Control, AtMostOneWorker, WorkerState, AppState, Alive
    <2>4. WorkerState'
      BY <1>10 DEF Stop, StopCas, TypeOK, Control, WorkerState, AppState, ExitState,
         AtMostOneWorker, Alive
    <2>5. AppState'
      BY <1>10 DEF Stop, StopCas, TypeOK, Control, AppState, WorkerState, ExitState, Alive
    <2>6. ExitState'
      BY <1>10 DEF Stop, StopCas, TypeOK, Control, ExitState, AppState, WorkerState,
         AtMostOneWorker, Alive
    <2>7. FreshQueue'
      BY <1>10 DEF Stop, StopCas, TypeOK, Control, FreshQueue, Entries, Entry
    <2>8. NoStaleEntryRuns'
      BY <1>10 DEF Stop, StopCas, TypeOK, Control, NoStaleEntryRuns, FreshQueue, WorkerState,
         AppState, Alive, Entries, Entry, WorkerLabels
    <2> QED
      BY <2>1, <2>2, <2>3, <2>4, <2>5, <2>6, <2>7, <2>8
  <1>11. ASSUME DeinitLoad PROVE LifeInv'
    BY <1>11 DEF DeinitLoad, TypeOK, Control, AtMostOneWorker, WorkerState, AppState, ExitState,
       FreshQueue, NoStaleEntryRuns,
              Alive, Labels, AppLabels, WorkerLabels, ProducerLabels, QueueStates, Entries, Entry, NoEntry, Kinds
  <1>12. ASSUME DeinitStop PROVE LifeInv'
    <2>1. TypeOK'
      BY <1>12 DEF DeinitStop, StopCas, TypeOK, Labels, QueueStates, Entries, Entry, NoEntry, Kinds
    <2>2. Control'
      BY <1>12 DEF DeinitStop, StopCas, TypeOK, Control, AppLabels, WorkerLabels, ProducerLabels
    <2>3. AtMostOneWorker'
      BY <1>12 DEF DeinitStop, StopCas, TypeOK, Control, AtMostOneWorker, WorkerState, AppState,
         Alive
    <2>4. WorkerState'
      BY <1>12 DEF DeinitStop, StopCas, TypeOK, Control, WorkerState, AppState, ExitState,
         AtMostOneWorker, Alive
    <2>5. AppState'
      BY <1>12 DEF DeinitStop, StopCas, TypeOK, Control, AppState, WorkerState, ExitState, Alive
    <2>6. ExitState'
      BY <1>12 DEF DeinitStop, StopCas, TypeOK, Control, ExitState, AppState, WorkerState,
         AtMostOneWorker, Alive
    <2>7. FreshQueue'
      BY <1>12 DEF DeinitStop, StopCas, TypeOK, Control, FreshQueue, Entries, Entry
    <2>8. NoStaleEntryRuns'
      BY <1>12 DEF DeinitStop, StopCas, TypeOK, Control, NoStaleEntryRuns, FreshQueue, WorkerState,
         AppState, Alive, Entries, Entry, WorkerLabels
    <2> QED
      BY <2>1, <2>2, <2>3, <2>4, <2>5, <2>6, <2>7, <2>8
  <1>13. ASSUME DeinitWait PROVE LifeInv'
    BY <1>13 DEF DeinitWait, TypeOK, Control, AtMostOneWorker, WorkerState, AppState, ExitState,
       FreshQueue, NoStaleEntryRuns,
              Alive, Labels, AppLabels, WorkerLabels, ProducerLabels, QueueStates, Entries, Entry, NoEntry, Kinds
  <1>14. ASSUME DeinitState PROVE LifeInv'
    BY <1>14 DEF DeinitState, TypeOK, Control, AtMostOneWorker, WorkerState, AppState, ExitState,
       FreshQueue, NoStaleEntryRuns,
              Alive, Labels, AppLabels, WorkerLabels, ProducerLabels, QueueStates, Entries, Entry, NoEntry, Kinds
  <1>15. ASSUME DeinitFlush PROVE LifeInv'
    <2>1. TypeOK'
      <3>1. queue # <<>> => Tail(queue) \in Seq(Entries) /\ Len(Tail(queue)) <= QueueSize
        BY TailQueue DEF TypeOK
      <3> QED
        BY <1>15, <3>1 DEF DeinitFlush, FlushStep, TypeOK, Labels
    <2>2. Control'
      BY <1>15 DEF DeinitFlush, FlushStep, TypeOK, Control, AppLabels, WorkerLabels, ProducerLabels
    <2>3. AtMostOneWorker'
      BY <1>15 DEF DeinitFlush, FlushStep, TypeOK, Control, AtMostOneWorker, WorkerState, AppState,
         Alive
    <2>4. WorkerState'
      BY <1>15 DEF DeinitFlush, FlushStep, TypeOK, Control, WorkerState, AppState, ExitState,
         AtMostOneWorker, Alive
    <2>5. AppState'
      BY <1>15 DEF DeinitFlush, FlushStep, TypeOK, Control, AppState, WorkerState, ExitState, Alive
    <2>6. ExitState'
      BY <1>15 DEF DeinitFlush, FlushStep, TypeOK, Control, ExitState, AppState, WorkerState,
         AtMostOneWorker, Alive
    <2>7. FreshQueue'
      <3>1. CASE queue = <<>>
        BY <1>15, <3>1 DEF DeinitFlush, FlushStep, TypeOK, FreshQueue
      <3>2. CASE queue # <<>>
        BY <1>15, <3>2, TailQueue DEF DeinitFlush, FlushStep, TypeOK, FreshQueue
      <3> QED BY <3>1, <3>2
    <2>8. NoStaleEntryRuns'
      BY <1>15, TailQueue DEF DeinitFlush, FlushStep, TypeOK, Control, NoStaleEntryRuns, FreshQueue,
         WorkerState, AppState, Alive, Entries, Entry, WorkerLabels
    <2> QED
      BY <2>1, <2>2, <2>3, <2>4, <2>5, <2>6, <2>7, <2>8
  <1>16. ASSUME DeinitPark PROVE LifeInv'
    BY <1>16 DEF DeinitPark, TypeOK, Control, AtMostOneWorker, WorkerState, AppState, ExitState,
       FreshQueue, NoStaleEntryRuns,
              Alive, Labels, AppLabels, WorkerLabels, ProducerLabels, QueueStates, Entries, Entry, NoEntry, Kinds
  <1>17. ASSUME NEW w \in Workers, WorkerLoop(w) PROVE LifeInv'
    BY <1>17 DEF WorkerLoop, TypeOK, Control, AtMostOneWorker, WorkerState, AppState, ExitState,
       FreshQueue, NoStaleEntryRuns,
              Alive, Labels, AppLabels, WorkerLabels, ProducerLabels, QueueStates, Entries, Entry, NoEntry, Kinds
  <1>18. ASSUME NEW w \in Workers, WorkerReceive(w) PROVE LifeInv'
    <2>1. TypeOK'
      <3>1. queue # <<>> => /\ Tail(queue) \in Seq(Entries) /\ Len(Tail(queue)) <= QueueSize
                            /\ Head(queue) \in Entries
        BY TailQueue DEF TypeOK
      <3>2. pc' \in [Threads -> Labels] /\ owed' \in Nat
        BY <1>18 DEF WorkerReceive, TypeOK, Labels
      <3>3. item' \in [Threads -> Entries] /\ queue' \in Seq(Entries) /\ Len(queue') <= QueueSize
        BY <1>18, <3>1 DEF WorkerReceive, TypeOK
      <3> QED
        BY <1>18, <3>2, <3>3 DEF WorkerReceive, TypeOK
    <2>2. Control'
      BY <1>18 DEF WorkerReceive, TypeOK, Control, AppLabels, WorkerLabels, ProducerLabels
    <2>3. AtMostOneWorker'
      BY <1>18 DEF WorkerReceive, TypeOK, Control, AtMostOneWorker, WorkerState, AppState, Alive
    <2>4. WorkerState'
      BY <1>18 DEF WorkerReceive, TypeOK, Control, WorkerState, AppState, ExitState,
         AtMostOneWorker, Alive
    <2>5. AppState'
      BY <1>18 DEF WorkerReceive, TypeOK, Control, AppState, WorkerState, ExitState, Alive
    <2>6. ExitState'
      BY <1>18 DEF WorkerReceive, TypeOK, Control, ExitState, AppState, WorkerState,
         AtMostOneWorker, Alive
    <2>7. FreshQueue'
      <3>1. CASE queue = <<>>
        BY <1>18, <3>1 DEF WorkerReceive, TypeOK, FreshQueue
      <3>2. CASE queue # <<>>
        <4>1. queue' = Tail(queue) /\ life' = life /\ pc'[App] = pc[App]
          BY <1>18, <3>2 DEF WorkerReceive, TypeOK
        <4> QED BY <3>2, <4>1, TailQueue DEF TypeOK, FreshQueue
      <3> QED BY <3>1, <3>2
    <2>8. NoStaleEntryRuns'
      <3>1. pc[App] # "initFlush"
        BY <1>18 DEF WorkerReceive, WorkerState, AppState, Alive
      <3>2. queue # <<>> => Head(queue).sent = life
        BY <3>1, TailQueue DEF FreshQueue, TypeOK
      <3> QED
        BY <1>18, <3>2 DEF WorkerReceive, TypeOK, NoStaleEntryRuns
    <2> QED
      BY <2>1, <2>2, <2>3, <2>4, <2>5, <2>6, <2>7, <2>8
  <1>19. ASSUME NEW w \in Workers, WorkerRun(w) PROVE LifeInv'
    <2>1. TypeOK'
      <3>1. pc' \in [Threads -> Labels] /\ ret' \in [Threads -> Labels]
        BY <1>19 DEF WorkerRun, StopCas, TypeOK, Labels
      <3>2. item' \in [Threads -> Entries] /\ queueState' \in QueueStates
        BY <1>19, EntryType DEF WorkerRun, StopCas, TypeOK, QueueStates
      <3> QED
        BY <1>19, <3>1, <3>2 DEF WorkerRun, StopCas, TypeOK
    <2>2. Control'
      BY <1>19 DEF WorkerRun, StopCas, TypeOK, Control, AppLabels, WorkerLabels, ProducerLabels
    <2>3. AtMostOneWorker'
      BY <1>19 DEF WorkerRun, StopCas, TypeOK, Control, AtMostOneWorker, WorkerState, AppState,
         Alive
    <2>4. WorkerState'
      BY <1>19 DEF WorkerRun, StopCas, TypeOK, Control, WorkerState, AppState, ExitState,
         AtMostOneWorker, Alive
    <2>5. AppState'
      BY <1>19 DEF WorkerRun, StopCas, TypeOK, Control, AppState, WorkerState, ExitState, Alive
    <2>6. ExitState'
      BY <1>19 DEF WorkerRun, StopCas, TypeOK, Control, ExitState, AppState, WorkerState,
         AtMostOneWorker, Alive
    <2>7. FreshQueue'
      BY <1>19 DEF WorkerRun, StopCas, TypeOK, Control, FreshQueue, Entries, Entry
    <2>8. NoStaleEntryRuns'
      BY <1>19 DEF WorkerRun, StopCas, TypeOK, Control, NoStaleEntryRuns, FreshQueue, WorkerState,
         AppState, Alive, Entries, Entry, WorkerLabels
    <2> QED
      BY <2>1, <2>2, <2>3, <2>4, <2>5, <2>6, <2>7, <2>8
  <1>20. ASSUME NEW w \in Workers, WorkerExit(w) PROVE LifeInv'
    BY <1>20 DEF WorkerExit, TypeOK, Control, AtMostOneWorker, WorkerState, AppState, ExitState,
       FreshQueue, NoStaleEntryRuns,
              Alive, Labels, AppLabels, WorkerLabels, ProducerLabels, QueueStates, Entries, Entry, NoEntry, Kinds
  <1>21. ASSUME UNCHANGED vars PROVE LifeInv'
    BY <1>21 DEF vars, TypeOK, Control, AtMostOneWorker, WorkerState, AppState, ExitState,
       FreshQueue, NoStaleEntryRuns,
              Alive, Labels, AppLabels, WorkerLabels, ProducerLabels, QueueStates, Entries, Entry, NoEntry, Kinds
  <1> QED
    BY <1>1, <1>2, <1>3, <1>4, <1>5, <1>6, <1>7, <1>8, <1>9, <1>10, <1>11, <1>12, <1>13, <1>14,
       <1>15, <1>16, <1>17, <1>18, <1>19, <1>20, <1>21
       DEF Next, AppCalls, AppGoesOn, Adding, Working

(* The inductive invariant holds in every reachable state.                 *)
LEMMA LifeInvAlways == Spec => []LifeInv
  BY LifeInvInit, LifeInvNext, PTL DEF Spec

(* No entry that was queued in an earlier lifecycle runs in this one       *)
(* (work_queue.c:140-143), __flush_work_queue never meets a live worker    *)
(* (work_queue.c:98-99), and every variable keeps its type.                *)
THEOREM LifecycleSafety == Spec => [](TypeOK /\ NoStaleEntryRuns /\ FlushAlone)
  <1>1. LifeInv => TypeOK /\ NoStaleEntryRuns /\ FlushAlone
    BY DEF LifeInv, FlushAlone, WorkerState, AppState
  <1> QED
    BY <1>1, LifeInvAlways, PTL

(* esp_rmaker_work_queue_start never creates a second worker while one is  *)
(* alive, however stop, deinit, init and start follow each other and       *)
(* whoever of the worker and the application requests the stop.            *)
THEOREM SingleWorker == Spec => []AtMostOneWorker
  <1>1. LifeInv => AtMostOneWorker
    BY DEF LifeInv
  <1> QED
    BY <1>1, LifeInvAlways, PTL

-----------------------------------------------------------------------------
(* Migration.  The host is written once the image cannot be given up any   *)
(* more.  The flag that says so is set from an event that may be late, so  *)
(* the invariant is about the events in the loop as well.                  *)

(* While the image waits for verification, the stored host is the old one, *)
(* and neither the flags nor an event on its way say otherwise.            *)
Verified ==
    /\ pending = TRUE => host = "old" /\ "valid" \notin flags
    /\ pending = TRUE => \A i \in 1..Len(events) : events[i] # "app_valid"

(* The old image has its host, and no migration runs in it.                *)
OldImage == image = "old" => host = "old" /\ "started" \notin flags

MigrationInv == Migrating!TypeOK /\ Verified /\ OldImage

LoopEvents == {"connected", "app_valid", "timeout"}

(* The loop without its oldest event, and with a new one.                  *)
LEMMA LoopTail ==
    ASSUME NEW q \in Seq(LoopEvents), q # <<>>
    PROVE  /\ Tail(q) \in Seq(LoopEvents) /\ Head(q) \in LoopEvents /\ Head(q) = q[1]
           /\ Len(q) \in Nat /\ Len(q) >= 1 /\ Len(Tail(q)) = Len(q) - 1
           /\ \A i \in 1..Len(Tail(q)) : Tail(q)[i] = q[i + 1]
  OBVIOUS

(* esp_event_post appends to the loop.                                     *)
LEMMA LoopPost ==
    ASSUME Migrating!TypeOK, NEW e \in LoopEvents, Migrating!Post(e)
    PROVE  /\ events' \in Seq(LoopEvents) /\ Len(events') <= MaxQueue
           /\ \A i \in 1..Len(events') : events'[i] = e \/ \E k \in 1..Len(events) : events'[i] = events[k]
  <1>0. events \in Seq(LoopEvents) /\ Len(events) <= MaxQueue
    BY DEF Migrating!TypeOK, LoopEvents
  <1>1. CASE Len(events) < MaxQueue
    <2>1. events' = Append(events, e)
      BY <1>1 DEF Migrating!Post
    <2>2. Len(Append(events, e)) = Len(events) + 1 /\ Append(events, e) \in Seq(LoopEvents)
      BY <1>0
    <2>3. \A i \in 1..Len(events) + 1 : Append(events, e)[i] = IF i <= Len(events) THEN events[i] ELSE e
      BY <1>0
    <2> QED BY <1>0, <1>1, <2>1, <2>2, <2>3, MigrationAssumption DEF Migrating!MigrationConstants
  <1>2. CASE ~(Len(events) < MaxQueue)
    BY <1>0, <1>2 DEF Migrating!Post
  <1> QED BY <1>1, <1>2

(* The first boot satisfies the invariant.                                 *)
LEMMA MigrationInit == Migrating!Init => MigrationInv
  <1> SUFFICES ASSUME Migrating!Init PROVE MigrationInv
    OBVIOUS
  <1> USE DEF Migrating!Init
  <1>1. events \in Seq(LoopEvents) /\ Len(events) = 0 /\ 0 \in 0..MaxInits /\ 0 \in 0..MaxFaults
    BY MigrationAssumption DEF Migrating!MigrationConstants
  <1>2. /\ id \in BOOLEAN /\ pending \in BOOLEAN /\ up \in BOOLEAN /\ timer \in BOOLEAN
        /\ online \in BOOLEAN /\ givenUp \in BOOLEAN
    BY Zenon
  <1>3. Migrating!TypeOK
    BY <1>1, <1>2, MigrationAssumption DEF Migrating!TypeOK, LoopEvents,
       Migrating!MigrationConstants
  <1>4. pending = TRUE => host = "old"
    BY Zenon
  <1> QED BY <1>1, <1>3, <1>4 DEF MigrationInv, Verified, OldImage

(* A reset empties the memory; what matters is the image that comes up.    *)
LEMMA ResetKeeps ==
    ASSUME MigrationInv, NEW img \in {"old", "new"}, Migrating!Reset(img),
           UNCHANGED <<id, host, inits, faults>>, img = "old" => host = "old"
    PROVE  MigrationInv'
  <1>1. events' \in Seq(LoopEvents) /\ Len(events') = 0
    BY DEF Migrating!Reset
  <1>2. /\ pending' \in BOOLEAN /\ up' \in BOOLEAN /\ timer' \in BOOLEAN /\ online' \in BOOLEAN
        /\ givenUp' \in BOOLEAN /\ pending' # TRUE
    BY Zenon DEF Migrating!Reset
  <1>3. Migrating!TypeOK'
    BY <1>1, <1>2, MigrationAssumption DEF MigrationInv, Migrating!Reset, Migrating!TypeOK,
       LoopEvents, Migrating!MigrationConstants
  <1> QED BY <1>2, <1>3 DEF Migrating!Reset, MigrationInv, Verified, OldImage

(* Every step preserves the invariant.                                     *)
LEMMA MigrationStep == MigrationInv /\ [Migrating!Next]_(Migrating!vars) => MigrationInv'
  <1> SUFFICES ASSUME MigrationInv, [Migrating!Next]_(Migrating!vars) PROVE MigrationInv'
    OBVIOUS
  <1> USE DEF Migrating!partition, Migrating!boot, Migrating!link, Migrating!WriteAny,
              Migrating!Ready
  <1>0. Migrating!TypeOK /\ Verified /\ OldImage /\ events \in Seq(LoopEvents)
    BY DEF MigrationInv, Migrating!TypeOK, LoopEvents
  <1>1. CASE Migrating!NodeInit
    <2>1. up' \in BOOLEAN
      BY <1>1, Zenon DEF Migrating!NodeInit
    <2>2. /\ flags' \subseteq {"write_id", "write_host", "connected", "valid", "started"}
          /\ providers' \subseteq {"id", "host"}
      BY <1>0, <1>1 DEF Migrating!NodeInit, Migrating!CheckedFlags, Migrating!CheckedProviders,
         Migrating!TypeOK
    <2>3. Migrating!TypeOK'
      BY <1>0, <1>1, <2>1, <2>2, MigrationAssumption DEF Migrating!NodeInit, Migrating!TypeOK,
         Migrating!MigrationConstants
    <2>4. Verified'
      <3>1. pending = TRUE => "valid" \notin flags'
        BY <1>0, <1>1 DEF Migrating!NodeInit, Migrating!CheckedFlags, Verified, Migrating!TypeOK
      <3> QED BY <1>0, <1>1, <3>1 DEF Migrating!NodeInit, Verified
    <2>5. OldImage'
      BY <1>0, <1>1 DEF Migrating!NodeInit, OldImage
    <2> QED BY <2>3, <2>4, <2>5 DEF MigrationInv
  <1>12. CASE Migrating!NodeInitFails
    <2>1. /\ flags' \subseteq {"write_id", "write_host", "connected", "valid", "started"}
          /\ providers' \subseteq {"id", "host"}
          /\ flags' \subseteq flags \cup {"write_id", "write_host"}
          /\ flags' # flags => image = "new"
      BY <1>0, <1>12 DEF Migrating!NodeInitFails, Migrating!CheckedFlags, Migrating!CheckedProviders,
         Migrating!TypeOK
    <2>2. Migrating!TypeOK'
      BY <1>0, <1>12, <2>1, MigrationAssumption DEF Migrating!NodeInitFails, Migrating!TypeOK,
         Migrating!MigrationConstants
    <2>3. Verified'
      BY <1>0, <1>12, <2>1 DEF Migrating!NodeInitFails, Verified
    <2>4. OldImage'
      BY <1>0, <1>12, <2>1 DEF Migrating!NodeInitFails, OldImage
    <2> QED BY <2>2, <2>3, <2>4 DEF MigrationInv
  <1>2. CASE Migrating!NodeDeinit
    <2>1. up' \in BOOLEAN /\ online' \in BOOLEAN /\ timer' \in BOOLEAN /\ givenUp' \in BOOLEAN
      BY <1>0, <1>2, Zenon DEF Migrating!NodeDeinit
    <2>2. flags' \subseteq flags
      BY <1>2 DEF Migrating!NodeDeinit
    <2>3. Migrating!TypeOK'
      BY <1>0, <1>2, <2>1, <2>2 DEF Migrating!NodeDeinit, Migrating!TypeOK
    <2> QED BY <1>0, <1>2, <2>2, <2>3 DEF Migrating!NodeDeinit, MigrationInv, Verified, OldImage
  <1>3. CASE Migrating!NetworkUp
    <2>0. timer \in BOOLEAN /\ givenUp \in BOOLEAN
      BY <1>0 DEF Migrating!TypeOK
    <2>1. online' \in BOOLEAN /\ timer' \in BOOLEAN /\ givenUp' \in BOOLEAN
      BY <2>0, <1>3, Zenon DEF Migrating!NetworkUp
    <2>2. faults' \in 0..MaxFaults
      BY <1>0, <1>3, MigrationAssumption DEF Migrating!NetworkUp, Migrating!TypeOK,
         Migrating!MigrationConstants
    <2> QED BY <1>0, <1>3, <2>1, <2>2 DEF Migrating!NetworkUp, MigrationInv, Migrating!TypeOK, Verified,
               OldImage
  <1>4. CASE Migrating!Connect
    <2>1. "connected" \in LoopEvents /\ Migrating!Post("connected")
      BY <1>4 DEF Migrating!Connect, LoopEvents
    <2>2. connected' \in {"none", "old", "target"}
      BY <1>0, <1>4 DEF Migrating!Connect, Migrating!ConnHost, Migrating!TypeOK
    <2>3. Migrating!TypeOK'
      BY <1>0, <1>4, <2>1, <2>2, LoopPost DEF Migrating!Connect, Migrating!TypeOK, LoopEvents
    <2>4. Verified'
      BY <1>0, <1>4, <2>1, LoopPost DEF Migrating!Connect, Verified
    <2> QED BY <1>0, <1>4, <2>3, <2>4 DEF Migrating!Connect, MigrationInv, OldImage
  <1>5. CASE Migrating!Disconnect
    BY <1>0, <1>5 DEF Migrating!Disconnect, MigrationInv, Migrating!TypeOK, Verified, OldImage
  <1>6. CASE Migrating!TimeOut
    <2>1. "timeout" \in LoopEvents /\ Migrating!Post("timeout")
      BY <1>6 DEF Migrating!TimeOut, LoopEvents
    <2>3. Migrating!TypeOK'
      BY <1>0, <1>6, <2>1, LoopPost DEF Migrating!TimeOut, Migrating!TypeOK, LoopEvents
    <2>4. Verified'
      BY <1>0, <1>6, <2>1, LoopPost DEF Migrating!TimeOut, Verified
    <2> QED BY <1>0, <1>6, <2>3, <2>4 DEF Migrating!TimeOut, MigrationInv, OldImage
  <1>7. CASE Migrating!MarkValid
    <2>1. pending' \in BOOLEAN /\ pending' # TRUE
      BY <1>7, Zenon DEF Migrating!MarkValid
    <2>2. events' \in Seq(LoopEvents) /\ Len(events') <= MaxQueue
      <3>1. CASE Migrating!Post("app_valid")
        BY <1>0, <3>1, LoopPost DEF LoopEvents
      <3>2. CASE UNCHANGED events
        BY <1>0, <3>2 DEF Migrating!TypeOK
      <3> QED BY <1>7, <3>1, <3>2 DEF Migrating!MarkValid
    <2>3. Migrating!TypeOK'
      BY <1>0, <1>7, <2>1, <2>2 DEF Migrating!MarkValid, Migrating!TypeOK, LoopEvents
    <2> QED BY <1>0, <1>7, <2>1, <2>3 DEF Migrating!MarkValid, MigrationInv, Verified, OldImage
  <1>8. CASE Migrating!OnEvent
    <2> DEFINE h == Head(events)
               f == IF h = "connected" THEN flags \cup {"connected"} \cup (IF pending THEN {} ELSE {"valid"})
                    ELSE flags \cup {"valid"}
    <2>0. events # <<>> /\ h \in {"connected", "app_valid"} /\ events' = Tail(events)
      BY <1>8 DEF Migrating!OnEvent
    <2>1. /\ events' \in Seq(LoopEvents) /\ Len(events') <= MaxQueue
          /\ pending = TRUE => h # "app_valid" /\ \A i \in 1..Len(events') : events'[i] # "app_valid"
      BY <1>0, <2>0, LoopTail, MigrationAssumption DEF Migrating!TypeOK, Verified,
         Migrating!MigrationConstants
    <2>2. /\ f \subseteq {"write_id", "write_host", "connected", "valid", "started"}
          /\ pending = TRUE => "valid" \notin f
          /\ "started" \in f <=> "started" \in flags
      BY <1>0, <2>0, <2>1 DEF Migrating!TypeOK, Verified
    <2>3. /\ pending' = pending /\ image' = image
          /\ UNCHANGED <<up, providers, online, connected, inits, givenUp>>
          /\ \/ "started" \notin flags /\ UNCHANGED <<id, host, flags, timer, faults>>
             \/ /\ "started" \in flags /\ timer' \in BOOLEAN
                /\ \/ Migrating!WriteReady(f) /\ Migrating!WriteBack(f)
                   \/ flags' = f /\ UNCHANGED <<id, host, faults>>
      <3>1. timer' = timer \/ timer' = (timer /\ h # "connected")
        BY <1>8 DEF Migrating!OnEvent
      <3>2. timer \in BOOLEAN
        BY <1>0 DEF Migrating!TypeOK
      <3>3. timer' \in BOOLEAN
        BY <3>1, <3>2, Zenon
      <3> QED BY <1>8, <3>3 DEF Migrating!OnEvent
    <2> HIDE DEF f, h
    <2>4. /\ id' \in BOOLEAN /\ host' \in {"old", "target"} /\ faults' \in 0..MaxFaults
          /\ timer' \in BOOLEAN
          /\ flags' \subseteq {"write_id", "write_host", "connected", "valid", "started"}
          /\ host' # host => "valid" \in f /\ "started" \in flags
          /\ flags' \subseteq flags \/ flags' \subseteq f
      <3>1. CASE UNCHANGED <<id, host,
                             faults>> /\ (flags' = f \/ flags' = flags) /\ timer' \in BOOLEAN
        BY <1>0, <2>2, <3>1 DEF Migrating!TypeOK
      <3>2. CASE Migrating!WriteReady(f) /\ Migrating!WriteBack(f) /\ timer' \in BOOLEAN /\ "started" \in flags
        <4>1. id \in BOOLEAN
          BY <1>0 DEF Migrating!TypeOK
        <4>2. id' = TRUE \/ id' = id
          BY <3>2 DEF Migrating!WriteBack
        <4>3. id' \in BOOLEAN
          BY <4>1, <4>2, Zenon
        <4>4. "valid" \in f
          BY <3>2 DEF Migrating!WriteReady
        <4>5. /\ flags' \subseteq f
              /\ host' = host \/ host' = "target"
              /\ faults' = faults \/ (faults < MaxFaults /\ faults' = faults + 1)
          BY <3>2 DEF Migrating!WriteBack
        <4>6. faults' \in 0..MaxFaults
          BY <1>0, <4>5, MigrationAssumption DEF Migrating!TypeOK, Migrating!MigrationConstants
        <4>7. host' \in {"old", "target"}
          BY <1>0, <4>5 DEF Migrating!TypeOK
        <4> QED BY <2>2, <3>2, <4>3, <4>4, <4>5, <4>6, <4>7
      <3>3. timer \in BOOLEAN
        BY <1>0 DEF Migrating!TypeOK
      <3> QED BY <2>3, <3>1, <3>2, <3>3
    <2>5. Migrating!TypeOK'
      BY <1>0, <2>1, <2>3, <2>4 DEF Migrating!TypeOK, LoopEvents
    <2>6. Verified'
      BY <1>0, <2>1, <2>2, <2>3, <2>4 DEF Verified
    <2>7. OldImage'
      BY <1>0, <2>2, <2>3, <2>4 DEF OldImage
    <2> QED BY <2>5, <2>6, <2>7 DEF MigrationInv
  <1>9. CASE Migrating!OnTimeout
    <2>1. CASE Migrating!Reset("old") /\ pending /\ UNCHANGED faults
      <3>1. pending = TRUE
        BY <1>0, <2>1, Zenon DEF Migrating!TypeOK
      <3>2. host = "old"
        BY <1>0, <3>1 DEF Verified
      <3> QED BY <1>9, <2>1, <3>2, ResetKeeps DEF Migrating!OnTimeout
    <2>2. CASE /\ events' = Tail(events)
               /\ timer' = FALSE \/ timer' = (timer /\ "started" \notin flags)
               /\ UNCHANGED faults \/ (faults < MaxFaults /\ faults' = faults + 1)
               /\ UNCHANGED givenUp \/ givenUp' = TRUE
               /\ UNCHANGED <<Migrating!boot, up, flags, providers, Migrating!link>>
      <3>0. events # <<>>
        BY <1>9 DEF Migrating!OnTimeout
      <3>1. /\ events' \in Seq(LoopEvents) /\ Len(events') <= MaxQueue
            /\ pending = TRUE => \A i \in 1..Len(events') : events'[i] # "app_valid"
        BY <1>0, <2>2, <3>0, LoopTail, MigrationAssumption DEF Migrating!TypeOK, Verified,
           Migrating!MigrationConstants
      <3>2. givenUp \in BOOLEAN
        BY <1>0 DEF Migrating!TypeOK
      <3>3. timer' \in BOOLEAN /\ givenUp' \in BOOLEAN
        BY <2>2, <3>2, Zenon
      <3>4. faults' \in 0..MaxFaults
        BY <1>0, <2>2, MigrationAssumption DEF Migrating!TypeOK, Migrating!MigrationConstants
      <3> QED BY <1>0, <1>9, <2>2, <3>1, <3>3, <3>4
              DEF Migrating!OnTimeout, MigrationInv, Migrating!TypeOK, Verified, OldImage, LoopEvents
    <2> QED BY <1>9, <2>1, <2>2 DEF Migrating!OnTimeout
  <1>10. CASE Migrating!PowerCut
    <2>1. PICK img \in {"old", "new"} : Migrating!Reset(img) /\ (img = "old" => pending = TRUE \/ image = "old")
      <3>1. pending = TRUE \/ pending = FALSE
        BY <1>0, Zenon DEF Migrating!TypeOK
      <3> QED BY <1>0, <1>10, <3>1 DEF Migrating!PowerCut, Migrating!TypeOK
    <2>2. img = "old" => host = "old"
      BY <1>0, <2>1 DEF Verified, OldImage
    <2> QED BY <1>10, <2>1, <2>2, ResetKeeps DEF Migrating!PowerCut
  <1>11. CASE UNCHANGED Migrating!vars
    BY <1>0, <1>11 DEF Migrating!vars, MigrationInv, Migrating!TypeOK, Verified, OldImage
  <1> QED
    BY <1>1, <1>2, <1>3, <1>4, <1>5, <1>6, <1>7, <1>8, <1>9, <1>10, <1>11, <1>12 DEF Migrating!Next

(* The old image never runs with the target host stored (migration.c,      *)
(* __write_back and __on_timeout), in whatever order connections, the      *)
(* verification, timeouts, power cuts and failing writes come.             *)
THEOREM MigrationSafety == Migrating!Spec => []RollbackKeepsHost
  <1>1. MigrationInv => RollbackKeepsHost
    BY DEF MigrationInv, OldImage, RollbackKeepsHost, Migrating!RollbackKeepsHost
  <1> QED BY <1>1, MigrationInit, MigrationStep, PTL DEF Migrating!Spec

-----------------------------------------------------------------------------
(* The FreeRTOS scheduler.  Its invariant says who may still reach a       *)
(* timer's block (CallsOK, Blocks, Links, Deletions), in what order the    *)
(* daemon gets the commands (Seqs) and who will do what is due (Dues).     *)

USE TimersAssumption, SchedulerTasksAssumption, SchedulerBoundsAssumption

Dpcs    == {"wait", "detach", "next", "claim", "take", "lock", "retake", "rearm", "unlock", "loop",
            "start", "callback", "release", "delete", "free"}
Places  == {"idle", "lock", "mark", "send", "free", "done"}
(* A command, however high the counter of resets has gone.                 *)
AnyCommand == [op : {"arm", "stop", "publish", "delete"}, timer : Timers, seq : Nat]

(* What a link of a list holds.                                            *)
TimerOrNull == Timers \cup {NULL}

(* The types, by what the steps change together: the flags and sets,       *)
SetTypes ==
    /\ fresh \in SUBSET Timers /\ alloc \in SUBSET Timers /\ attached \in SUBSET Timers
    /\ usable \in SUBSET Timers /\ active \in SUBSET Timers /\ deleted \in SUBSET Timers
    /\ queued \in SUBSET Timers /\ stopped \in SUBSET Timers /\ claimed \in SUBSET Timers
    /\ cancelled \in SUBSET Timers
(* the counters,                                                           *)
CountTypes ==
    /\ fires \in [Timers -> Nat] /\ seq \in [Timers -> Nat] /\ left \in [Timers -> Nat]
    /\ resetTo \in [Timers -> Nat] /\ armSeq \in [Timers -> Nat] /\ fireSeq \in [Timers -> Nat]
    /\ taken \in Nat
(* the lists and where the dispatch task and the daemon are,               *)
LinkTypes ==
    /\ head \in TimerOrNull /\ tail \in TimerOrNull /\ cur \in TimerOrNull /\ nxt \in TimerOrNull
    /\ next \in [Timers -> TimerOrNull]
    /\ dpc \in Dpcs /\ daemon \in {"idle", "give"}
(* the calls of the API and the commands.                                  *)
CallTypes ==
    /\ cmds \in Seq(AnyCommand) /\ todo \in [Tasks -> Seq(AnyCommand)]
    /\ at \in [Tasks -> Places] /\ call \in [Tasks -> [op : Ops, timer : TimerOrNull]]

SchedulerTypes == SetTypes /\ CountTypes /\ LinkTypes /\ CallTypes

(* The commands a call may still have to send.                             *)
Scripts(o, t, s) ==
    CASE o = "schedule" -> {<<Command("arm", t, 0)>>}
      [] o = "stop"     -> {<<Command("stop", t, s)>>}
      [] o = "cancel"   -> {<<Command("delete", t, 0)>>}
      [] o = "reset"    -> {<<Command("stop", t, s), Command("publish", t, s), Command("arm", t, s)>>,
                            <<Command("publish", t, s), Command("arm", t, s)>>,
                            <<Command("arm", t, s)>>}
      [] OTHER -> {}

(* What a call of the API knows of its timer, wherever it has got to.      *)
CallOf(c) ==
    LET t == call[c].timer
        o == call[c].op
    IN  /\ at[c] = "idle" <=> o = "none"
        /\ at[c] = "idle" => t = NULL
        /\ at[c] # "idle" => t \in Timers \ fresh
        /\ o = "schedule" => /\ at[c] \in {"send", "done"}
                             /\ t \in attached \ (usable \cup stopped) /\ seq[t] = 0
        /\ o \in {"reset", "stop"} => at[c] \in {"lock", "mark", "send", "done"} /\ t \in usable
        /\ o = "cancel" => /\ t \notin usable
                           /\ at[c] \in {"lock", "mark"} => t \in attached
                           /\ at[c] \in {"send", "free"} => t \in cancelled \ (queued \cup claimed)
        /\ at[c] = "send" => todo[c] \in Scripts(o, t, seq[t])
        /\ o \notin {"none", "schedule"} /\ at[c] # "lock" => mutex = c

(* Schedule and cancel have the timer to themselves; who has the mutex.    *)
CallsOK ==
    /\ \A c \in Tasks : CallOf(c)
    /\ \A c, d \in Tasks : c # d /\ call[c].op \in {"schedule", "cancel"}
                              => call[d].timer # call[c].timer
    /\ at[Dispatch] # "idle" => dpc = "callback"
    /\ dpc \in {"retake", "rearm", "unlock"} => mutex = Dispatch

(* Where the dispatch task has the IN_CALLBACK flag set on its block.      *)
Claiming == {"take", "lock", "retake", "rearm", "unlock", "loop", "start", "callback", "release"}

(* Who may still refer to a private block, so that it is allocated.        *)
Blocks ==
    /\ usable \subseteq attached /\ attached \subseteq alloc /\ queued \subseteq alloc
    /\ attached \cap cancelled = {} /\ Timers \ fresh = attached \cup cancelled
    /\ fresh \cap (stopped \cup queued) = {}
    /\ \A t \in fresh : seq[t] = 0
    /\ claimed = IF dpc \in Claiming THEN {cur} ELSE {}
    /\ Holding => cur \in alloc
    /\ dpc = "rearm" => cur \in attached /\ taken = seq[cur]
    /\ dpc \in {"delete", "free"} =>
          /\ cur \in cancelled \ queued
          /\ \A c \in Tasks : call[c].op = "cancel" /\ at[c] \in {"send", "free"}
                                 => call[c].timer # cur

(* The two lists: QUEUED is the truth, nothing is linked to itself.        *)
Links ==
    /\ QueuedIsLinked
    /\ tail = NULL <=> head = NULL
    /\ tail # NULL => tail \in From(head) /\ next[tail] = NULL
    /\ \A x \in queued : x \notin From(next[x])
    /\ dpc \in {"claim", "take", "lock", "retake"} => cur \notin From(nxt)

(* A delete command for t has been sent.                                   *)
Doomed(t) == t \in deleted \/ \E i \in 1..Len(cmds) : cmds[i].op = "delete" /\ cmds[i].timer = t

(* A delete command is sent once, last, and by the block's last owner.     *)
Deletions ==
    /\ \A t \in Timers : Doomed(t) =>
          /\ t \in cancelled \ (queued \cup claimed)
          /\ \A c \in Tasks : call[c].op = "cancel" /\ at[c] = "send" => call[c].timer # t
          /\ dpc = "delete" => cur # t
    /\ \A i \in 1..Len(cmds) : cmds[i].timer \notin deleted \cup fresh
    /\ \A i, j \in 1..Len(cmds) : i < j /\ cmds[i].op = "delete" => cmds[j].timer # cmds[i].timer

(* A publication that will act: no later reset or stop has replaced it.    *)
Current(m) == m.op = "publish" /\ m.seq = seq[m.timer]
(* FreeRTOS has stopped t once it has run the first k commands.            *)
Still(t, k) ==
    \/ t \notin active /\ \A j \in 1..k : cmds[j].timer = t => cmds[j].op # "arm"
    \/ \E j \in 1..k : /\ cmds[j].timer = t /\ cmds[j].op \in {"stop", "delete"}
                       /\ \A l \in (j+1)..k : cmds[l].timer = t => cmds[l].op # "arm"
(* Before the first k commands have run, t has not been published again.   *)
Held(t, k) == t \in stopped /\ \A j \in 1..k : cmds[j].timer = t => ~Current(cmds[j])

(* How the order of commands keeps an expiry of an old delay out.          *)
Seqs ==
    /\ \A i \in 1..Len(cmds) :
          /\ cmds[i].seq <= seq[cmds[i].timer]
          /\ cmds[i].op = "arm" /\ cmds[i].seq # seq[cmds[i].timer] => Held(cmds[i].timer, i - 1)
          /\ cmds[i].op = "stop" => Held(cmds[i].timer, i - 1)
          /\ Current(cmds[i]) => Still(cmds[i].timer, i - 1)
    /\ \A c \in Tasks : at[c] = "send" /\ call[c].op \in {"reset", "stop"} =>
          /\ Len(todo[c]) = 2 => Still(call[c].timer, Len(cmds))
          /\ Head(todo[c]).op # "arm" => Held(call[c].timer, Len(cmds))
    /\ \A t \in active \ stopped : armSeq[t] = seq[t]
    /\ NoStaleExpiry

(* The call of task c will still send the command that arms t.             *)
ArmsIt(c, t) == call[c].timer = t /\ call[c].op \in {"schedule", "reset"} /\ at[c] = "send"
(* t counts down, or a command that arms it is on its way.                 *)
Coming(t) ==
    \/ t \in active
    \/ \E i \in 1..Len(cmds) : cmds[i].op = "arm" /\ cmds[i].timer = t
    \/ \E c \in Tasks : ArmsIt(c, t)

(* What is still due has somebody who will do it.                          *)
Dues ==
    /\ \A t \in attached \ stopped :
          /\ t \in Periodic => Coming(t)
          /\ left[t] > 0 => Coming(t) \/ fires[t] > 0 \/ (cur = t /\ dpc = "rearm")
    /\ \A i \in 1..Len(cmds) : Current(cmds[i]) =>
          \/ \E j \in (i+1)..Len(cmds) : cmds[j].op = "arm" /\ cmds[j].timer = cmds[i].timer
          \/ \E c \in Tasks : ArmsIt(c, cmds[i].timer)
    /\ \A t \in Timers : fires[t] > 0 => t \in queued
    /\ head # NULL => sem \/ daemon = "give" \/ dpc = "detach"

(* The inductive invariant of the scheduler.                               *)
SchedulerInv ==
    SchedulerTypes /\ CallsOK /\ Blocks /\ Links /\ Deletions /\ Seqs /\ Dues


(* A command that is built is a command.                                   *)
LEMMA CommandTypes == \A o \in {"arm", "stop", "publish", "delete"}, t \in Timers, s \in Nat :
                         Command(o, t, s) \in AnyCommand
  BY DEF Command, AnyCommand

(* Reading the fields of a command.                                        *)
LEMMA CommandFields ==
    ASSUME NEW o, NEW t, NEW s
    PROVE  Command(o, t, s).op = o /\ Command(o, t, s).timer = t /\ Command(o, t, s).seq = s
  BY DEF Command

(* Scripts of at most three commands, taken apart.                         *)
LEMMA Tuples ==
    ASSUME NEW S, NEW a \in S, NEW b \in S, NEW d \in S
    PROVE  /\ <<a>> \in Seq(S) /\ <<a, b>> \in Seq(S) /\ <<a, b, d>> \in Seq(S) /\ <<>> \in Seq(S)
           /\ Head(<<a>>) = a /\ Len(<<a>>) = 1
           /\ Head(<<a, b>>) = a /\ Len(<<a, b>>) = 2 /\ Tail(<<a, b>>) = <<b>>
           /\ Head(<<a, b, d>>) = a /\ Len(<<a, b, d>>) = 3 /\ Tail(<<a, b, d>>) = <<b, d>>
  OBVIOUS

(* The scripts of the calls are sequences of commands.                     *)
LEMMA ScriptTypes ==
    ASSUME NEW t \in Timers, NEW s \in Nat
    PROVE  /\ <<Command("arm", t, 0)>> \in Seq(AnyCommand)
           /\ <<Command("stop", t, s)>> \in Seq(AnyCommand)
           /\ <<Command("delete", t, 0)>> \in Seq(AnyCommand)
           /\ <<Command("stop", t, s), Command("publish", t, s), Command("arm", t, s)>>
                 \in Seq(AnyCommand)
           /\ <<>> \in Seq(AnyCommand)
  <1>1. \A n \in {0, s}, o \in {"arm", "stop", "publish", "delete"} :
           Command(o, t, n) \in AnyCommand
    BY CommandTypes
  <1> QED BY <1>1

(* Taking the first command of a queue.                                    *)
LEMMA QueueTail ==
    ASSUME NEW S, NEW q \in Seq(S), q # <<>>
    PROVE  /\ Head(q) = q[1] /\ Head(q) \in S /\ Tail(q) \in Seq(S)
           /\ Len(q) \in Nat \ {0} /\ Len(Tail(q)) = Len(q) - 1
           /\ \A i \in 1..Len(Tail(q)) : Tail(q)[i] = q[i + 1] /\ i + 1 \in 1..Len(q)
  OBVIOUS

(* Appending a command to a queue.                                         *)
LEMMA QueueAppend ==
    ASSUME NEW S, NEW q \in Seq(S), NEW e \in S
    PROVE  /\ Append(q, e) \in Seq(S) /\ Len(q) \in Nat /\ Len(Append(q, e)) = Len(q) + 1
           /\ \A i \in 1..Len(q) : Append(q, e)[i] = q[i] /\ q[i] \in S
           /\ Append(q, e)[Len(q) + 1] = e
  OBVIOUS

(* A call in progress is about a timer that exists.                        *)
LEMMA ActiveCall ==
    ASSUME CallTypes, CallsOK, NEW c \in Tasks, at[c] # "idle"
    PROVE  call[c].timer \in Timers /\ call[c].timer \notin fresh /\ call[c].op # "none"
  BY DEF CallsOK, CallOf

(* The dispatch task holds a block outside its wait.                       *)
LEMMA HeldBlock == ASSUME SetTypes, Blocks, Holding PROVE cur \in Timers /\ cur # NULL
  BY DEF SetTypes, Blocks

(* The command the daemon runs next.                                       *)
LEMMA FirstCommand ==
    ASSUME CallTypes, cmds # <<>>
    PROVE  /\ Head(cmds) = cmds[1] /\ Head(cmds) \in AnyCommand
           /\ Head(cmds).timer \in Timers /\ Head(cmds).seq \in Nat
           /\ Tail(cmds) \in Seq(AnyCommand) /\ 1 \in 1..Len(cmds)
  <1>1. cmds \in Seq(AnyCommand)
    BY DEF CallTypes
  <1>2. Head(cmds) = cmds[1] /\ Head(cmds) \in AnyCommand /\ Tail(cmds) \in Seq(AnyCommand)
        /\ 1 \in 1..Len(cmds)
    BY <1>1, QueueTail
  <1>3. Head(cmds).timer \in Timers /\ Head(cmds).seq \in Nat
    BY <1>2 DEF AnyCommand
  <1> QED BY <1>2, <1>3

(* What a call in progress has to send.                                    *)
LEMMA SendFacts ==
    ASSUME CallTypes, CallsOK, NEW c \in Tasks, at[c] = "send",
           NEW t, t = call[c].timer, NEW s, s = seq[t]
    PROVE  /\ todo[c] \in Seq(AnyCommand) /\ todo[c] # <<>>
           /\ call[c].op \in {"schedule", "stop", "cancel", "reset"}
           /\ call[c].op = "schedule" =>
                 Head(todo[c]) = Command("arm", t, 0) /\ Len(todo[c]) = 1
           /\ call[c].op = "stop" => Head(todo[c]) = Command("stop", t, s) /\ Len(todo[c]) = 1
           /\ call[c].op = "cancel" => Head(todo[c]) = Command("delete", t, 0) /\ Len(todo[c]) = 1
           /\ call[c].op = "reset" =>
                 \/ /\ Head(todo[c]) = Command("stop", t, s) /\ Len(todo[c]) = 3
                    /\ Tail(todo[c]) \in Scripts("reset", t, s) /\ Len(Tail(todo[c])) = 2
                    /\ Head(Tail(todo[c])) = Command("publish", t, s)
                 \/ /\ Head(todo[c]) = Command("publish", t, s) /\ Len(todo[c]) = 2
                    /\ Tail(todo[c]) \in Scripts("reset", t, s) /\ Len(Tail(todo[c])) = 1
                    /\ Head(Tail(todo[c])) = Command("arm", t, s)
                 \/ Head(todo[c]) = Command("arm", t, s) /\ Len(todo[c]) = 1
  <1>1. /\ todo[c] \in Seq(AnyCommand) /\ call[c].op \in Ops /\ call[c].op # "none"
        /\ todo[c] \in Scripts(call[c].op, t, s)
    BY DEF CallTypes, CallsOK, CallOf
  <1>2. call[c].op \in {"schedule", "stop", "cancel", "reset"}
    BY <1>1 DEF Ops
  <1>3. CASE call[c].op = "schedule"
    <2>1. todo[c] = <<Command("arm", t, 0)>>
      BY <1>1, <1>3 DEF Scripts
    <2> QED BY <1>1, <1>3, <2>1
  <1>4. CASE call[c].op = "stop"
    <2>1. todo[c] = <<Command("stop", t, s)>>
      BY <1>1, <1>4 DEF Scripts
    <2> QED BY <1>1, <1>4, <2>1
  <1>5. CASE call[c].op = "cancel"
    <2>1. todo[c] = <<Command("delete", t, 0)>>
      BY <1>1, <1>5 DEF Scripts
    <2> QED BY <1>1, <1>5, <2>1
  <1>6. CASE call[c].op = "reset"
    <2>1. Scripts("reset", t, s) =
            {<<Command("stop", t, s), Command("publish", t, s), Command("arm", t, s)>>,
             <<Command("publish", t, s), Command("arm", t, s)>>, <<Command("arm", t, s)>>}
      BY DEF Scripts
    <2>2. \/ todo[c] = <<Command("stop", t, s), Command("publish", t, s), Command("arm", t, s)>>
          \/ todo[c] = <<Command("publish", t, s), Command("arm", t, s)>>
          \/ todo[c] = <<Command("arm", t, s)>>
      BY <1>1, <1>6, <2>1
    <2> DEFINE a == Command("stop", t, s)
               b == Command("publish", t, s)
               d == Command("arm", t, s)
    <2>3. /\ Head(<<a, b, d>>) = a /\ Len(<<a, b, d>>) = 3 /\ Tail(<<a, b, d>>) = <<b, d>>
          /\ Head(<<b, d>>) = b /\ Len(<<b, d>>) = 2 /\ Tail(<<b, d>>) = <<d>>
          /\ Head(<<d>>) = d /\ Len(<<d>>) = 1
          /\ <<a, b, d>> # <<>> /\ <<b, d>> # <<>> /\ <<d>> # <<>>
      BY Tuples
    <2>4. <<b, d>> \in Scripts("reset", t, s) /\ <<d>> \in Scripts("reset", t, s)
      BY <2>1
    <2> HIDE DEF a, b, d
    <2>5. todo[c] = <<a, b, d>> \/ todo[c] = <<b, d>> \/ todo[c] = <<d>>
      BY <2>2 DEF a, b, d
    <2>6. \/ /\ Head(todo[c]) = a /\ Len(todo[c]) = 3 /\ Tail(todo[c]) \in Scripts("reset", t, s)
             /\ Len(Tail(todo[c])) = 2 /\ Head(Tail(todo[c])) = b
          \/ /\ Head(todo[c]) = b /\ Len(todo[c]) = 2 /\ Tail(todo[c]) \in Scripts("reset", t, s)
             /\ Len(Tail(todo[c])) = 1 /\ Head(Tail(todo[c])) = d
          \/ Head(todo[c]) = d /\ Len(todo[c]) = 1
      BY <2>3, <2>4, <2>5
    <2>7. todo[c] # <<>>
      BY <2>3, <2>5
    <2> QED BY <1>1, <1>6, <2>6, <2>7 DEF a, b, d
  <1> QED BY <1>1, <1>2, <1>3, <1>4, <1>5, <1>6

(* A reset sends its three commands in order.                              *)
LEMMA ResetFacts ==
    ASSUME CallTypes, CallsOK, NEW c \in Tasks, at[c] = "send", call[c].op = "reset"
    PROVE  LET t == call[c].timer
               s == seq[call[c].timer]
           IN  \/ /\ Head(todo[c]) = Command("stop", t, s) /\ Len(todo[c]) = 3
                  /\ Len(Tail(todo[c])) = 2 /\ Head(Tail(todo[c])) = Command("publish", t, s)
               \/ /\ Head(todo[c]) = Command("publish", t, s) /\ Len(todo[c]) = 2
                  /\ Len(Tail(todo[c])) = 1 /\ Head(Tail(todo[c])) = Command("arm", t, s)
               \/ Head(todo[c]) = Command("arm", t, s) /\ Len(todo[c]) = 1
  <1>1. PICK t, s : t = call[c].timer /\ s = seq[t]
    OBVIOUS
  <1>2. \/ /\ Head(todo[c]) = Command("stop", t, s) /\ Len(todo[c]) = 3
           /\ Len(Tail(todo[c])) = 2 /\ Head(Tail(todo[c])) = Command("publish", t, s)
        \/ /\ Head(todo[c]) = Command("publish", t, s) /\ Len(todo[c]) = 2
           /\ Len(Tail(todo[c])) = 1 /\ Head(Tail(todo[c])) = Command("arm", t, s)
        \/ Head(todo[c]) = Command("arm", t, s) /\ Len(todo[c]) = 1
    BY <1>1, SendFacts
  <1> QED BY <1>1, <1>2

(* What the last command of a script leaves.                               *)
LEMMA Sent ==
    ASSUME CallTypes, CallsOK, CountTypes, NEW c \in Tasks, at[c] = "send"
    PROVE  Head(todo[c]) \in AnyCommand /\ Head(todo[c]).timer = call[c].timer
  <1>1. call[c].timer \in Timers /\ seq[call[c].timer] \in Nat
    BY ActiveCall DEF CountTypes
  <1> DEFINE t == call[c].timer
  <1>2. \E o \in {"arm", "stop", "publish", "delete"} :
           Head(todo[c]) \in {Command(o, t, seq[t]), Command(o, t, 0)}
    BY SendFacts
  <1> QED BY <1>1, <1>2, CommandFields, CommandTypes

(* What the steps that compute do.                                         *)
LEMMA Marked ==
    ASSUME CountTypes, CallTypes, CallsOK, NEW c \in Tasks, MarkReset(c) \/ MarkStop(c),
           NEW t, t = call[c].timer
    PROVE  /\ t \in Timers /\ seq[t] + 1 \in Nat /\ at[c] = "mark" /\ call[c].op \in {"reset", "stop"}
           /\ seq' = [seq EXCEPT ![t] = seq[t] + 1] /\ stopped' = stopped \cup {t}
           /\ fires' = [fires EXCEPT ![t] = 0] /\ at' = [at EXCEPT ![c] = "send"]
           /\ call[c].op = "reset" =>
                 todo' = [todo EXCEPT ![c] =
                            <<Command("stop", t, seq[t] + 1), Command("publish", t, seq[t] + 1),
                              Command("arm", t, seq[t] + 1)>>]
           /\ call[c].op = "stop" => todo' = [todo EXCEPT ![c] = <<Command("stop", t, seq[t] + 1)>>]
           /\ \/ call[c].op = "reset" /\ \E d \in Segments(t) : resetTo' = [resetTo EXCEPT ![t] = d]
              \/ resetTo' = resetTo
           /\ UNCHANGED <<fresh, usable, alloc, attached, left, queued, claimed, cancelled, head,
                          tail,
                          next, sem, mutex, cmds, daemon, active, deleted, armSeq, dpc, cur, nxt,
                          runs, taken, call, fireSeq>>
  <1>1. t \in Timers /\ seq[t] \in Nat /\ seq[t] + 1 \in Nat
    <2>1. at[c] # "idle"
      BY DEF MarkReset, MarkStop
    <2> QED BY <2>1, ActiveCall DEF CountTypes
  <1>2. seq' = [seq EXCEPT ![t] = seq[t] + 1]
    BY DEF MarkReset, MarkStop, MarkStopped
  <1>3. seq'[t] = seq[t] + 1
    BY <1>1, <1>2 DEF CountTypes
  <1>4. CASE MarkReset(c)
    BY <1>1, <1>2, <1>3, <1>4 DEF MarkReset, MarkStopped, Jump, listVars, daemonVars, dispVars
  <1>5. CASE MarkStop(c)
    BY <1>1, <1>2, <1>3, <1>5 DEF MarkStop, MarkStopped, Jump, listVars, daemonVars, dispVars
  <1> QED BY <1>4, <1>5

(* What a command of the daemon changes.                                   *)
LEMMA Ran ==
    ASSUME CallTypes, CountTypes, RunCommand, NEW m, m = cmds[1]
    PROVE  /\ cmds # <<>> /\ daemon = "idle" /\ m \in AnyCommand
           /\ m.timer \in Timers /\ m.seq \in Nat /\ m.op \in {"arm", "stop", "publish", "delete"}
           /\ cmds' = Tail(cmds) /\ Len(cmds) \in Nat \ {0} /\ Len(cmds') = Len(cmds) - 1
           /\ cmds' \in Seq(AnyCommand)
           /\ \A i \in 1..Len(cmds') : cmds'[i] = cmds[i + 1] /\ i + 1 \in 1..Len(cmds)
           /\ active' = IF m.op = "arm" THEN active \cup {m.timer}
                        ELSE IF m.op = "publish" THEN active ELSE active \ {m.timer}
           /\ armSeq' = IF m.op = "arm" THEN [armSeq EXCEPT ![m.timer] = m.seq] ELSE armSeq
           /\ deleted' = IF m.op = "delete" THEN deleted \cup {m.timer} ELSE deleted
           /\ \/ /\ m.op = "publish" /\ m.timer \in attached /\ seq[m.timer] = m.seq
                 /\ left' = [left EXCEPT ![m.timer] = resetTo[m.timer]]
                 /\ fires' = [fires EXCEPT ![m.timer] = 0]
                 /\ stopped' = stopped \ {m.timer}
              \/ /\ UNCHANGED <<left, fires, stopped>>
                 /\ ~(m.op = "publish" /\ m.timer \in attached /\ seq[m.timer] = m.seq)
           /\ UNCHANGED <<fresh, usable, alloc, attached, seq, resetTo, queued, claimed, cancelled,
                          head, tail, next, sem, mutex, daemon, dpc, cur, nxt, runs, taken, at, call,
                          todo, fireSeq>>
  <1>1. cmds # <<>> /\ cmds \in Seq(AnyCommand)
    BY DEF RunCommand, CallTypes
  <1>2. Head(cmds) = m /\ m \in AnyCommand /\ 1 \in 1..Len(cmds)
    BY <1>1, QueueTail
  <1>3. m.timer \in Timers /\ m.seq \in Nat /\ m.op \in {"arm", "stop", "publish", "delete"}
    BY <1>2 DEF AnyCommand
  <1>4. cmds' = Tail(cmds) /\ daemon = "idle"
    BY DEF RunCommand
  <1>5. /\ Len(cmds) \in Nat \ {0} /\ Len(cmds') = Len(cmds) - 1 /\ cmds' \in Seq(AnyCommand)
        /\ \A i \in 1..Len(cmds') : cmds'[i] = cmds[i + 1] /\ i + 1 \in 1..Len(cmds)
    BY <1>1, <1>4, QueueTail
  <1>6. /\ active' = IF m.op = "arm" THEN active \cup {m.timer}
                     ELSE IF m.op = "publish" THEN active ELSE active \ {m.timer}
        /\ armSeq' = IF m.op = "arm" THEN [armSeq EXCEPT ![m.timer] = m.seq] ELSE armSeq
        /\ deleted' = IF m.op = "delete" THEN deleted \cup {m.timer} ELSE deleted
        /\ UNCHANGED <<fresh, usable, alloc, attached, seq, resetTo, queued, claimed, cancelled,
                       head, tail, next, sem, mutex, daemon, dpc, cur, nxt, runs, taken, at, call,
                       todo, fireSeq>>
    BY <1>2, Zenon DEF RunCommand, listVars, dispVars, callVars, history
  <1>7. IF m.op = "publish" THEN Publish(m) ELSE UNCHANGED <<left, fires, stopped>>
    BY <1>2, Zenon DEF RunCommand
  <1>8. \/ /\ m.op = "publish" /\ m.timer \in attached /\ seq[m.timer] = m.seq
           /\ left' = [left EXCEPT ![m.timer] = resetTo[m.timer]]
           /\ fires' = [fires EXCEPT ![m.timer] = 0]
           /\ stopped' = stopped \ {m.timer}
        \/ /\ UNCHANGED <<left, fires, stopped>>
           /\ ~(m.op = "publish" /\ m.timer \in attached /\ seq[m.timer] = m.seq)
    BY <1>7 DEF Publish, Published
  <1> QED BY <1>1, <1>2, <1>3, <1>4, <1>5, <1>6, <1>8

(* What sending a command of a call changes.                               *)
LEMMA SendStep ==
    ASSUME CountTypes, CallTypes, CallsOK, NEW c \in Tasks, SendCommand(c), NEW m, m = Head(todo[c])
    PROVE  /\ at[c] = "send" /\ m \in AnyCommand /\ m.timer = call[c].timer
           /\ call[c].timer \in Timers
           /\ cmds' = Append(cmds, m)
           /\ todo' = [todo EXCEPT ![c] = Tail(todo[c])] /\ Tail(todo[c]) \in Seq(AnyCommand)
           /\ at' = [at EXCEPT ![c] = IF Len(todo[c]) > 1 THEN "send"
                                      ELSE IF call[c].op = "cancel" THEN "free" ELSE "done"]
           /\ UNCHANGED <<fresh, usable, alloc, attached, fires, seq, left, resetTo, queued,
                          stopped,
                          claimed, cancelled, head, tail, next, sem, mutex, daemon, active, deleted,
                          armSeq, dpc, cur, nxt, runs, taken, call, fireSeq>>
  <1>1. at[c] = "send" /\ at[c] # "idle"
    BY DEF SendCommand
  <1>2. m \in AnyCommand /\ m.timer = call[c].timer /\ call[c].timer \in Timers
    BY <1>1, Sent, ActiveCall
  <1>3. todo[c] \in Seq(AnyCommand) /\ todo[c] # <<>>
    BY <1>1, SendFacts
  <1>4. Tail(todo[c]) \in Seq(AnyCommand)
    BY <1>3, QueueTail
  <1>5. /\ cmds' = Append(cmds, m)
        /\ todo' = [todo EXCEPT ![c] = Tail(todo[c])]
        /\ at' = [at EXCEPT ![c] = IF Len(todo[c]) > 1 THEN "send"
                                   ELSE IF call[c].op = "cancel" THEN "free" ELSE "done"]
        /\ UNCHANGED <<fresh, usable, alloc, attached, fires, seq, left, resetTo, queued, stopped,
                       claimed, cancelled, head, tail, next, sem, mutex, daemon, active, deleted,
                       armSeq, dpc, cur, nxt, runs, taken, call, fireSeq>>
    BY DEF SendCommand, Jump, blockVars, flagVars, listVars, daemonVars, dispVars, history
  <1> QED BY <1>1, <1>2, <1>4, <1>5

(* A call appends the command it has to send next, the dispatch task one   *)
(* for the timer in its hands.                                             *)
LEMMA Appended ==
    ASSUME CallTypes, NEW m \in AnyCommand, cmds' = Append(cmds, m)
    PROVE  /\ cmds' \in Seq(AnyCommand) /\ Len(cmds) \in Nat /\ Len(cmds') = Len(cmds) + 1
           /\ \A i \in 1..Len(cmds) : cmds'[i] = cmds[i]
           /\ cmds'[Len(cmds) + 1] = m
  BY QueueAppend DEF CallTypes

(* No step leaves the types of the flags and sets,                         *)
LEMMA SetTypesNext ==
    SetTypes /\ LinkTypes /\ CallTypes /\ CallsOK /\ Blocks /\ SchedulerNext => SetTypes'
  <1> SUFFICES ASSUME SetTypes, LinkTypes, CallTypes, CallsOK, Blocks, SchedulerNext PROVE SetTypes'
    OBVIOUS
  <1> USE DEF SetTypes, LinkTypes
  <1>1. ASSUME NEW c \in Tasks, NEW t \in Timers, ScheduleTask(c, t)
        PROVE  SetTypes'
    BY <1>1 DEF ScheduleTask, At, Jump, Enter, Free, Walk, TakeFires, Publish, Enqueue, MarkStopped,
       Segments, CountFire,
       dispVars, callVars, blockVars, flagVars, listVars, daemonVars, history
  <1>2. ASSUME NEW c \in Tasks, NEW t \in Timers,
                NEW o \in {"reset", "stop", "cancel"}, BeginCall(c, o, t)
        PROVE  SetTypes'
    BY <1>2 DEF BeginCall, At, Jump, Enter, Free, Walk, TakeFires, Publish, Enqueue, MarkStopped,
       Segments, CountFire,
       dispVars, callVars, blockVars, flagVars, listVars, daemonVars, history
  <1>3. ASSUME NEW c \in Tasks, LockCommands(c)
        PROVE  SetTypes'
    BY <1>3 DEF LockCommands, At, Jump, Enter, Free, Walk, TakeFires, Publish, Enqueue, MarkStopped,
       Segments, CountFire,
       dispVars, callVars, blockVars, flagVars, listVars, daemonVars, history
  <1>4. ASSUME NEW c \in Tasks, MarkReset(c)
        PROVE  SetTypes'
    BY <1>4, ActiveCall DEF MarkReset, At, Jump, Enter, Free, Walk, TakeFires, Publish, Enqueue,
       MarkStopped, Segments, CountFire,
       dispVars, callVars, blockVars, flagVars, listVars, daemonVars, history
  <1>5. ASSUME NEW c \in Tasks, MarkStop(c)
        PROVE  SetTypes'
    BY <1>5, ActiveCall DEF MarkStop, At, Jump, Enter, Free, Walk, TakeFires, Publish, Enqueue,
       MarkStopped, Segments, CountFire,
       dispVars, callVars, blockVars, flagVars, listVars, daemonVars, history
  <1>6. ASSUME NEW c \in Tasks, MarkCancel(c)
        PROVE  SetTypes'
    BY <1>6, ActiveCall DEF MarkCancel, At, Jump, Enter, Free, Walk, TakeFires, Publish, Enqueue,
       MarkStopped, Segments, CountFire,
       dispVars, callVars, blockVars, flagVars, listVars, daemonVars, history
  <1>7. ASSUME NEW c \in Tasks, SendCommand(c)
        PROVE  SetTypes'
    BY <1>7 DEF SendCommand, At, Jump, Enter, Free, Walk, TakeFires, Publish, Enqueue, MarkStopped,
       Segments, CountFire,
       dispVars, callVars, blockVars, flagVars, listVars, daemonVars, history
  <1>8. ASSUME NEW c \in Tasks, EndCall(c)
        PROVE  SetTypes'
    BY <1>8, ActiveCall DEF EndCall, At, Jump, Enter, Free, Walk, TakeFires, Publish, Enqueue,
       MarkStopped, Segments, CountFire,
       dispVars, callVars, blockVars, flagVars, listVars, daemonVars, history
  <1>9. CASE GiveSemaphore
    BY <1>9 DEF GiveSemaphore, At, Jump, Enter, Free, Walk, TakeFires, Publish, Enqueue,
       MarkStopped, Segments, CountFire,
       dispVars, callVars, blockVars, flagVars, listVars, daemonVars, history
  <1>10. CASE RunCommand
    BY <1>10, FirstCommand DEF RunCommand, At, Jump, Enter, Free, Walk, TakeFires, Publish, Enqueue,
       MarkStopped, Segments, CountFire,
       dispVars, callVars, blockVars, flagVars, listVars, daemonVars, history
  <1>11. ASSUME NEW t \in Timers, Expire(t)
        PROVE  SetTypes'
    BY <1>11 DEF Expire, At, Jump, Enter, Free, Walk, TakeFires, Publish, Enqueue, MarkStopped,
       Segments, CountFire,
       dispVars, callVars, blockVars, flagVars, listVars, daemonVars, history
  <1>12. CASE TakeSemaphore
    BY <1>12 DEF TakeSemaphore, At, Jump, Enter, Free, Walk, TakeFires, Publish, Enqueue,
       MarkStopped, Segments, CountFire,
       dispVars, callVars, blockVars, flagVars, listVars, daemonVars, history
  <1>13. CASE DetachList
    BY <1>13 DEF DetachList, At, Jump, Enter, Free, Walk, TakeFires, Publish, Enqueue, MarkStopped,
       Segments, CountFire,
       dispVars, callVars, blockVars, flagVars, listVars, daemonVars, history
  <1>14. CASE ReadNext
    BY <1>14 DEF ReadNext, At, Jump, Enter, Free, Walk, TakeFires, Publish, Enqueue, MarkStopped,
       Segments, CountFire,
       dispVars, callVars, blockVars, flagVars, listVars, daemonVars, history
  <1>15. CASE Claim
    BY <1>15, HeldBlock DEF Claim, At, Jump, Enter, Free, Walk, TakeFires, Publish, Enqueue,
       MarkStopped, Segments, CountFire,
       dispVars, callVars, blockVars, flagVars, listVars, daemonVars, history, Holding
  <1>16. CASE TakeExpiry
    BY <1>16 DEF TakeExpiry, At, Jump, Enter, Free, Walk, TakeFires, Publish, Enqueue, MarkStopped,
       Segments, CountFire,
       dispVars, callVars, blockVars, flagVars, listVars, daemonVars, history
  <1>17. CASE WaitCommands
    BY <1>17 DEF WaitCommands, At, Jump, Enter, Free, Walk, TakeFires, Publish, Enqueue,
       MarkStopped, Segments, CountFire,
       dispVars, callVars, blockVars, flagVars, listVars, daemonVars, history
  <1>18. CASE LockRearm
    BY <1>18 DEF LockRearm, At, Jump, Enter, Free, Walk, TakeFires, Publish, Enqueue, MarkStopped,
       Segments, CountFire,
       dispVars, callVars, blockVars, flagVars, listVars, daemonVars, history
  <1>19. CASE RetakeExpiry
    BY <1>19 DEF RetakeExpiry, At, Jump, Enter, Free, Walk, TakeFires, Publish, Enqueue,
       MarkStopped, Segments, CountFire,
       dispVars, callVars, blockVars, flagVars, listVars, daemonVars, history
  <1>20. CASE SendRearm
    BY <1>20 DEF SendRearm, At, Jump, Enter, Free, Walk, TakeFires, Publish, Enqueue, MarkStopped,
       Segments, CountFire,
       dispVars, callVars, blockVars, flagVars, listVars, daemonVars, history
  <1>21. CASE UnlockRearm
    BY <1>21 DEF UnlockRearm, At, Jump, Enter, Free, Walk, TakeFires, Publish, Enqueue, MarkStopped,
       Segments, CountFire,
       dispVars, callVars, blockVars, flagVars, listVars, daemonVars, history
  <1>22. CASE CheckRun
    BY <1>22 DEF CheckRun, At, Jump, Enter, Free, Walk, TakeFires, Publish, Enqueue, MarkStopped,
       Segments, CountFire,
       dispVars, callVars, blockVars, flagVars, listVars, daemonVars, history
  <1>23. CASE StartTask
    BY <1>23 DEF StartTask, At, Jump, Enter, Free, Walk, TakeFires, Publish, Enqueue, MarkStopped,
       Segments, CountFire,
       dispVars, callVars, blockVars, flagVars, listVars, daemonVars, history
  <1>24. CASE EndTask
    BY <1>24 DEF EndTask, At, Jump, Enter, Free, Walk, TakeFires, Publish, Enqueue, MarkStopped,
       Segments, CountFire,
       dispVars, callVars, blockVars, flagVars, listVars, daemonVars, history
  <1>25. CASE Release
    BY <1>25 DEF Release, At, Jump, Enter, Free, Walk, TakeFires, Publish, Enqueue, MarkStopped,
       Segments, CountFire,
       dispVars, callVars, blockVars, flagVars, listVars, daemonVars, history
  <1>26. CASE DeleteTimer
    BY <1>26 DEF DeleteTimer, At, Jump, Enter, Free, Walk, TakeFires, Publish, Enqueue, MarkStopped,
       Segments, CountFire,
       dispVars, callVars, blockVars, flagVars, listVars, daemonVars, history
  <1>27. CASE FreeBlock
    BY <1>27 DEF FreeBlock, At, Jump, Enter, Free, Walk, TakeFires, Publish, Enqueue, MarkStopped,
       Segments, CountFire,
       dispVars, callVars, blockVars, flagVars, listVars, daemonVars, history
  <1> QED BY <1>1, <1>2, <1>3, <1>4, <1>5, <1>6, <1>7, <1>8, <1>9, <1>10, <1>11, <1>12, <1>13,
             <1>14, <1>15, <1>16, <1>17, <1>18, <1>19, <1>20, <1>21, <1>22, <1>23, <1>24, <1>25,
             <1>26, <1>27 DEF SchedulerNext, Using, Calling, Daemon, Dispatching

(* none those of the counters,                                             *)
LEMMA CountTypesNext ==
    SetTypes /\ CountTypes /\ LinkTypes /\ CallTypes /\ CallsOK /\ Blocks /\ SchedulerNext
        => CountTypes'
  <1> SUFFICES ASSUME SetTypes, CountTypes, LinkTypes, CallTypes, CallsOK, Blocks, SchedulerNext
               PROVE CountTypes'
    OBVIOUS
  <1> USE DEF CountTypes
  <1>1. ASSUME NEW c \in Tasks, NEW t \in Timers, ScheduleTask(c, t)
        PROVE  CountTypes'
    BY <1>1 DEF ScheduleTask, At, Jump, Enter, Free, Walk, TakeFires, Publish, Enqueue, MarkStopped,
       Segments, CountFire,
       dispVars, callVars, blockVars, flagVars, listVars, daemonVars, history
  <1>2. ASSUME NEW c \in Tasks, NEW t \in Timers,
                NEW o \in {"reset", "stop", "cancel"}, BeginCall(c, o, t)
        PROVE  CountTypes'
    BY <1>2 DEF BeginCall, At, Jump, Enter, Free, Walk, TakeFires, Publish, Enqueue, MarkStopped,
       Segments, CountFire,
       dispVars, callVars, blockVars, flagVars, listVars, daemonVars, history
  <1>3. ASSUME NEW c \in Tasks, LockCommands(c)
        PROVE  CountTypes'
    BY <1>3 DEF LockCommands, At, Jump, Enter, Free, Walk, TakeFires, Publish, Enqueue, MarkStopped,
       Segments, CountFire,
       dispVars, callVars, blockVars, flagVars, listVars, daemonVars, history
  <1>4. ASSUME NEW c \in Tasks, MarkReset(c)
        PROVE  CountTypes'
    BY <1>4, ActiveCall DEF MarkReset, At, Jump, Enter, Free, Walk, TakeFires, Publish, Enqueue,
       MarkStopped, Segments, CountFire,
       dispVars, callVars, blockVars, flagVars, listVars, daemonVars, history
  <1>5. ASSUME NEW c \in Tasks, MarkStop(c)
        PROVE  CountTypes'
    BY <1>5, ActiveCall DEF MarkStop, At, Jump, Enter, Free, Walk, TakeFires, Publish, Enqueue,
       MarkStopped, Segments, CountFire,
       dispVars, callVars, blockVars, flagVars, listVars, daemonVars, history
  <1>6. ASSUME NEW c \in Tasks, MarkCancel(c)
        PROVE  CountTypes'
    BY <1>6 DEF MarkCancel, At, Jump, Enter, Free, Walk, TakeFires, Publish, Enqueue, MarkStopped,
       Segments, CountFire,
       dispVars, callVars, blockVars, flagVars, listVars, daemonVars, history
  <1>7. ASSUME NEW c \in Tasks, SendCommand(c)
        PROVE  CountTypes'
    BY <1>7 DEF SendCommand, At, Jump, Enter, Free, Walk, TakeFires, Publish, Enqueue, MarkStopped,
       Segments, CountFire,
       dispVars, callVars, blockVars, flagVars, listVars, daemonVars, history
  <1>8. ASSUME NEW c \in Tasks, EndCall(c)
        PROVE  CountTypes'
    BY <1>8 DEF EndCall, At, Jump, Enter, Free, Walk, TakeFires, Publish, Enqueue, MarkStopped,
       Segments, CountFire,
       dispVars, callVars, blockVars, flagVars, listVars, daemonVars, history
  <1>9. CASE GiveSemaphore
    BY <1>9 DEF GiveSemaphore, At, Jump, Enter, Free, Walk, TakeFires, Publish, Enqueue,
       MarkStopped, Segments, CountFire,
       dispVars, callVars, blockVars, flagVars, listVars, daemonVars, history
  <1>10. CASE RunCommand
    <2> DEFINE m == cmds[1]
    <2>1. /\ m.timer \in Timers /\ m.seq \in Nat /\ UNCHANGED <<seq, resetTo, taken, fireSeq>>
          /\ armSeq' \in {[armSeq EXCEPT ![m.timer] = m.seq], armSeq}
          /\ left' \in {[left EXCEPT ![m.timer] = resetTo[m.timer]], left}
          /\ fires' \in {[fires EXCEPT ![m.timer] = 0], fires}
      BY <1>10, Ran
    <2> HIDE DEF m
    <2> QED BY <2>1
  <1>11. ASSUME NEW t \in Timers, Expire(t)
        PROVE  CountTypes'
    BY <1>11 DEF Expire, At, Jump, Enter, Free, Walk, TakeFires, Publish, Enqueue, MarkStopped,
       Segments, CountFire,
       dispVars, callVars, blockVars, flagVars, listVars, daemonVars, history
  <1>12. CASE TakeSemaphore
    BY <1>12 DEF TakeSemaphore, At, Jump, Enter, Free, Walk, TakeFires, Publish, Enqueue,
       MarkStopped, Segments, CountFire,
       dispVars, callVars, blockVars, flagVars, listVars, daemonVars, history
  <1>13. CASE DetachList
    BY <1>13 DEF DetachList, At, Jump, Enter, Free, Walk, TakeFires, Publish, Enqueue, MarkStopped,
       Segments, CountFire,
       dispVars, callVars, blockVars, flagVars, listVars, daemonVars, history
  <1>14. CASE ReadNext
    BY <1>14 DEF ReadNext, At, Jump, Enter, Free, Walk, TakeFires, Publish, Enqueue, MarkStopped,
       Segments, CountFire,
       dispVars, callVars, blockVars, flagVars, listVars, daemonVars, history
  <1>15. CASE Claim
    BY <1>15 DEF Claim, At, Jump, Enter, Free, Walk, TakeFires, Publish, Enqueue, MarkStopped,
       Segments, CountFire,
       dispVars, callVars, blockVars, flagVars, listVars, daemonVars, history
  <1>16. CASE TakeExpiry
    BY <1>16, HeldBlock DEF TakeExpiry, At, Jump, Enter, Free, Walk, TakeFires, Publish, Enqueue,
       MarkStopped, Segments, CountFire,
       dispVars, callVars, blockVars, flagVars, listVars, daemonVars, history, Holding
  <1>17. CASE WaitCommands
    BY <1>17 DEF WaitCommands, At, Jump, Enter, Free, Walk, TakeFires, Publish, Enqueue,
       MarkStopped, Segments, CountFire,
       dispVars, callVars, blockVars, flagVars, listVars, daemonVars, history
  <1>18. CASE LockRearm
    BY <1>18 DEF LockRearm, At, Jump, Enter, Free, Walk, TakeFires, Publish, Enqueue, MarkStopped,
       Segments, CountFire,
       dispVars, callVars, blockVars, flagVars, listVars, daemonVars, history
  <1>19. CASE RetakeExpiry
    BY <1>19, HeldBlock DEF RetakeExpiry, At, Jump, Enter, Free, Walk, TakeFires, Publish, Enqueue,
       MarkStopped, Segments, CountFire,
       dispVars, callVars, blockVars, flagVars, listVars, daemonVars, history, Holding
  <1>20. CASE SendRearm
    BY <1>20 DEF SendRearm, At, Jump, Enter, Free, Walk, TakeFires, Publish, Enqueue, MarkStopped,
       Segments, CountFire,
       dispVars, callVars, blockVars, flagVars, listVars, daemonVars, history
  <1>21. CASE UnlockRearm
    BY <1>21 DEF UnlockRearm, At, Jump, Enter, Free, Walk, TakeFires, Publish, Enqueue, MarkStopped,
       Segments, CountFire,
       dispVars, callVars, blockVars, flagVars, listVars, daemonVars, history
  <1>22. CASE CheckRun
    BY <1>22 DEF CheckRun, At, Jump, Enter, Free, Walk, TakeFires, Publish, Enqueue, MarkStopped,
       Segments, CountFire,
       dispVars, callVars, blockVars, flagVars, listVars, daemonVars, history
  <1>23. CASE StartTask
    BY <1>23 DEF StartTask, At, Jump, Enter, Free, Walk, TakeFires, Publish, Enqueue, MarkStopped,
       Segments, CountFire,
       dispVars, callVars, blockVars, flagVars, listVars, daemonVars, history
  <1>24. CASE EndTask
    BY <1>24 DEF EndTask, At, Jump, Enter, Free, Walk, TakeFires, Publish, Enqueue, MarkStopped,
       Segments, CountFire,
       dispVars, callVars, blockVars, flagVars, listVars, daemonVars, history
  <1>25. CASE Release
    BY <1>25 DEF Release, At, Jump, Enter, Free, Walk, TakeFires, Publish, Enqueue, MarkStopped,
       Segments, CountFire,
       dispVars, callVars, blockVars, flagVars, listVars, daemonVars, history
  <1>26. CASE DeleteTimer
    BY <1>26 DEF DeleteTimer, At, Jump, Enter, Free, Walk, TakeFires, Publish, Enqueue, MarkStopped,
       Segments, CountFire,
       dispVars, callVars, blockVars, flagVars, listVars, daemonVars, history
  <1>27. CASE FreeBlock
    BY <1>27 DEF FreeBlock, At, Jump, Enter, Free, Walk, TakeFires, Publish, Enqueue, MarkStopped,
       Segments, CountFire,
       dispVars, callVars, blockVars, flagVars, listVars, daemonVars, history
  <1> QED BY <1>1, <1>2, <1>3, <1>4, <1>5, <1>6, <1>7, <1>8, <1>9, <1>10, <1>11, <1>12, <1>13,
             <1>14, <1>15, <1>16, <1>17, <1>18, <1>19, <1>20, <1>21, <1>22, <1>23, <1>24, <1>25,
             <1>26, <1>27 DEF SchedulerNext, Using, Calling, Daemon, Dispatching

(* none those of the lists,                                                *)
LEMMA LinkTypesNext == SetTypes /\ LinkTypes /\ CountTypes /\ Blocks /\ SchedulerNext => LinkTypes'
  <1> SUFFICES ASSUME SetTypes, LinkTypes, CountTypes, Blocks, SchedulerNext PROVE LinkTypes'
    OBVIOUS
  <1> USE DEF LinkTypes, TimerOrNull, Dpcs
  <1>1. ASSUME NEW c \in Tasks, NEW t \in Timers, ScheduleTask(c, t)
        PROVE  LinkTypes'
    BY <1>1 DEF ScheduleTask, At, Jump, Enter, Free, Walk, TakeFires, Publish, Enqueue, MarkStopped,
       Segments, CountFire,
       dispVars, callVars, blockVars, flagVars, listVars, daemonVars, history
  <1>2. ASSUME NEW c \in Tasks, NEW t \in Timers,
                NEW o \in {"reset", "stop", "cancel"}, BeginCall(c, o, t)
        PROVE  LinkTypes'
    BY <1>2 DEF BeginCall, At, Jump, Enter, Free, Walk, TakeFires, Publish, Enqueue, MarkStopped,
       Segments, CountFire,
       dispVars, callVars, blockVars, flagVars, listVars, daemonVars, history
  <1>3. ASSUME NEW c \in Tasks, LockCommands(c)
        PROVE  LinkTypes'
    BY <1>3 DEF LockCommands, At, Jump, Enter, Free, Walk, TakeFires, Publish, Enqueue, MarkStopped,
       Segments, CountFire,
       dispVars, callVars, blockVars, flagVars, listVars, daemonVars, history
  <1>4. ASSUME NEW c \in Tasks, MarkReset(c)
        PROVE  LinkTypes'
    BY <1>4 DEF MarkReset, At, Jump, Enter, Free, Walk, TakeFires, Publish, Enqueue, MarkStopped,
       Segments, CountFire,
       dispVars, callVars, blockVars, flagVars, listVars, daemonVars, history
  <1>5. ASSUME NEW c \in Tasks, MarkStop(c)
        PROVE  LinkTypes'
    BY <1>5 DEF MarkStop, At, Jump, Enter, Free, Walk, TakeFires, Publish, Enqueue, MarkStopped,
       Segments, CountFire,
       dispVars, callVars, blockVars, flagVars, listVars, daemonVars, history
  <1>6. ASSUME NEW c \in Tasks, MarkCancel(c)
        PROVE  LinkTypes'
    BY <1>6 DEF MarkCancel, At, Jump, Enter, Free, Walk, TakeFires, Publish, Enqueue, MarkStopped,
       Segments, CountFire,
       dispVars, callVars, blockVars, flagVars, listVars, daemonVars, history
  <1>7. ASSUME NEW c \in Tasks, SendCommand(c)
        PROVE  LinkTypes'
    BY <1>7 DEF SendCommand, At, Jump, Enter, Free, Walk, TakeFires, Publish, Enqueue, MarkStopped,
       Segments, CountFire,
       dispVars, callVars, blockVars, flagVars, listVars, daemonVars, history
  <1>8. ASSUME NEW c \in Tasks, EndCall(c)
        PROVE  LinkTypes'
    BY <1>8 DEF EndCall, At, Jump, Enter, Free, Walk, TakeFires, Publish, Enqueue, MarkStopped,
       Segments, CountFire,
       dispVars, callVars, blockVars, flagVars, listVars, daemonVars, history
  <1>9. CASE GiveSemaphore
    BY <1>9 DEF GiveSemaphore, At, Jump, Enter, Free, Walk, TakeFires, Publish, Enqueue,
       MarkStopped, Segments, CountFire,
       dispVars, callVars, blockVars, flagVars, listVars, daemonVars, history
  <1>10. CASE RunCommand
    BY <1>10 DEF RunCommand, At, Jump, Enter, Free, Walk, TakeFires, Publish, Enqueue, MarkStopped,
       Segments, CountFire,
       dispVars, callVars, blockVars, flagVars, listVars, daemonVars, history
  <1>11. ASSUME NEW t \in Timers, Expire(t)
        PROVE  LinkTypes'
    BY <1>11 DEF Expire, At, Jump, Enter, Free, Walk, TakeFires, Publish, Enqueue, MarkStopped,
       Segments, CountFire,
       dispVars, callVars, blockVars, flagVars, listVars, daemonVars, history
  <1>12. CASE TakeSemaphore
    BY <1>12 DEF TakeSemaphore, At, Jump, Enter, Free, Walk, TakeFires, Publish, Enqueue,
       MarkStopped, Segments, CountFire,
       dispVars, callVars, blockVars, flagVars, listVars, daemonVars, history
  <1>13. CASE DetachList
    BY <1>13 DEF DetachList, At, Jump, Enter, Free, Walk, TakeFires, Publish, Enqueue, MarkStopped,
       Segments, CountFire,
       dispVars, callVars, blockVars, flagVars, listVars, daemonVars, history
  <1>14. CASE ReadNext
    BY <1>14, HeldBlock DEF ReadNext, At, Jump, Enter, Free, Walk, TakeFires, Publish, Enqueue,
       MarkStopped, Segments, CountFire,
       dispVars, callVars, blockVars, flagVars, listVars, daemonVars, history, Holding
  <1>15. CASE Claim
    BY <1>15 DEF Claim, At, Jump, Enter, Free, Walk, TakeFires, Publish, Enqueue, MarkStopped,
       Segments, CountFire,
       dispVars, callVars, blockVars, flagVars, listVars, daemonVars, history
  <1>16. CASE TakeExpiry
    BY <1>16 DEF TakeExpiry, At, Jump, Enter, Free, Walk, TakeFires, Publish, Enqueue, MarkStopped,
       Segments, CountFire,
       dispVars, callVars, blockVars, flagVars, listVars, daemonVars, history
  <1>17. CASE WaitCommands
    BY <1>17 DEF WaitCommands, At, Jump, Enter, Free, Walk, TakeFires, Publish, Enqueue,
       MarkStopped, Segments, CountFire,
       dispVars, callVars, blockVars, flagVars, listVars, daemonVars, history
  <1>18. CASE LockRearm
    BY <1>18 DEF LockRearm, At, Jump, Enter, Free, Walk, TakeFires, Publish, Enqueue, MarkStopped,
       Segments, CountFire,
       dispVars, callVars, blockVars, flagVars, listVars, daemonVars, history
  <1>19. CASE RetakeExpiry
    BY <1>19 DEF RetakeExpiry, At, Jump, Enter, Free, Walk, TakeFires, Publish, Enqueue,
       MarkStopped, Segments, CountFire,
       dispVars, callVars, blockVars, flagVars, listVars, daemonVars, history
  <1>20. CASE SendRearm
    BY <1>20 DEF SendRearm, At, Jump, Enter, Free, Walk, TakeFires, Publish, Enqueue, MarkStopped,
       Segments, CountFire,
       dispVars, callVars, blockVars, flagVars, listVars, daemonVars, history
  <1>21. CASE UnlockRearm
    BY <1>21 DEF UnlockRearm, At, Jump, Enter, Free, Walk, TakeFires, Publish, Enqueue, MarkStopped,
       Segments, CountFire,
       dispVars, callVars, blockVars, flagVars, listVars, daemonVars, history
  <1>22. CASE CheckRun
    BY <1>22 DEF CheckRun, At, Jump, Enter, Free, Walk, TakeFires, Publish, Enqueue, MarkStopped,
       Segments, CountFire,
       dispVars, callVars, blockVars, flagVars, listVars, daemonVars, history
  <1>23. CASE StartTask
    BY <1>23 DEF StartTask, At, Jump, Enter, Free, Walk, TakeFires, Publish, Enqueue, MarkStopped,
       Segments, CountFire,
       dispVars, callVars, blockVars, flagVars, listVars, daemonVars, history
  <1>24. CASE EndTask
    BY <1>24 DEF EndTask, At, Jump, Enter, Free, Walk, TakeFires, Publish, Enqueue, MarkStopped,
       Segments, CountFire,
       dispVars, callVars, blockVars, flagVars, listVars, daemonVars, history
  <1>25. CASE Release
    BY <1>25 DEF Release, At, Jump, Enter, Free, Walk, TakeFires, Publish, Enqueue, MarkStopped,
       Segments, CountFire,
       dispVars, callVars, blockVars, flagVars, listVars, daemonVars, history
  <1>26. CASE DeleteTimer
    BY <1>26 DEF DeleteTimer, At, Jump, Enter, Free, Walk, TakeFires, Publish, Enqueue, MarkStopped,
       Segments, CountFire,
       dispVars, callVars, blockVars, flagVars, listVars, daemonVars, history
  <1>27. CASE FreeBlock
    BY <1>27 DEF FreeBlock, At, Jump, Enter, Free, Walk, TakeFires, Publish, Enqueue, MarkStopped,
       Segments, CountFire,
       dispVars, callVars, blockVars, flagVars, listVars, daemonVars, history
  <1> QED BY <1>1, <1>2, <1>3, <1>4, <1>5, <1>6, <1>7, <1>8, <1>9, <1>10, <1>11, <1>12, <1>13,
             <1>14, <1>15, <1>16, <1>17, <1>18, <1>19, <1>20, <1>21, <1>22, <1>23, <1>24, <1>25,
             <1>26, <1>27 DEF SchedulerNext, Using, Calling, Daemon, Dispatching

(* none those of the calls and commands.                                   *)
LEMMA CallTypesNext ==
    SetTypes /\ CountTypes /\ LinkTypes /\ CallTypes /\ CallsOK /\ Blocks /\ SchedulerNext
        => CallTypes'
  <1> SUFFICES ASSUME SetTypes, CountTypes, LinkTypes, CallTypes, CallsOK, Blocks, SchedulerNext
               PROVE CallTypes'
    OBVIOUS
  <1> USE DEF CallTypes, Places, TimerOrNull, Ops, NoCall
  <1>1. ASSUME NEW c \in Tasks, NEW t \in Timers, ScheduleTask(c, t)
        PROVE  CallTypes'
    BY <1>1, ScriptTypes DEF ScheduleTask, At, Jump, Enter, Free, Walk, TakeFires, Publish, Enqueue,
       MarkStopped, Segments, CountFire,
       dispVars, callVars, blockVars, flagVars, listVars, daemonVars, history
  <1>2. ASSUME NEW c \in Tasks, NEW t \in Timers,
                NEW o \in {"reset", "stop", "cancel"}, BeginCall(c, o, t)
        PROVE  CallTypes'
    BY <1>2 DEF BeginCall, At, Jump, Enter, Free, Walk, TakeFires, Publish, Enqueue, MarkStopped,
       Segments, CountFire,
       dispVars, callVars, blockVars, flagVars, listVars, daemonVars, history
  <1>3. ASSUME NEW c \in Tasks, LockCommands(c)
        PROVE  CallTypes'
    BY <1>3 DEF LockCommands, At, Jump, Enter, Free, Walk, TakeFires, Publish, Enqueue, MarkStopped,
       Segments, CountFire,
       dispVars, callVars, blockVars, flagVars, listVars, daemonVars, history
  <1>4. ASSUME NEW c \in Tasks, MarkReset(c)
        PROVE  CallTypes'
    <2>1. PICK t \in Timers, q \in Seq(AnyCommand) :
             /\ at' = [at EXCEPT ![c] = "send"] /\ todo' = [todo EXCEPT ![c] = q]
             /\ UNCHANGED <<cmds, call>>
      <3> DEFINE t == call[c].timer
      <3>1. /\ t \in Timers /\ seq[t] + 1 \in Nat /\ call[c].op \in {"reset", "stop"}
            /\ at' = [at EXCEPT ![c] = "send"] /\ UNCHANGED <<cmds, call>>
            /\ call[c].op = "reset" =>
                  todo' = [todo EXCEPT ![c] =
                             <<Command("stop", t, seq[t] + 1), Command("publish", t, seq[t] + 1),
                               Command("arm", t, seq[t] + 1)>>]
            /\ call[c].op = "stop" =>
                  todo' = [todo EXCEPT ![c] = <<Command("stop", t, seq[t] + 1)>>]
        BY <1>4, Marked
      <3> QED BY <3>1, ScriptTypes
    <2> QED BY <2>1
  <1>5. ASSUME NEW c \in Tasks, MarkStop(c)
        PROVE  CallTypes'
    <2>1. PICK t \in Timers, q \in Seq(AnyCommand) :
             /\ at' = [at EXCEPT ![c] = "send"] /\ todo' = [todo EXCEPT ![c] = q]
             /\ UNCHANGED <<cmds, call>>
      <3> DEFINE t == call[c].timer
      <3>1. /\ t \in Timers /\ seq[t] + 1 \in Nat /\ call[c].op \in {"reset", "stop"}
            /\ at' = [at EXCEPT ![c] = "send"] /\ UNCHANGED <<cmds, call>>
            /\ call[c].op = "reset" =>
                  todo' = [todo EXCEPT ![c] =
                             <<Command("stop", t, seq[t] + 1), Command("publish", t, seq[t] + 1),
                               Command("arm", t, seq[t] + 1)>>]
            /\ call[c].op = "stop" =>
                  todo' = [todo EXCEPT ![c] = <<Command("stop", t, seq[t] + 1)>>]
        BY <1>5, Marked
      <3> QED BY <3>1, ScriptTypes
    <2> QED BY <2>1
  <1>6. ASSUME NEW c \in Tasks, MarkCancel(c)
        PROVE  CallTypes'
    BY <1>6, ActiveCall, ScriptTypes DEF MarkCancel, At, Jump, Enter, Free, Walk, TakeFires,
       Publish, Enqueue, MarkStopped, Segments, CountFire,
       dispVars, callVars, blockVars, flagVars, listVars, daemonVars, history
  <1>7. ASSUME NEW c \in Tasks, SendCommand(c)
        PROVE  CallTypes'
    <2>1. /\ Head(todo[c]) \in AnyCommand /\ cmds' = Append(cmds, Head(todo[c])) /\ call' = call
          /\ todo' = [todo EXCEPT ![c] = Tail(todo[c])] /\ Tail(todo[c]) \in Seq(AnyCommand)
          /\ \E p \in Places : at' = [at EXCEPT ![c] = p]
      BY <1>7, SendStep
    <2>2. cmds' \in Seq(AnyCommand)
      BY <2>1, Appended
    <2> QED BY <2>1, <2>2
  <1>8. ASSUME NEW c \in Tasks, EndCall(c)
        PROVE  CallTypes'
    BY <1>8 DEF EndCall, At, Jump, Enter, Free, Walk, TakeFires, Publish, Enqueue, MarkStopped,
       Segments, CountFire,
       dispVars, callVars, blockVars, flagVars, listVars, daemonVars, history
  <1>9. CASE GiveSemaphore
    BY <1>9 DEF GiveSemaphore, At, Jump, Enter, Free, Walk, TakeFires, Publish, Enqueue,
       MarkStopped, Segments, CountFire,
       dispVars, callVars, blockVars, flagVars, listVars, daemonVars, history
  <1>10. CASE RunCommand
    BY <1>10, Ran
  <1>11. ASSUME NEW t \in Timers, Expire(t)
        PROVE  CallTypes'
    BY <1>11 DEF Expire, At, Jump, Enter, Free, Walk, TakeFires, Publish, Enqueue, MarkStopped,
       Segments, CountFire,
       dispVars, callVars, blockVars, flagVars, listVars, daemonVars, history
  <1>12. CASE TakeSemaphore
    BY <1>12 DEF TakeSemaphore, At, Jump, Enter, Free, Walk, TakeFires, Publish, Enqueue,
       MarkStopped, Segments, CountFire,
       dispVars, callVars, blockVars, flagVars, listVars, daemonVars, history
  <1>13. CASE DetachList
    BY <1>13 DEF DetachList, At, Jump, Enter, Free, Walk, TakeFires, Publish, Enqueue, MarkStopped,
       Segments, CountFire,
       dispVars, callVars, blockVars, flagVars, listVars, daemonVars, history
  <1>14. CASE ReadNext
    BY <1>14 DEF ReadNext, At, Jump, Enter, Free, Walk, TakeFires, Publish, Enqueue, MarkStopped,
       Segments, CountFire,
       dispVars, callVars, blockVars, flagVars, listVars, daemonVars, history
  <1>15. CASE Claim
    BY <1>15 DEF Claim, At, Jump, Enter, Free, Walk, TakeFires, Publish, Enqueue, MarkStopped,
       Segments, CountFire,
       dispVars, callVars, blockVars, flagVars, listVars, daemonVars, history
  <1>16. CASE TakeExpiry
    BY <1>16 DEF TakeExpiry, At, Jump, Enter, Free, Walk, TakeFires, Publish, Enqueue, MarkStopped,
       Segments, CountFire,
       dispVars, callVars, blockVars, flagVars, listVars, daemonVars, history
  <1>17. CASE WaitCommands
    BY <1>17 DEF WaitCommands, At, Jump, Enter, Free, Walk, TakeFires, Publish, Enqueue,
       MarkStopped, Segments, CountFire,
       dispVars, callVars, blockVars, flagVars, listVars, daemonVars, history
  <1>18. CASE LockRearm
    BY <1>18 DEF LockRearm, At, Jump, Enter, Free, Walk, TakeFires, Publish, Enqueue, MarkStopped,
       Segments, CountFire,
       dispVars, callVars, blockVars, flagVars, listVars, daemonVars, history
  <1>19. CASE RetakeExpiry
    BY <1>19 DEF RetakeExpiry, At, Jump, Enter, Free, Walk, TakeFires, Publish, Enqueue,
       MarkStopped, Segments, CountFire,
       dispVars, callVars, blockVars, flagVars, listVars, daemonVars, history
  <1>20. CASE SendRearm
    <2>1. Command("arm", cur, taken) \in AnyCommand
      BY <1>20, HeldBlock, CommandTypes DEF SendRearm, At, Holding, CountTypes
    <2> QED BY <1>20, <2>1, Appended DEF SendRearm, callVars
  <1>21. CASE UnlockRearm
    BY <1>21 DEF UnlockRearm, At, Jump, Enter, Free, Walk, TakeFires, Publish, Enqueue, MarkStopped,
       Segments, CountFire,
       dispVars, callVars, blockVars, flagVars, listVars, daemonVars, history
  <1>22. CASE CheckRun
    BY <1>22 DEF CheckRun, At, Jump, Enter, Free, Walk, TakeFires, Publish, Enqueue, MarkStopped,
       Segments, CountFire,
       dispVars, callVars, blockVars, flagVars, listVars, daemonVars, history
  <1>23. CASE StartTask
    BY <1>23 DEF StartTask, At, Jump, Enter, Free, Walk, TakeFires, Publish, Enqueue, MarkStopped,
       Segments, CountFire,
       dispVars, callVars, blockVars, flagVars, listVars, daemonVars, history
  <1>24. CASE EndTask
    BY <1>24 DEF EndTask, At, Jump, Enter, Free, Walk, TakeFires, Publish, Enqueue, MarkStopped,
       Segments, CountFire,
       dispVars, callVars, blockVars, flagVars, listVars, daemonVars, history
  <1>25. CASE Release
    BY <1>25 DEF Release, At, Jump, Enter, Free, Walk, TakeFires, Publish, Enqueue, MarkStopped,
       Segments, CountFire,
       dispVars, callVars, blockVars, flagVars, listVars, daemonVars, history
  <1>26. CASE DeleteTimer
    BY <1>26, HeldBlock, CommandTypes, QueueAppend DEF DeleteTimer, At, Jump, Enter, Free, Walk,
       TakeFires, Publish, Enqueue, MarkStopped, Segments, CountFire,
       dispVars, callVars, blockVars, flagVars, listVars, daemonVars, history, Holding
  <1>27. CASE FreeBlock
    BY <1>27 DEF FreeBlock, At, Jump, Enter, Free, Walk, TakeFires, Publish, Enqueue, MarkStopped,
       Segments, CountFire,
       dispVars, callVars, blockVars, flagVars, listVars, daemonVars, history
  <1> QED BY <1>1, <1>2, <1>3, <1>4, <1>5, <1>6, <1>7, <1>8, <1>9, <1>10, <1>11, <1>12, <1>13,
             <1>14, <1>15, <1>16, <1>17, <1>18, <1>19, <1>20, <1>21, <1>22, <1>23, <1>24, <1>25,
             <1>26, <1>27 DEF SchedulerNext, Using, Calling, Daemon, Dispatching

(* The parts of CallsOK, under names of their own.                         *)
OneCall == \A c, d \in Tasks : c # d /\ call[c].op \in {"schedule", "cancel"}
                                 => call[d].timer # call[c].timer
(* When the dispatch task calls, and when it has the mutex.                *)
Turns == /\ at[Dispatch] # "idle" => dpc = "callback"
         /\ dpc \in {"retake", "rearm", "unlock"} => mutex = Dispatch

(* The queue of commands has a length.                                     *)
LEMMA SeqLen == ASSUME NEW S, NEW q \in Seq(S) PROVE Len(q) \in Nat
  OBVIOUS

(* CallsOK from its parts.                                                 *)
LEMMA CallsParts == CallsOK <=> (\A c \in Tasks : CallOf(c)) /\ OneCall /\ Turns
  BY DEF CallsOK, OneCall, Turns

(* A step that only moves the dispatch task leaves the calls alone.        *)
LEMMA CallsCalm ==
    ASSUME CallsOK, UNCHANGED <<at, call, todo, fresh, attached, usable, seq, cancelled>>,
           stopped' \subseteq stopped,
           \A d \in Tasks : call[d].op = "cancel" /\ at[d] \in {"send", "free"}
                               => call[d].timer \notin queued' \cup claimed',
           \A d \in Tasks : call[d].op \notin {"none", "schedule"} /\ at[d] # "lock"
                               => mutex' = d,
           Turns'
    PROVE  CallsOK'
  <1>1. ASSUME NEW d \in Tasks PROVE CallOf(d)'
    BY CallsParts DEF CallOf
  <1>2. OneCall'
    BY CallsParts DEF OneCall
  <1> QED BY <1>1, <1>2 DEF CallsOK, OneCall, Turns

(* So does one that touches neither calls nor what they know.              *)
LEMMA CallsStill ==
    ASSUME CallsOK, UNCHANGED <<at, call, todo, fresh, attached, usable, seq, cancelled, stopped,
                                queued, claimed, mutex>>,
           Turns'
    PROVE  CallsOK'
  <1>1. \A d \in Tasks : CallOf(d)
    BY CallsParts
  <1> QED BY <1>1, CallsCalm DEF CallOf

(* The scripts, one operation at a time.                                   *)
LEMMA ScriptsAre ==
    ASSUME NEW t, NEW s
    PROVE  /\ Scripts("schedule", t, s) = {<<Command("arm", t, 0)>>}
           /\ Scripts("stop", t, s) = {<<Command("stop", t, s)>>}
           /\ Scripts("cancel", t, s) = {<<Command("delete", t, 0)>>}
           /\ Scripts("reset", t, s) =
                {<<Command("stop", t, s), Command("publish", t, s), Command("arm", t, s)>>,
                 <<Command("publish", t, s), Command("arm", t, s)>>, <<Command("arm", t, s)>>}
  BY DEF Scripts

(* A call goes on as it was when another task moves.                       *)
LEMMA CallSame ==
    ASSUME NEW d, CallOf(d), at'[d] = at[d], call'[d] = call[d], todo'[d] = todo[d],
           NEW t, t = call[d].timer, fresh' \subseteq fresh,
           t \in attached /\ call[d].op # "none" => t \in attached',
           call[d].op = "schedule" => t \notin usable' \cup stopped',
           call[d].op \in {"reset", "stop"} => t \in usable',
           call[d].op = "cancel" => t \notin usable',
           call[d].op = "cancel" /\ at[d] \in {"send", "free"} =>
               t \in cancelled' \ (queued' \cup claimed'),
           call[d].op = "schedule" \/ at[d] = "send" => seq'[t] = seq[t],
           call[d].op \notin {"none", "schedule"} /\ at[d] # "lock" => mutex' = d
    PROVE  CallOf(d)'
  BY DEF CallOf

(* A timer that is not created yet is nobody's.                            *)
LEMMA FreshTimer ==
    ASSUME SetTypes, Blocks, NEW t \in fresh
    PROVE  /\ t \in Timers /\ t # NULL /\ seq[t] = 0
           /\ t \notin usable \cup stopped \cup attached \cup cancelled \cup queued
  BY DEF SetTypes, Blocks

(* A timer with a valid handle has its block.                              *)
LEMMA UsableTimer ==
    ASSUME SetTypes, Blocks, NEW t \in usable
    PROVE  t \in Timers /\ t # NULL /\ t \in attached /\ t \notin fresh /\ t \notin cancelled
  BY DEF SetTypes, Blocks

(* No task is NULL, the free mutex.                                        *)
LEMMA NoTask == NULL \notin Tasks
  BY DEF Tasks

(* Every step keeps what the calls know.                                   *)
LEMMA CallsNext == SchedulerTypes /\ CallsOK /\ Blocks /\ Links /\ SchedulerNext => CallsOK'
  <1> SUFFICES ASSUME SchedulerTypes, CallsOK, Blocks, Links, SchedulerNext PROVE CallsOK'
    OBVIOUS
  <1> USE DEF SchedulerTypes, SetTypes
  <1>1. ASSUME NEW c \in Tasks, NEW t \in Timers, ScheduleTask(c, t)
        PROVE  CallsOK'
    <2>a. /\ at[c] = "idle" /\ at' = [at EXCEPT ![c] = "send"] /\ t \in fresh
          /\ call' = [call EXCEPT ![c] = [op |-> "schedule", timer |-> t]]
          /\ todo' = [todo EXCEPT ![c] = <<Command("arm", t, 0)>>]
          /\ fresh' = fresh \ {t} /\ attached' = attached \cup {t}
          /\ t \notin usable \cup stopped /\ seq[t] = 0 /\ t # NULL
          /\ c = Dispatch => dpc = "callback"
          /\ UNCHANGED <<usable, seq, stopped, cancelled, queued, claimed, mutex, dpc>>
      BY <1>1, FreshTimer DEF ScheduleTask, Free, Jump, Enter, flagVars, dispVars
    <2>1. ASSUME NEW d \in Tasks PROVE CallOf(d)'
      <3>1. CASE d = c
        <4>1. at'[c] = "send" /\ call'[c] = [op |-> "schedule", timer |-> t]
              /\ todo'[c] = <<Command("arm", t, 0)>>
          BY <2>a DEF CallTypes
        <4> QED BY <3>1, <4>1, <2>a, ScriptsAre DEF CallOf
      <3>2. CASE d # c
        <4>1. at'[d] = at[d] /\ call'[d] = call[d] /\ todo'[d] = todo[d] /\ CallOf(d)
          BY <2>a, <3>2, CallsParts DEF CallTypes
        <4>2. call[d].timer # t
          BY <4>1, <2>a DEF CallOf, TimerOrNull
        <4> QED BY <3>2, <4>1, <4>2, <2>a, CallSame DEF CallOf
      <3> QED BY <3>1, <3>2
    <2>2. OneCall'
      BY <2>a, CallsParts DEF OneCall, CallOf, CallTypes
    <2>3. Turns'
      BY <2>a, CallsParts DEF Turns, CallTypes, Tasks
    <2> QED BY <2>1, <2>2, <2>3 DEF CallsOK, OneCall, Turns
  <1>2. ASSUME NEW c \in Tasks, NEW t \in Timers,
                NEW o \in {"reset", "stop", "cancel"}, BeginCall(c, o, t)
        PROVE  CallsOK'
    <2>a. /\ at[c] = "idle" /\ at' = [at EXCEPT ![c] = "lock"] /\ t \in usable
          /\ call' = [call EXCEPT ![c] = [op |-> o, timer |-> t]]
          /\ o = "cancel" => \A d \in Tasks : call[d].timer # t
          /\ usable' = IF o = "cancel" THEN usable \ {t} ELSE usable
          /\ t \in attached /\ t \notin fresh /\ t # NULL
          /\ c = Dispatch => dpc = "callback"
          /\ UNCHANGED <<fresh, attached, seq, stopped, cancelled, queued, claimed, mutex, dpc,
                         todo>>
      BY <1>2, UsableTimer DEF BeginCall, Free, Jump, Enter, InUse, blockVars, flagVars, dispVars
    <2>1. ASSUME NEW d \in Tasks PROVE CallOf(d)'
      <3>1. CASE d = c
        <4>1. at'[c] = "lock" /\ call'[c] = [op |-> o, timer |-> t]
          BY <2>a DEF CallTypes
        <4> QED BY <3>1, <4>1, <2>a DEF CallOf
      <3>2. CASE d # c
        <4>1. at'[d] = at[d] /\ call'[d] = call[d] /\ todo'[d] = todo[d] /\ CallOf(d)
          BY <2>a, <3>2, CallsParts DEF CallTypes
        <4>2. call[d].op # "none" => call[d].op \in {"schedule", "cancel", "reset", "stop"}
          BY DEF CallTypes, Ops
        <4>3. /\ o = "cancel" => call[d].timer # t
              /\ call[d].op \in {"schedule", "cancel"} => call[d].timer # t
          BY <2>a, <4>1 DEF CallOf
        <4> QED BY <3>2, <4>1, <4>2, <4>3, <2>a, CallSame DEF CallOf
      <3> QED BY <3>1, <3>2
    <2>2. OneCall'
      <3>1. \A d \in Tasks : d # c => call'[d] = call[d]
        BY <2>a DEF CallTypes
      <3>2. call'[c] = [op |-> o, timer |-> t]
        BY <2>a DEF CallTypes
      <3>3. \A d \in Tasks : call[d].op \in {"schedule", "cancel"} => call[d].timer # t
        BY <2>a, CallsParts DEF CallOf
      <3>4. o = "cancel" => \A d \in Tasks : call[d].timer # t
        BY <2>a
      <3> QED BY <3>1, <3>2, <3>3, <3>4, CallsParts DEF OneCall
    <2>3. Turns'
      BY <2>a, CallsParts DEF Turns, CallTypes, Tasks
    <2> QED BY <2>1, <2>2, <2>3 DEF CallsOK, OneCall, Turns
  <1>3. ASSUME NEW c \in Tasks, LockCommands(c)
        PROVE  CallsOK'
    <2>a. /\ at[c] = "lock" /\ at' = [at EXCEPT ![c] = "mark"] /\ mutex = NULL /\ mutex' = c
          /\ UNCHANGED <<fresh, attached, usable, seq, stopped, cancelled, queued, claimed, dpc,
                         todo, call>>
      BY <1>3 DEF LockCommands, Jump, blockVars, flagVars, dispVars
    <2>1. ASSUME NEW d \in Tasks PROVE CallOf(d)'
      <3>1. CASE d = c
        <4>1. at'[c] = "mark" /\ CallOf(c)
          BY <2>a, CallsParts DEF CallTypes
        <4> QED BY <3>1, <4>1, <2>a DEF CallOf
      <3>2. CASE d # c
        <4>1. at'[d] = at[d] /\ call'[d] = call[d] /\ todo'[d] = todo[d] /\ CallOf(d)
          BY <2>a, <3>2, CallsParts DEF CallTypes
        <4> QED BY <3>2, <4>1, <2>a, NoTask, CallSame DEF CallOf
      <3> QED BY <3>1, <3>2
    <2>2. OneCall'
      BY <2>a, CallsParts DEF OneCall
    <2>3. Turns'
      BY <2>a, NoTask, CallsParts DEF Turns, CallTypes, Tasks
    <2> QED BY <2>1, <2>2, <2>3 DEF CallsOK, OneCall, Turns
  <1>4. ASSUME NEW c \in Tasks, MarkReset(c)
        PROVE  CallsOK'
    <2> DEFINE t == call[c].timer
    <2>a. /\ t \in Timers /\ at[c] = "mark" /\ call[c].op \in {"reset", "stop"} /\ mutex = c
          /\ seq' = [seq EXCEPT ![t] = seq[t] + 1] /\ stopped' = stopped \cup {t}
          /\ at' = [at EXCEPT ![c] = "send"]
          /\ call[c].op = "reset" =>
                todo' = [todo EXCEPT ![c] =
                           <<Command("stop", t, seq[t] + 1), Command("publish", t, seq[t] + 1),
                             Command("arm", t, seq[t] + 1)>>]
          /\ call[c].op = "stop" => todo' = [todo EXCEPT ![c] = <<Command("stop", t, seq[t] + 1)>>]
          /\ UNCHANGED <<fresh, usable, attached, queued, claimed, cancelled, mutex, dpc, call>>
      BY <1>4, Marked, CallsParts DEF CallOf
    <2>1. ASSUME NEW d \in Tasks PROVE CallOf(d)'
      <3>1. CASE d = c
        <4>1. at'[c] = "send" /\ CallOf(c) /\ seq'[t] = seq[t] + 1
          BY <2>a, CallsParts DEF CallTypes, CountTypes
        <4>2. todo'[c] \in Scripts(call[c].op, t, seq'[t])
          <5>1. /\ call[c].op = "reset" => todo'[c] = <<Command("stop", t, seq[t] + 1),
                                     Command("publish", t, seq[t] + 1), Command("arm", t, seq[t] + 1)>>
                /\ call[c].op = "stop" => todo'[c] = <<Command("stop", t, seq[t] + 1)>>
            BY <2>a DEF CallTypes
          <5>2. call[c].op \in {"reset", "stop"} /\ seq'[t] = seq[t] + 1
            BY <4>1, <2>a
          <5> HIDE DEF t
          <5>3. CASE call[c].op = "reset"
            <6>1. todo'[c] = <<Command("stop", t, seq'[t]), Command("publish", t, seq'[t]),
                               Command("arm", t, seq'[t])>>
              BY <5>1, <5>2, <5>3
            <6>2. <<Command("stop", t, seq'[t]), Command("publish", t, seq'[t]),
                    Command("arm", t, seq'[t])>> \in Scripts("reset", t, seq'[t])
              BY ScriptsAre
            <6> QED BY <5>3, <6>1, <6>2
          <5>4. CASE call[c].op = "stop"
            <6>1. todo'[c] = <<Command("stop", t, seq'[t])>>
              BY <5>1, <5>2, <5>4
            <6>2. Scripts("stop", t, seq'[t]) = {<<Command("stop", t, seq'[t])>>}
              BY ScriptsAre
            <6> QED BY <5>4, <6>1, <6>2
          <5> QED BY <5>2, <5>3, <5>4
        <4> QED BY <3>1, <4>1, <4>2, <2>a DEF CallOf
      <3>2. CASE d # c
        <4>1. at'[d] = at[d] /\ call'[d] = call[d] /\ todo'[d] = todo[d] /\ CallOf(d)
          BY <2>a, <3>2, CallsParts DEF CallTypes
        <4>2. call[d].op = "schedule" \/ at[d] = "send" => call[d].timer # t
          BY <2>a, <3>2, <4>1, CallsParts DEF OneCall, CallOf, CallTypes, Ops
        <4>3. call[d].op = "schedule" \/ at[d] = "send" => seq'[call[d].timer] = seq[call[d].timer]
          BY <2>a, <4>1, <4>2 DEF CallOf, CountTypes
        <4> QED BY <3>2, <4>1, <4>2, <4>3, <2>a, CallSame DEF CallOf
      <3> QED BY <3>1, <3>2
    <2>2. OneCall'
      BY <2>a, CallsParts DEF OneCall
    <2>3. Turns'
      BY <2>a, CallsParts DEF Turns, CallTypes, Tasks
    <2> QED BY <2>1, <2>2, <2>3 DEF CallsOK, OneCall, Turns
  <1>5. ASSUME NEW c \in Tasks, MarkStop(c)
        PROVE  CallsOK'
    <2> DEFINE t == call[c].timer
    <2>a. /\ t \in Timers /\ at[c] = "mark" /\ call[c].op \in {"reset", "stop"} /\ mutex = c
          /\ seq' = [seq EXCEPT ![t] = seq[t] + 1] /\ stopped' = stopped \cup {t}
          /\ at' = [at EXCEPT ![c] = "send"]
          /\ call[c].op = "reset" =>
                todo' = [todo EXCEPT ![c] =
                           <<Command("stop", t, seq[t] + 1), Command("publish", t, seq[t] + 1),
                             Command("arm", t, seq[t] + 1)>>]
          /\ call[c].op = "stop" => todo' = [todo EXCEPT ![c] = <<Command("stop", t, seq[t] + 1)>>]
          /\ UNCHANGED <<fresh, usable, attached, queued, claimed, cancelled, mutex, dpc, call>>
      BY <1>5, Marked, CallsParts DEF CallOf
    <2>1. ASSUME NEW d \in Tasks PROVE CallOf(d)'
      <3>1. CASE d = c
        <4>1. at'[c] = "send" /\ CallOf(c) /\ seq'[t] = seq[t] + 1
          BY <2>a, CallsParts DEF CallTypes, CountTypes
        <4>2. todo'[c] \in Scripts(call[c].op, t, seq'[t])
          <5>1. /\ call[c].op = "reset" => todo'[c] = <<Command("stop", t, seq[t] + 1),
                                     Command("publish", t, seq[t] + 1), Command("arm", t, seq[t] + 1)>>
                /\ call[c].op = "stop" => todo'[c] = <<Command("stop", t, seq[t] + 1)>>
            BY <2>a DEF CallTypes
          <5>2. call[c].op \in {"reset", "stop"} /\ seq'[t] = seq[t] + 1
            BY <4>1, <2>a
          <5> HIDE DEF t
          <5>3. CASE call[c].op = "reset"
            <6>1. todo'[c] = <<Command("stop", t, seq'[t]), Command("publish", t, seq'[t]),
                               Command("arm", t, seq'[t])>>
              BY <5>1, <5>2, <5>3
            <6>2. <<Command("stop", t, seq'[t]), Command("publish", t, seq'[t]),
                    Command("arm", t, seq'[t])>> \in Scripts("reset", t, seq'[t])
              BY ScriptsAre
            <6> QED BY <5>3, <6>1, <6>2
          <5>4. CASE call[c].op = "stop"
            <6>1. todo'[c] = <<Command("stop", t, seq'[t])>>
              BY <5>1, <5>2, <5>4
            <6>2. Scripts("stop", t, seq'[t]) = {<<Command("stop", t, seq'[t])>>}
              BY ScriptsAre
            <6> QED BY <5>4, <6>1, <6>2
          <5> QED BY <5>2, <5>3, <5>4
        <4> QED BY <3>1, <4>1, <4>2, <2>a DEF CallOf
      <3>2. CASE d # c
        <4>1. at'[d] = at[d] /\ call'[d] = call[d] /\ todo'[d] = todo[d] /\ CallOf(d)
          BY <2>a, <3>2, CallsParts DEF CallTypes
        <4>2. call[d].op = "schedule" \/ at[d] = "send" => call[d].timer # t
          BY <2>a, <3>2, <4>1, CallsParts DEF OneCall, CallOf, CallTypes, Ops
        <4>3. call[d].op = "schedule" \/ at[d] = "send" => seq'[call[d].timer] = seq[call[d].timer]
          BY <2>a, <4>1, <4>2 DEF CallOf, CountTypes
        <4> QED BY <3>2, <4>1, <4>2, <4>3, <2>a, CallSame DEF CallOf
      <3> QED BY <3>1, <3>2
    <2>2. OneCall'
      BY <2>a, CallsParts DEF OneCall
    <2>3. Turns'
      BY <2>a, CallsParts DEF Turns, CallTypes, Tasks
    <2> QED BY <2>1, <2>2, <2>3 DEF CallsOK, OneCall, Turns
  <1>6. ASSUME NEW c \in Tasks, MarkCancel(c)
        PROVE  CallsOK'
    <2> DEFINE t == call[c].timer
    <2>a. /\ t \in Timers /\ at[c] = "mark" /\ call[c].op = "cancel" /\ mutex = c
          /\ attached' = attached \ {t} /\ cancelled' = cancelled \cup {t}
          /\ at' = [at EXCEPT ![c] = IF Handover(t) THEN "done" ELSE "send"]
          /\ todo' = [todo EXCEPT ![c] = IF Handover(t) THEN <<>> ELSE <<Command("delete", t, 0)>>]
          /\ UNCHANGED <<fresh, usable, seq, queued, stopped, claimed, mutex, dpc, call>>
      BY <1>6, ActiveCall, CallsParts DEF MarkCancel, Jump, CallOf, dispVars
    <2>1. ASSUME NEW d \in Tasks PROVE CallOf(d)'
      <3>1. CASE d = c
        <4>1. at'[c] = (IF Handover(t) THEN "done" ELSE "send") /\ CallOf(c)
          BY <2>a, CallsParts DEF CallTypes
        <4>2. ~Handover(t) => todo'[c] = <<Command("delete", t, 0)>>
          BY <2>a DEF CallTypes
        <4> QED BY <3>1, <4>1, <4>2, <2>a, ScriptsAre DEF CallOf, Handover
      <3>2. CASE d # c
        <4>1. at'[d] = at[d] /\ call'[d] = call[d] /\ todo'[d] = todo[d] /\ CallOf(d)
          BY <2>a, <3>2, CallsParts DEF CallTypes
        <4>2. call[d].op # "none" => call[d].timer # t
          BY <2>a, <3>2, CallsParts DEF OneCall
        <4> QED BY <3>2, <4>1, <4>2, <2>a, CallSame DEF CallOf
      <3> QED BY <3>1, <3>2
    <2>2. OneCall'
      BY <2>a, CallsParts DEF OneCall
    <2>3. Turns'
      BY <2>a, CallsParts DEF Turns, CallTypes, Tasks
    <2> QED BY <2>1, <2>2, <2>3 DEF CallsOK, OneCall, Turns
  <1>7. ASSUME NEW c \in Tasks, SendCommand(c)
        PROVE  CallsOK'
    <2> DEFINE t == call[c].timer
    <2>a. /\ t \in Timers /\ at[c] = "send"
          /\ at' = [at EXCEPT ![c] = IF Len(todo[c]) > 1 THEN "send"
                                     ELSE IF call[c].op = "cancel" THEN "free" ELSE "done"]
          /\ todo' = [todo EXCEPT ![c] = Tail(todo[c])]
          /\ UNCHANGED <<fresh, attached, usable, seq, queued, stopped, cancelled, claimed, mutex,
                         dpc, call>>
      BY <1>7, SendStep
    <2>1. ASSUME NEW d \in Tasks PROVE CallOf(d)'
      <3>1. CASE d = c
        <4>1. CallOf(c) /\ at'[c] = IF Len(todo[c]) > 1 THEN "send"
                                    ELSE IF call[c].op = "cancel" THEN "free" ELSE "done"
          BY <2>a, CallsParts DEF CallTypes
        <4>2. at'[c] = "send" => call[c].op = "reset" /\ todo'[c] \in Scripts("reset", t, seq[t])
          <5>1. todo'[c] = Tail(todo[c])
            BY <2>a DEF CallTypes
          <5>2. /\ call[c].op # "reset" => Len(todo[c]) = 1
                /\ call[c].op = "reset" => Len(todo[c]) = 1 \/ Tail(todo[c]) \in Scripts("reset", t, seq[t])
            BY <2>a, SendFacts
          <5>3. at'[c] = "send" => Len(todo[c]) > 1
            BY <4>1
          <5>4. call[c].op \in {"schedule", "stop", "cancel", "reset"}
            BY <2>a, SendFacts
          <5>5. at'[c] = "send" => Len(todo[c]) # 1
            <6>1. Len(todo[c]) \in Nat
              <7>1. todo[c] \in Seq(AnyCommand)
                BY <2>a, SendFacts
              <7> QED BY <7>1, SeqLen
            <6>2. \A n \in Nat : n > 1 => n # 1
              BY ONLY TRUE
            <6> QED BY <5>3, <6>1, <6>2, Zenon
          <5> HIDE DEF t
          <5> QED BY <5>1, <5>2, <5>5, Zenon
        <4>3. call[c].op # "none"
          BY <2>a, <4>1 DEF CallOf
        <4> QED BY <3>1, <4>1, <4>2, <4>3, <2>a DEF CallOf
      <3>2. CASE d # c
        <4>1. at'[d] = at[d] /\ call'[d] = call[d] /\ todo'[d] = todo[d] /\ CallOf(d)
          BY <2>a, <3>2, CallsParts DEF CallTypes
        <4> QED BY <3>2, <4>1, <2>a, CallSame DEF CallOf
      <3> QED BY <3>1, <3>2
    <2>2. OneCall'
      BY <2>a, CallsParts DEF OneCall
    <2>3. Turns'
      BY <2>a, CallsParts DEF Turns, CallTypes, Tasks
    <2> QED BY <2>1, <2>2, <2>3 DEF CallsOK, OneCall, Turns
  <1>8. ASSUME NEW c \in Tasks, EndCall(c)
        PROVE  CallsOK'
    <2> DEFINE t == call[c].timer
    <2>a. /\ t \in Timers /\ at[c] \in {"done", "free"} /\ at[c] # "lock" /\ call[c].op # "none"
          /\ usable' = (IF call[c].op = "schedule" THEN usable \cup {t} ELSE usable)
          /\ mutex' = (IF call[c].op = "schedule" THEN mutex ELSE NULL)
          /\ call[c].op # "schedule" => mutex = c
          /\ call' = [call EXCEPT ![c] = [op |-> "none", timer |-> NULL]]
          /\ at' = [at EXCEPT ![c] = "idle"]
          /\ UNCHANGED <<fresh, attached, seq, stopped, cancelled, queued, claimed, dpc, todo>>
      BY <1>8, ActiveCall, CallsParts DEF EndCall, Jump, NoCall, CallOf, flagVars, dispVars
    <2>1. ASSUME NEW d \in Tasks PROVE CallOf(d)'
      <3>1. CASE d = c
        <4>1. at'[c] = "idle" /\ call'[c] = [op |-> "none", timer |-> NULL]
          BY <2>a DEF CallTypes
        <4> QED BY <3>1, <4>1, <2>a DEF CallOf
      <3>2. CASE d # c
        <4>1. at'[d] = at[d] /\ call'[d] = call[d] /\ todo'[d] = todo[d] /\ CallOf(d)
          BY <2>a, <3>2, CallsParts DEF CallTypes
        <4>2. call[d].op \in {"schedule", "cancel"} => call[d].timer # t
          BY <2>a, <3>2, CallsParts DEF OneCall
        <4>3. call[c].op = "schedule" => call[d].timer # t
          BY <2>a, <3>2, CallsParts DEF OneCall
        <4>4. call[d].op \notin {"none", "schedule"} /\ at[d] # "lock" => mutex' = d
          BY <2>a, <3>2, <4>1, CallsParts DEF CallOf
        <4> QED BY <3>2, <4>1, <4>2, <4>3, <4>4, <2>a, CallSame DEF CallOf
      <3> QED BY <3>1, <3>2
    <2>2. OneCall'
      <3>1. \A d \in Tasks : d # c => call'[d] = call[d]
        BY <2>a DEF CallTypes
      <3>2. call'[c] = [op |-> "none", timer |-> NULL]
        BY <2>a DEF CallTypes
      <3>3. \A d \in Tasks : call[d].op # "none" => call[d].timer \in Timers
        <4>1. \A d \in Tasks : CallOf(d)
          BY CallsParts
        <4> QED BY <4>1 DEF CallOf, SetTypes
      <3> QED BY <3>1, <3>2, <3>3, CallsParts DEF OneCall
    <2>3. Turns'
      BY <2>a, CallsParts DEF Turns, CallOf, CallTypes, Tasks
    <2> QED BY <2>1, <2>2, <2>3 DEF CallsOK, OneCall, Turns
  <1>9. CASE GiveSemaphore
    <2>1. UNCHANGED <<at, call, todo, fresh, attached, usable, seq, cancelled, stopped, queued,
                      claimed, mutex, dpc>>
      BY <1>9 DEF GiveSemaphore, blockVars, flagVars, dispVars, callVars
    <2> QED BY <2>1, CallsStill, CallsParts DEF Turns
  <1>10. CASE RunCommand
    <2>1. /\ UNCHANGED <<at, call, todo, fresh, attached, usable, seq, cancelled, queued, claimed,
                         mutex, dpc>>
          /\ stopped' \subseteq stopped
      BY <1>10, Ran
    <2>2. Turns'
      BY <2>1, CallsParts DEF Turns
    <2>3. \A d \in Tasks : CallOf(d)
      BY CallsParts
    <2> QED BY <2>1, <2>2, <2>3, CallsCalm DEF CallOf
  <1>11. ASSUME NEW t \in Timers, Expire(t)
        PROVE  CallsOK'
    <2>1. /\ UNCHANGED <<at, call, todo, fresh, attached, usable, seq, cancelled, claimed, mutex,
                         dpc, stopped>>
          /\ queued' = queued \/ (t \in attached /\ queued' \subseteq queued \cup {t})
      BY <1>11 DEF Expire, Enqueue, callVars, dispVars
    <2>2. Turns'
      BY <2>1, CallsParts DEF Turns
    <2>3. \A d \in Tasks : CallOf(d)
      BY CallsParts
    <2> QED BY <2>1, <2>2, <2>3, CallsCalm DEF CallOf, Blocks
  <1>12. CASE TakeSemaphore
    BY <1>12, CallsStill, CallsParts DEF Turns, TakeSemaphore, At, Walk, blockVars, flagVars,
       listVars,
       daemonVars, callVars
  <1>13. CASE DetachList
    BY <1>13, CallsStill, CallsParts DEF Turns, DetachList, At, Walk, blockVars, flagVars, listVars,
       daemonVars, callVars
  <1>14. CASE ReadNext
    BY <1>14, CallsStill, CallsParts DEF Turns, ReadNext, At, Walk, blockVars, flagVars, listVars,
       daemonVars, callVars
  <1>15. CASE Claim
    <2>1. /\ UNCHANGED <<at, call, todo, fresh, attached, usable, seq, cancelled, stopped, mutex,
                         queued>>
          /\ claimed' = claimed \cup {cur}
      BY <1>15 DEF Claim, blockVars, callVars, listVars
    <2>2. Turns'
      BY <1>15, CallsParts DEF Turns, Claim, At, callVars
    <2>3. \A d \in Tasks : CallOf(d)
      BY CallsParts
    <2>4. cur \in queued
      BY <1>15 DEF Claim, At, Links, QueuedIsLinked, Batch, Holding, BeforeTake
    <2> QED BY <2>1, <2>2, <2>3, <2>4, CallsCalm DEF CallOf
  <1>16. CASE TakeExpiry
    <2>1. /\ UNCHANGED <<at, call, todo, fresh, attached, usable, seq, cancelled, stopped, mutex,
                         claimed>>
          /\ queued' \subseteq queued
      BY <1>16 DEF TakeExpiry, TakeFires, callVars, listVars
    <2>2. Turns'
      BY <1>16, CallsParts DEF Turns, TakeExpiry, TakeFires, At, callVars
    <2>3. \A d \in Tasks : CallOf(d)
      BY CallsParts
    <2> QED BY <2>1, <2>2, <2>3, CallsCalm DEF CallOf
  <1>17. CASE WaitCommands
    BY <1>17, CallsStill, CallsParts DEF Turns, WaitCommands, At, Walk, blockVars, flagVars,
       listVars,
       daemonVars, callVars
  <1>18. CASE LockRearm
    <2>1. /\ UNCHANGED <<at, call, todo, fresh, attached, usable, seq, cancelled, stopped, queued,
                         claimed>>
          /\ mutex = NULL /\ mutex' = Dispatch
      BY <1>18 DEF LockRearm, blockVars, flagVars, callVars
    <2>2. Turns'
      BY <1>18, CallsParts DEF Turns, LockRearm, At, callVars
    <2>3. \A d \in Tasks : CallOf(d)
      BY CallsParts
    <2> QED BY <2>1, <2>2, <2>3, NoTask, CallsCalm DEF CallOf
  <1>19. CASE RetakeExpiry
    <2>1. /\ UNCHANGED <<at, call, todo, fresh, attached, usable, seq, cancelled, stopped, mutex,
                         claimed>>
          /\ queued' \subseteq queued
      BY <1>19 DEF RetakeExpiry, TakeFires, callVars, listVars
    <2>2. Turns'
      BY <1>19, CallsParts DEF Turns, RetakeExpiry, TakeFires, At, callVars
    <2>3. \A d \in Tasks : CallOf(d)
      BY CallsParts
    <2> QED BY <2>1, <2>2, <2>3, CallsCalm DEF CallOf
  <1>20. CASE SendRearm
    BY <1>20, CallsStill, CallsParts DEF Turns, SendRearm, At, Walk, blockVars, flagVars, listVars,
       daemonVars, callVars
  <1>21. CASE UnlockRearm
    <2>1. /\ UNCHANGED <<at, call, todo, fresh, attached, usable, seq, cancelled, stopped, queued,
                         claimed>>
          /\ mutex = Dispatch /\ at[Dispatch] = "idle"
      BY <1>21, CallsParts DEF UnlockRearm, At, Turns, blockVars, flagVars, callVars
    <2>2. Turns'
      BY <1>21, CallsParts DEF Turns, UnlockRearm, At, callVars
    <2>3. \A d \in Tasks : CallOf(d)
      BY CallsParts
    <2> QED BY <2>1, <2>2, <2>3, CallsCalm DEF CallOf
  <1>22. CASE CheckRun
    BY <1>22, CallsStill, CallsParts DEF Turns, CheckRun, At, Walk, blockVars, flagVars, listVars,
       daemonVars, callVars
  <1>23. CASE StartTask
    BY <1>23, CallsStill, CallsParts DEF Turns, StartTask, At, Walk, blockVars, flagVars, listVars,
       daemonVars, callVars
  <1>24. CASE EndTask
    BY <1>24, CallsStill, CallsParts DEF Turns, EndTask, At, Walk, blockVars, flagVars, listVars,
       daemonVars, callVars
  <1>25. CASE Release
    <2>1. /\ UNCHANGED <<at, call, todo, fresh, attached, usable, seq, cancelled, stopped, mutex,
                         queued>>
          /\ claimed' \subseteq claimed
      BY <1>25 DEF Release, blockVars, callVars, listVars
    <2>2. Turns'
      BY <1>25, CallsParts DEF Turns, Release, At, Walk, callVars
    <2>3. \A d \in Tasks : CallOf(d)
      BY CallsParts
    <2> QED BY <2>1, <2>2, <2>3, CallsCalm DEF CallOf
  <1>26. CASE DeleteTimer
    BY <1>26, CallsStill, CallsParts DEF Turns, DeleteTimer, At, Walk, blockVars, flagVars,
       listVars,
       daemonVars, callVars
  <1>27. CASE FreeBlock
    BY <1>27, CallsStill, CallsParts DEF Turns, FreeBlock, At, Walk, blockVars, flagVars, listVars,
       daemonVars, callVars
  <1> QED BY <1>1, <1>2, <1>3, <1>4, <1>5, <1>6, <1>7, <1>8, <1>9, <1>10, <1>11, <1>12, <1>13,
             <1>14, <1>15, <1>16, <1>17, <1>18, <1>19, <1>20, <1>21, <1>22, <1>23, <1>24, <1>25,
             <1>26, <1>27 DEF SchedulerNext, Using, Calling, Daemon, Dispatching

(* A list contains its first timer.                                        *)
LEMMA FromSelf == ASSUME NEW t \in Timers PROVE t \in From(t)
  BY DEF From

(* A timer is queued exactly while the lists have it.                      *)
LEMMA Queueing ==
    ASSUME SchedulerTypes, Links
    PROVE  /\ head # NULL => head \in queued
           /\ dpc \in {"next", "claim", "take", "lock", "retake"} /\ cur # NULL => cur \in queued
           /\ dpc \notin {"wait", "detach", "next"} /\ nxt # NULL => nxt \in queued
  <1>1. head \in TimerOrNull /\ cur \in TimerOrNull /\ nxt \in TimerOrNull
    BY DEF SchedulerTypes, LinkTypes
  <1>2. queued = From(head) \cup Batch
    BY DEF Links, QueuedIsLinked
  <1>3. head # NULL => head \in queued
    BY <1>1, <1>2, FromSelf DEF TimerOrNull
  <1>4. dpc \in {"next", "claim", "take", "lock", "retake"} /\ cur # NULL => cur \in queued
    BY <1>1, <1>2, FromSelf DEF TimerOrNull, Batch, Holding, BeforeTake
  <1>5. dpc \notin {"wait", "detach", "next"} /\ nxt # NULL => nxt \in queued
    BY <1>1, <1>2, FromSelf DEF TimerOrNull, Batch, Holding, BeforeTake
  <1> QED BY <1>3, <1>4, <1>5

(* The part of Blocks about handles, timer IDs and flags,                  *)
Owned ==
    /\ usable \subseteq attached /\ attached \subseteq alloc /\ queued \subseteq alloc
    /\ attached \cap cancelled = {} /\ Timers \ fresh = attached \cup cancelled
    /\ fresh \cap (stopped \cup queued) = {}
    /\ \A t \in fresh : seq[t] = 0
(* and the part about the block the dispatch task holds.                   *)
InHand ==
    /\ claimed = IF dpc \in Claiming THEN {cur} ELSE {}
    /\ Holding => cur \in alloc
    /\ dpc = "rearm" => cur \in attached /\ taken = seq[cur]
    /\ dpc \in {"delete", "free"} =>
          /\ cur \in cancelled \ queued
          /\ \A c \in Tasks : call[c].op = "cancel" /\ at[c] \in {"send", "free"}
                                 => call[c].timer # cur

(* Blocks from its parts.                                                  *)
LEMMA BlocksParts == Blocks <=> Owned /\ InHand
  BY DEF Blocks, Owned, InHand

(* The block in the dispatch task's hands, by where the task is.           *)
LEMMA Hands ==
    ASSUME SchedulerTypes, CallsOK, Blocks, Links, Holding
    PROVE  /\ cur \in Timers
           /\ cur \in queued \/ cur \in claimed \/ dpc \in {"delete", "free"}
           /\ \A c \in Tasks : call[c].op = "cancel" /\ at[c] \in {"send", "free"}
                                 => call[c].timer # cur
           /\ dpc = "rearm" => \A c \in Tasks : at[c] \notin {"mark"} /\ (at[c] = "send" => call[c].op = "schedule")
  <1>1. cur \in Timers /\ cur # NULL
    BY HeldBlock DEF SchedulerTypes
  <1>2. dpc \in Dpcs /\ Holding
    BY DEF SchedulerTypes, LinkTypes
  <1>3. cur \in queued \/ cur \in claimed \/ dpc \in {"delete", "free"}
    BY <1>1, <1>2, Queueing, BlocksParts DEF InHand, Claiming, Dpcs, Holding
  <1>4. \A c \in Tasks : call[c].op = "cancel" /\ at[c] \in {"send", "free"} => call[c].timer # cur
    BY <1>3, CallsParts, BlocksParts DEF CallOf, InHand
  <1>5. dpc = "rearm" => \A c \in Tasks : at[c] # "mark" /\ (at[c] = "send" => call[c].op = "schedule")
    <2> SUFFICES ASSUME dpc = "rearm", NEW c \in Tasks, at[c] \in {"mark", "send"}
                 PROVE  at[c] = "send" /\ call[c].op = "schedule"
      OBVIOUS
    <2>1. mutex = Dispatch /\ at[Dispatch] = "idle" /\ CallOf(c)
      BY CallsParts DEF Turns
    <2>2. c # Dispatch
      BY <2>1
    <2>3. call[c].op \in {"none", "schedule"}
      BY <2>1, <2>2 DEF CallOf
    <2> QED BY <2>1, <2>3 DEF CallOf
  <1> QED BY <1>1, <1>3, <1>4, <1>5

(* Every step keeps the blocks allocated that somebody can reach.          *)
LEMMA BlocksNext == SchedulerTypes /\ CallsOK /\ Blocks /\ Links /\ SchedulerNext => Blocks'
  <1> SUFFICES ASSUME SchedulerTypes, CallsOK, Blocks, Links, SchedulerNext PROVE Blocks'
    OBVIOUS
  <1> USE DEF SchedulerTypes, SetTypes
  <1>1. ASSUME NEW c \in Tasks, NEW t \in Timers, ScheduleTask(c, t)
        PROVE  Blocks'
    <2>a. /\ t \in fresh
          /\ fresh' = fresh \ {t} /\ alloc' = alloc \cup {t} /\ attached' = attached \cup {t}
          /\ at[c] = "idle" /\ at' = [at EXCEPT ![c] = "send"]
          /\ call' = [call EXCEPT ![c] = [op |-> "schedule", timer |-> t]]
          /\ UNCHANGED <<usable, queued, stopped, claimed, cancelled, seq, cur, taken, dpc>>
      BY <1>1 DEF ScheduleTask, Free, Jump, Enter, flagVars, dispVars
    <2>b. t \in Timers /\ t \notin attached \cup cancelled \cup queued \cup usable
      BY <2>a, FreshTimer
    <2>1. Owned'
      BY <2>a, <2>b, BlocksParts DEF Owned
    <2>2. InHand'
      <3>1. \A d \in Tasks : call'[d].op = "cancel" => call'[d] = call[d] /\ at'[d] = at[d]
        BY <2>a DEF CallTypes
      <3> QED BY <2>a, <3>1, BlocksParts DEF InHand, Holding
    <2> QED BY <2>1, <2>2 DEF Blocks, Owned, InHand
  <1>2. ASSUME NEW c \in Tasks, NEW t \in Timers,
                NEW o \in {"reset", "stop", "cancel"}, BeginCall(c, o, t)
        PROVE  Blocks'
    <2>a. /\ usable' \subseteq usable /\ at' = [at EXCEPT ![c] = "lock"]
          /\ call' = [call EXCEPT ![c] = [op |-> o, timer |-> t]]
          /\ UNCHANGED <<fresh, alloc, attached, queued, stopped, claimed, cancelled, seq, cur,
                         taken, dpc>>
      BY <1>2 DEF BeginCall, Jump, Enter, blockVars, flagVars, dispVars
    <2>1. Owned'
      BY <2>a, BlocksParts DEF Owned
    <2>2. InHand'
      <3>1. \A d \in Tasks : at'[d] \in {"send", "free"} => call'[d] = call[d] /\ at'[d] = at[d]
        BY <2>a DEF CallTypes
      <3> QED BY <2>a, <3>1, BlocksParts DEF InHand, Holding
    <2> QED BY <2>1, <2>2 DEF Blocks, Owned, InHand
  <1>3. ASSUME NEW c \in Tasks, LockCommands(c)
        PROVE  Blocks'
    <2>a. /\ at' = [at EXCEPT ![c] = "mark"]
          /\ UNCHANGED <<fresh, alloc, attached, usable, queued, stopped, claimed, cancelled, seq,
                         call, cur, taken, dpc>>
      BY <1>3 DEF LockCommands, Jump, blockVars, flagVars, dispVars
    <2>1. Owned'
      BY <2>a, BlocksParts DEF Owned
    <2>2. InHand'
      <3>1. \A d \in Tasks : at'[d] \in {"send", "free"} => at'[d] = at[d]
        BY <2>a DEF CallTypes
      <3> QED BY <2>a, <3>1, BlocksParts DEF InHand, Holding
    <2> QED BY <2>1, <2>2 DEF Blocks, Owned, InHand
  <1>4. ASSUME NEW c \in Tasks, MarkReset(c)
        PROVE  Blocks'
    <2> DEFINE t == call[c].timer
    <2>a. /\ t \in Timers /\ at[c] = "mark" /\ call[c].op \in {"reset", "stop"}
          /\ seq' = [seq EXCEPT ![t] = seq[t] + 1] /\ stopped' = stopped \cup {t}
          /\ at' = [at EXCEPT ![c] = "send"]
          /\ UNCHANGED <<fresh, alloc, attached, usable, queued, claimed, cancelled, cur, taken,
                         dpc, call>>
      BY <1>4, Marked
    <2>b. t \notin fresh
      BY <2>a, ActiveCall
    <2>c. dpc # "rearm"
      BY <2>a, Hands DEF Holding
    <2> HIDE DEF t
    <2>1. Owned'
      BY <2>a, <2>b, BlocksParts DEF Owned, CountTypes
    <2>2. InHand'
      <3>1. \A d \in Tasks : call[d].op = "cancel" => at'[d] = at[d]
        BY <2>a DEF CallTypes
      <3> QED BY <2>a, <2>c, <3>1, BlocksParts DEF InHand, Holding
    <2> QED BY <2>1, <2>2 DEF Blocks, Owned, InHand
  <1>5. ASSUME NEW c \in Tasks, MarkStop(c)
        PROVE  Blocks'
    <2> DEFINE t == call[c].timer
    <2>a. /\ t \in Timers /\ at[c] = "mark" /\ call[c].op \in {"reset", "stop"}
          /\ seq' = [seq EXCEPT ![t] = seq[t] + 1] /\ stopped' = stopped \cup {t}
          /\ at' = [at EXCEPT ![c] = "send"]
          /\ UNCHANGED <<fresh, alloc, attached, usable, queued, claimed, cancelled, cur, taken,
                         dpc, call>>
      BY <1>5, Marked
    <2>b. t \notin fresh
      BY <2>a, ActiveCall
    <2>c. dpc # "rearm"
      BY <2>a, Hands DEF Holding
    <2> HIDE DEF t
    <2>1. Owned'
      BY <2>a, <2>b, BlocksParts DEF Owned, CountTypes
    <2>2. InHand'
      <3>1. \A d \in Tasks : call[d].op = "cancel" => at'[d] = at[d]
        BY <2>a DEF CallTypes
      <3> QED BY <2>a, <2>c, <3>1, BlocksParts DEF InHand, Holding
    <2> QED BY <2>1, <2>2 DEF Blocks, Owned, InHand
  <1>6. ASSUME NEW c \in Tasks, MarkCancel(c)
        PROVE  Blocks'
    <2> DEFINE t == call[c].timer
    <2>a. /\ at[c] = "mark" /\ call[c].op = "cancel"
          /\ attached' = attached \ {t} /\ cancelled' = cancelled \cup {t}
          /\ \E p \in Places : at' = [at EXCEPT ![c] = p]
          /\ UNCHANGED <<fresh, alloc, usable, queued, stopped, claimed, seq, cur, taken, dpc,
                         call>>
      BY <1>6 DEF MarkCancel, Jump, dispVars, Places
    <2>b. t \in attached /\ t \notin usable /\ t \in Timers /\ t \notin fresh /\ CallOf(c)
      BY <2>a, ActiveCall, CallsParts DEF CallOf
    <2>c. dpc # "rearm"
      BY <2>a, Hands DEF Holding
    <2> HIDE DEF t
    <2>1. Owned'
      BY <2>a, <2>b, BlocksParts DEF Owned
    <2>2. InHand'
      <3>1. \A d \in Tasks : d # c => at'[d] = at[d]
        BY <2>a DEF CallTypes
      <3>2. t \notin cancelled /\ call[c].timer = t
        BY <2>b, BlocksParts DEF Owned, t
      <3> QED BY <2>a, <2>c, <3>1, <3>2, BlocksParts DEF InHand, Holding
    <2> QED BY <2>1, <2>2 DEF Blocks, Owned, InHand
  <1>7. ASSUME NEW c \in Tasks, SendCommand(c)
        PROVE  Blocks'
    <2>a. /\ at[c] = "send" /\ \E p \in Places : at' = [at EXCEPT ![c] = p]
          /\ UNCHANGED <<fresh, alloc, attached, usable, queued, stopped, cancelled, claimed, seq,
                         cur, taken, dpc, call>>
      BY <1>7, SendStep DEF Places
    <2>1. Owned'
      BY <2>a, BlocksParts DEF Owned
    <2>2. InHand'
      <3>1. \A d \in Tasks : at'[d] \in {"send", "free"} => at[d] \in {"send", "free"}
        BY <2>a DEF CallTypes
      <3> QED BY <2>a, <3>1, BlocksParts DEF InHand, Holding
    <2> QED BY <2>1, <2>2 DEF Blocks, Owned, InHand
  <1>8. ASSUME NEW c \in Tasks, EndCall(c)
        PROVE  Blocks'
    <2> DEFINE t == call[c].timer
    <2>a. /\ at[c] \in {"done", "free"}
          /\ usable' = (IF call[c].op = "schedule" THEN usable \cup {t} ELSE usable)
          /\ alloc' = (IF at[c] = "free" THEN alloc \ {t} ELSE alloc)
          /\ call' = [call EXCEPT ![c] = [op |-> "none", timer |-> NULL]]
          /\ at' = [at EXCEPT ![c] = "idle"]
          /\ UNCHANGED <<fresh, attached, queued, stopped, claimed, cancelled, seq, cur, taken,
                         dpc>>
      BY <1>8 DEF EndCall, Jump, NoCall, flagVars, dispVars
    <2>b. /\ call[c].op = "schedule" => t \in attached
          /\ at[c] = "free" => t \in cancelled \ queued /\ call[c].op = "cancel"
      BY <2>a, CallsParts DEF CallOf, CallTypes, Ops
    <2>c. at[c] = "free" /\ Holding => t # cur
      BY <2>b, Hands
    <2> HIDE DEF t
    <2>1. Owned'
      BY <2>a, <2>b, BlocksParts DEF Owned
    <2>2. InHand'
      <3>1. \A d \in Tasks : at'[d] \in {"send", "free"} => at'[d] = at[d] /\ call'[d] = call[d]
        BY <2>a DEF CallTypes
      <3> QED BY <2>a, <2>c, <3>1, BlocksParts DEF InHand, Holding
    <2> QED BY <2>1, <2>2 DEF Blocks, Owned, InHand
  <1>9. CASE GiveSemaphore
    <2>a. UNCHANGED <<fresh, alloc, attached, usable, queued, stopped, claimed, cancelled, seq, at,
                      call, cur, taken, dpc>>
      BY <1>9 DEF GiveSemaphore, blockVars, flagVars, callVars, dispVars
    <2>1. Owned'
      BY <2>a, BlocksParts DEF Owned
    <2>2. InHand'
      BY <2>a, BlocksParts DEF InHand, Holding
    <2> QED BY <2>1, <2>2 DEF Blocks, Owned, InHand
  <1>10. CASE RunCommand
    <2>a. /\ UNCHANGED <<fresh, alloc, attached, usable, queued, claimed, cancelled, seq, at, call,
                         cur, taken, dpc>>
          /\ stopped' \subseteq stopped
      BY <1>10, Ran
    <2>1. Owned'
      BY <2>a, BlocksParts DEF Owned
    <2>2. InHand'
      BY <2>a, BlocksParts DEF InHand, Holding
    <2> QED BY <2>1, <2>2 DEF Blocks, Owned, InHand
  <1>11. ASSUME NEW t \in Timers, Expire(t)
        PROVE  Blocks'
    <2>a. /\ UNCHANGED <<fresh, alloc, attached, usable, stopped, claimed, cancelled, seq, at,
                         call, cur, taken, dpc>>
          /\ queued' = queued \/ (t \in attached /\ queued' = queued \cup {t})
      BY <1>11 DEF Expire, Enqueue, callVars, dispVars
    <2>1. Owned'
      BY <2>a, BlocksParts DEF Owned
    <2>2. InHand'
      BY <2>a, BlocksParts DEF InHand, Holding, Owned
    <2> QED BY <2>1, <2>2 DEF Blocks, Owned, InHand
  <1>12. CASE TakeSemaphore
    <2>a. /\ UNCHANGED <<fresh, alloc, attached, usable, queued, stopped, claimed, cancelled, seq,
                         at, call, cur, taken>>
          /\ dpc = "wait" /\ dpc' = "detach"
      BY <1>12 DEF TakeSemaphore, At, blockVars, flagVars, listVars, daemonVars, callVars
    <2>b. SchedulerTypes /\ Blocks
      OBVIOUS
    <2>1. Owned'
      BY <2>a, BlocksParts DEF Owned
    <2>2. InHand'
      BY <2>a, <2>b, BlocksParts DEF InHand, Holding, Claiming
    <2> QED BY <2>1, <2>2 DEF Blocks, Owned, InHand
  <1>13. CASE DetachList
    <2>a. /\ UNCHANGED <<fresh, alloc, attached, usable, queued, stopped, claimed, cancelled, seq,
                         at, call>>
          /\ dpc = "detach" /\ cur' = head /\ dpc' = IF head = NULL THEN "wait" ELSE "next"
      BY <1>13 DEF DetachList, At, Walk, blockVars, flagVars, callVars
    <2>1. Owned'
      BY <2>a, BlocksParts DEF Owned
    <2>2. InHand'
      <3>1. head # NULL => head \in alloc
        BY Queueing, BlocksParts DEF Owned
      <3> QED BY <2>a, <3>1, BlocksParts DEF InHand, Holding, Claiming
    <2> QED BY <2>1, <2>2 DEF Blocks, Owned, InHand
  <1>14. CASE ReadNext
    <2>a. /\ UNCHANGED <<fresh, alloc, attached, usable, queued, stopped, claimed, cancelled, seq,
                         at, call, cur, taken>>
          /\ dpc = "next" /\ dpc' = "claim"
      BY <1>14 DEF ReadNext, At, blockVars, flagVars, listVars, daemonVars, callVars
    <2>b. SchedulerTypes /\ Blocks
      OBVIOUS
    <2>1. Owned'
      BY <2>a, BlocksParts DEF Owned
    <2>2. InHand'
      BY <2>a, <2>b, BlocksParts DEF InHand, Holding, Claiming
    <2> QED BY <2>1, <2>2 DEF Blocks, Owned, InHand
  <1>15. CASE Claim
    <2>a. /\ UNCHANGED <<fresh, alloc, attached, usable, queued, stopped, cancelled, seq, at, call,
                         cur, taken>>
          /\ dpc = "claim" /\ dpc' = "take" /\ claimed' = claimed \cup {cur}
      BY <1>15 DEF Claim, At, blockVars, flagVars, listVars, daemonVars, callVars
    <2>b. SchedulerTypes /\ Blocks
      OBVIOUS
    <2>1. Owned'
      BY <2>a, BlocksParts DEF Owned
    <2>2. InHand'
      BY <2>a, <2>b, BlocksParts DEF InHand, Holding, Claiming
    <2> QED BY <2>1, <2>2 DEF Blocks, Owned, InHand
  <1>16. CASE TakeExpiry
    <2>a. /\ UNCHANGED <<fresh, alloc, attached, usable, stopped, claimed, cancelled, seq, at,
                         call, cur>>
          /\ dpc = "take" /\ dpc' \in {"loop"} /\ queued' = queued \ {cur} /\ taken' = seq[cur]
          /\ dpc' = "rearm" => cur \notin cancelled
      BY <1>16 DEF TakeExpiry, At, TakeFires, Rearm, Runnable, callVars
    <2>1. Owned'
      BY <2>a, BlocksParts DEF Owned
    <2>2. InHand'
      BY <2>a, BlocksParts DEF InHand, Holding, Claiming
    <2> QED BY <2>1, <2>2 DEF Blocks, Owned, InHand
  <1>17. CASE WaitCommands
    <2>a. /\ UNCHANGED <<fresh, alloc, attached, usable, queued, stopped, claimed, cancelled, seq,
                         at, call, cur, taken>>
          /\ dpc = "take" /\ dpc' = "lock"
      BY <1>17 DEF WaitCommands, At, blockVars, flagVars, listVars, daemonVars, callVars
    <2>b. SchedulerTypes /\ Blocks
      OBVIOUS
    <2>1. Owned'
      BY <2>a, BlocksParts DEF Owned
    <2>2. InHand'
      BY <2>a, <2>b, BlocksParts DEF InHand, Holding, Claiming
    <2> QED BY <2>1, <2>2 DEF Blocks, Owned, InHand
  <1>18. CASE LockRearm
    <2>a. /\ UNCHANGED <<fresh, alloc, attached, usable, queued, stopped, claimed, cancelled, seq,
                         at, call, cur, taken>>
          /\ dpc = "lock" /\ dpc' = "retake"
      BY <1>18 DEF LockRearm, At, blockVars, flagVars, listVars, daemonVars, callVars
    <2>b. SchedulerTypes /\ Blocks
      OBVIOUS
    <2>1. Owned'
      BY <2>a, BlocksParts DEF Owned
    <2>2. InHand'
      BY <2>a, <2>b, BlocksParts DEF InHand, Holding, Claiming
    <2> QED BY <2>1, <2>2 DEF Blocks, Owned, InHand
  <1>19. CASE RetakeExpiry
    <2>a. /\ UNCHANGED <<fresh, alloc, attached, usable, stopped, claimed, cancelled, seq, at,
                         call, cur>>
          /\ dpc = "retake" /\ dpc' \in {"rearm", "unlock"} /\ queued' = queued \ {cur} /\ taken' = seq[cur]
          /\ dpc' = "rearm" => cur \notin cancelled
      BY <1>19 DEF RetakeExpiry, At, TakeFires, Rearm, Runnable, callVars
    <2>1. Owned'
      BY <2>a, BlocksParts DEF Owned
    <2>2. InHand'
      <3>1. cur \in Timers /\ cur \in queued
        BY <2>a, HeldBlock, Queueing DEF Holding, SchedulerTypes
      <3>2. cur \notin cancelled => cur \in attached
        BY <3>1, BlocksParts DEF Owned
      <3> QED BY <2>a, <3>2, BlocksParts DEF InHand, Holding, Claiming
    <2> QED BY <2>1, <2>2 DEF Blocks, Owned, InHand
  <1>20. CASE SendRearm
    <2>a. /\ UNCHANGED <<fresh, alloc, attached, usable, queued, stopped, claimed, cancelled, seq,
                         at, call, cur, taken>>
          /\ dpc = "rearm" /\ dpc' = "unlock"
      BY <1>20 DEF SendRearm, At, blockVars, flagVars, listVars, daemonVars, callVars
    <2>b. SchedulerTypes /\ Blocks
      OBVIOUS
    <2>1. Owned'
      BY <2>a, BlocksParts DEF Owned
    <2>2. InHand'
      BY <2>a, <2>b, BlocksParts DEF InHand, Holding, Claiming
    <2> QED BY <2>1, <2>2 DEF Blocks, Owned, InHand
  <1>21. CASE UnlockRearm
    <2>a. /\ UNCHANGED <<fresh, alloc, attached, usable, queued, stopped, claimed, cancelled, seq,
                         at, call, cur, taken>>
          /\ dpc = "unlock" /\ dpc' = "loop"
      BY <1>21 DEF UnlockRearm, At, blockVars, flagVars, listVars, daemonVars, callVars
    <2>b. SchedulerTypes /\ Blocks
      OBVIOUS
    <2>1. Owned'
      BY <2>a, BlocksParts DEF Owned
    <2>2. InHand'
      BY <2>a, <2>b, BlocksParts DEF InHand, Holding, Claiming
    <2> QED BY <2>1, <2>2 DEF Blocks, Owned, InHand
  <1>22. CASE CheckRun
    <2>a. /\ UNCHANGED <<fresh, alloc, attached, usable, queued, stopped, claimed, cancelled, seq,
                         at, call, cur, taken>>
          /\ dpc = "loop" /\ dpc' \in {"start", "release"}
      BY <1>22 DEF CheckRun, At, blockVars, flagVars, listVars, daemonVars, callVars
    <2>b. SchedulerTypes /\ Blocks
      OBVIOUS
    <2>1. Owned'
      BY <2>a, BlocksParts DEF Owned
    <2>2. InHand'
      BY <2>a, <2>b, BlocksParts DEF InHand, Holding, Claiming
    <2> QED BY <2>1, <2>2 DEF Blocks, Owned, InHand
  <1>23. CASE StartTask
    <2>a. /\ UNCHANGED <<fresh, alloc, attached, usable, queued, stopped, claimed, cancelled, seq,
                         at, call, cur, taken>>
          /\ dpc = "start" /\ dpc' = "callback"
      BY <1>23 DEF StartTask, At, blockVars, flagVars, listVars, daemonVars, callVars
    <2>b. SchedulerTypes /\ Blocks
      OBVIOUS
    <2>1. Owned'
      BY <2>a, BlocksParts DEF Owned
    <2>2. InHand'
      BY <2>a, <2>b, BlocksParts DEF InHand, Holding, Claiming
    <2> QED BY <2>1, <2>2 DEF Blocks, Owned, InHand
  <1>24. CASE EndTask
    <2>a. /\ UNCHANGED <<fresh, alloc, attached, usable, queued, stopped, claimed, cancelled, seq,
                         at, call, cur, taken>>
          /\ dpc = "callback" /\ dpc' = "loop"
      BY <1>24 DEF EndTask, At, blockVars, flagVars, listVars, daemonVars, callVars
    <2>b. SchedulerTypes /\ Blocks
      OBVIOUS
    <2>1. Owned'
      BY <2>a, BlocksParts DEF Owned
    <2>2. InHand'
      BY <2>a, <2>b, BlocksParts DEF InHand, Holding, Claiming
    <2> QED BY <2>1, <2>2 DEF Blocks, Owned, InHand
  <1>25. CASE Release
    <2>a. /\ UNCHANGED <<fresh, alloc, attached, usable, queued, stopped, cancelled, seq, at, call>>
          /\ dpc = "release" /\ claimed' = claimed \ {cur}
          /\ \/ cur \in cancelled \ queued /\ dpc' = "delete" /\ cur' = cur
             \/ cur' = nxt /\ dpc' = IF nxt = NULL THEN "wait" ELSE "next"
      BY <1>25 DEF Release, At, Walk, blockVars, callVars
    <2>1. Owned'
      BY <2>a, BlocksParts DEF Owned
    <2>2. InHand'
      <3>1. /\ nxt # NULL => nxt \in alloc
            /\ \A c \in Tasks : call[c].op = "cancel" /\ at[c] \in {"send", "free"}
                                   => call[c].timer # cur
        BY <2>a, Queueing, Hands, BlocksParts DEF Owned, Holding
      <3> QED BY <2>a, <3>1, BlocksParts DEF InHand, Holding, Claiming
    <2> QED BY <2>1, <2>2 DEF Blocks, Owned, InHand
  <1>26. CASE DeleteTimer
    <2>a. /\ UNCHANGED <<fresh, alloc, attached, usable, queued, stopped, claimed, cancelled, seq,
                         at, call, cur, taken>>
          /\ dpc = "delete" /\ dpc' = "free"
      BY <1>26 DEF DeleteTimer, At, blockVars, flagVars, listVars, daemonVars, callVars
    <2>b. SchedulerTypes /\ Blocks
      OBVIOUS
    <2>1. Owned'
      BY <2>a, BlocksParts DEF Owned
    <2>2. InHand'
      BY <2>a, <2>b, BlocksParts DEF InHand, Holding, Claiming
    <2> QED BY <2>1, <2>2 DEF Blocks, Owned, InHand
  <1>27. CASE FreeBlock
    <2>a. /\ UNCHANGED <<fresh, attached, usable, queued, stopped, claimed, cancelled, seq, at,
                         call>>
          /\ dpc = "free" /\ alloc' = alloc \ {cur}
          /\ cur' = nxt /\ dpc' = IF nxt = NULL THEN "wait" ELSE "next"
      BY <1>27 DEF FreeBlock, At, Walk, flagVars, callVars
    <2>b. cur \in cancelled \ queued
      BY <2>a, BlocksParts DEF InHand
    <2>1. Owned'
      BY <2>a, <2>b, BlocksParts DEF Owned
    <2>2. InHand'
      <3>1. nxt # NULL => nxt \in queued /\ nxt \in alloc
        BY <2>a, Queueing, BlocksParts DEF Owned
      <3> QED BY <2>a, <2>b, <3>1, BlocksParts DEF InHand, Holding, Claiming
    <2> QED BY <2>1, <2>2 DEF Blocks, Owned, InHand
  <1> QED BY <1>1, <1>2, <1>3, <1>4, <1>5, <1>6, <1>7, <1>8, <1>9, <1>10, <1>11, <1>12, <1>13,
             <1>14, <1>15, <1>16, <1>17, <1>18, <1>19, <1>20, <1>21, <1>22, <1>23, <1>24, <1>25,
             <1>26, <1>27 DEF SchedulerNext, Using, Calling, Daemon, Dispatching

(* The pending list for links f, to reason about two states at once.       *)
Reach(f, t) == {x \in Timers : \A S \in SUBSET Timers :
                                  {t} \cup {f[y] : y \in S} \subseteq S \cup {NULL} => x \in S}
(* Where the links may lead.                                               *)
LinkFunctions == [Timers -> TimerOrNull]

(* Whatever is closed under the links contains the list.                   *)
LEMMA ReachLeast ==
    ASSUME NEW f \in LinkFunctions, NEW t \in TimerOrNull, NEW S \in SUBSET Timers,
           t \in S \cup {NULL}, \A y \in S : f[y] \in S \cup {NULL}
    PROVE  Reach(f, t) \subseteq S
  <1>1. {t} \cup {f[y] : y \in S} \subseteq S \cup {NULL}
    OBVIOUS
  <1> QED BY <1>1 DEF Reach

(* The list is closed under the links.                                     *)
LEMMA ReachClosed ==
    ASSUME NEW f \in LinkFunctions, NEW t \in TimerOrNull
    PROVE  /\ Reach(f, t) \in SUBSET Timers
           /\ t \in Reach(f, t) \cup {NULL}
           /\ \A y \in Reach(f, t) : f[y] \in Reach(f, t) \cup {NULL}
  <1>1. Reach(f, t) \in SUBSET Timers
    BY DEF Reach
  <1>2. t \in Reach(f, t) \cup {NULL}
    BY DEF Reach, TimerOrNull
  <1>3. ASSUME NEW y \in Reach(f, t), f[y] # NULL PROVE f[y] \in Reach(f, t)
    <2>1. y \in Timers /\ f[y] \in Timers
      BY <1>1, <1>3 DEF LinkFunctions, TimerOrNull
    <2>2. ASSUME NEW S \in SUBSET Timers, {t} \cup {f[z] : z \in S} \subseteq S \cup {NULL}
          PROVE  f[y] \in S
      <3>1. y \in S
        BY <2>1, <2>2 DEF Reach
      <3> QED BY <2>2, <3>1, <1>3
    <2> QED BY <2>1, <2>2 DEF Reach
  <1> QED BY <1>1, <1>2, <1>3

(* The list that starts nowhere is empty.                                  *)
LEMMA ReachNull == ASSUME NEW f \in LinkFunctions PROVE Reach(f, NULL) = {}
  <1>1. NULL \in TimerOrNull /\ {} \in SUBSET Timers
    BY DEF TimerOrNull
  <1> QED BY <1>1, ReachLeast

(* A list is its first timer and the list of the rest.                     *)
LEMMA ReachStep ==
    ASSUME NEW f \in LinkFunctions, NEW t \in Timers
    PROVE  Reach(f, t) = {t} \cup Reach(f, f[t])
  <1>1. t \in TimerOrNull /\ f[t] \in TimerOrNull
    BY DEF TimerOrNull, LinkFunctions
  <1> DEFINE S == {t} \cup Reach(f, f[t])
  <1>2. Reach(f, t) \subseteq S
    <2>1. S \in SUBSET Timers
      BY <1>1, ReachClosed
    <2>2. \A y \in S : f[y] \in S \cup {NULL}
      <3>1. /\ f[t] \in Reach(f, f[t]) \cup {NULL}
            /\ \A y \in Reach(f, f[t]) : f[y] \in Reach(f, f[t]) \cup {NULL}
        <4>1. \A u \in TimerOrNull : /\ u \in Reach(f, u) \cup {NULL}
                                    /\ \A y \in Reach(f, u) : f[y] \in Reach(f, u) \cup {NULL}
          BY ReachClosed
        <4> QED BY <1>1, <4>1, Zenon
      <3> QED BY <3>1
    <2>3. t \in S \cup {NULL}
      OBVIOUS
    <2> HIDE DEF S
    <2> QED BY <1>1, <2>1, <2>2, <2>3, ReachLeast
  <1>3. Reach(f, f[t]) \subseteq Reach(f, t)
    <2>1. /\ Reach(f, t) \in SUBSET Timers /\ t \in Reach(f, t) /\ f[t] \in Reach(f, t) \cup {NULL}
          /\ \A y \in Reach(f, t) : f[y] \in Reach(f, t) \cup {NULL}
      BY <1>1, ReachClosed
    <2> QED BY <1>1, <2>1, ReachLeast
  <1>4. t \in Reach(f, t)
    BY <1>1, ReachClosed
  <1> QED BY <1>2, <1>3, <1>4

(* Links outside of a list do not change it.                               *)
LEMMA ReachSame ==
    ASSUME NEW f \in LinkFunctions, NEW g \in LinkFunctions, NEW t \in TimerOrNull,
           \A y \in Reach(f, t) : g[y] = f[y]
    PROVE  Reach(g, t) = Reach(f, t)
  <1>1. /\ Reach(f, t) \in SUBSET Timers /\ t \in Reach(f, t) \cup {NULL}
        /\ \A y \in Reach(f, t) : f[y] \in Reach(f, t) \cup {NULL}
    BY ReachClosed
  <1>2. Reach(g, t) \subseteq Reach(f, t)
    <2>1. \A y \in Reach(f, t) : g[y] \in Reach(f, t) \cup {NULL}
      BY <1>1
    <2> QED BY <1>1, <2>1, ReachLeast
  <1>3. Reach(f, t) \subseteq Reach(f, t) \cap Reach(g, t)
    <2>1. /\ Reach(g, t) \in SUBSET Timers /\ t \in Reach(g, t) \cup {NULL}
          /\ \A y \in Reach(g, t) : g[y] \in Reach(g, t) \cup {NULL}
      BY ReachClosed
    <2> DEFINE S == Reach(f, t) \cap Reach(g, t)
    <2>2. S \in SUBSET Timers /\ t \in S \cup {NULL}
      BY <1>1, <2>1
    <2>3. \A y \in S : f[y] \in S \cup {NULL}
      BY <1>1, <2>1
    <2> HIDE DEF S
    <2>4. Reach(f, t) \subseteq S
      BY <2>2, <2>3, ReachLeast
    <2> QED BY <2>4 DEF S
  <1> QED BY <1>2, <1>3

(* A timer that ends its list, and the tail linked to it: no list grows by *)
(* more than that timer, and the one that ended at the tail does.          *)
LEMMA ReachGrows ==
    ASSUME NEW f \in LinkFunctions, NEW t \in Timers, NEW l \in Timers, l # t,
           NEW g \in LinkFunctions, g[t] = NULL, g[l] = t,
           \A y \in Timers : y \notin {t, l} => g[y] = f[y]
    PROVE  /\ Reach(g, t) = {t}
           /\ \A u \in TimerOrNull : Reach(g, u) \subseteq Reach(f, u) \cup {t}
           /\ \A u \in TimerOrNull : l \in Reach(f, u) /\ f[l] = NULL /\ t \notin Reach(f, u)
                                        => Reach(g, u) = Reach(f, u) \cup {t}
  <1>1. /\ g \in LinkFunctions /\ g[t] = NULL /\ g[l] = t
        /\ \A y \in Timers : y \notin {t, l} => g[y] = f[y]
    OBVIOUS
  <1>2. Reach(g, t) = {t}
    <2>1. Reach(g, t) = {t} \cup Reach(g, g[t]) /\ Reach(g, NULL) = {}
      BY <1>1, ReachStep, ReachNull
    <2> QED BY <1>1, <2>1
  <1>3. ASSUME NEW u \in TimerOrNull PROVE Reach(g, u) \subseteq Reach(f, u) \cup {t}
    <2> DEFINE S == Reach(f, u) \cup {t}
    <2>1. /\ Reach(f, u) \in SUBSET Timers /\ u \in Reach(f, u) \cup {NULL}
          /\ \A y \in Reach(f, u) : f[y] \in Reach(f, u) \cup {NULL}
      BY ReachClosed
    <2>2. S \in SUBSET Timers /\ u \in S \cup {NULL} /\ \A y \in S : g[y] \in S \cup {NULL}
      BY <1>1, <2>1
    <2> HIDE DEF S
    <2>3. Reach(g, u) \subseteq S
      BY <1>1, <2>2, ReachLeast
    <2> QED BY <2>3 DEF S
  <1>4. ASSUME NEW u \in TimerOrNull, l \in Reach(f, u), f[l] = NULL, t \notin Reach(f, u)
        PROVE  Reach(f, u) \cup {t} \subseteq Reach(g, u)
    <2>1. /\ Reach(f, u) \in SUBSET Timers /\ u \in Reach(f, u) \cup {NULL}
          /\ \A y \in Reach(f, u) : f[y] \in Reach(f, u) \cup {NULL}
      BY ReachClosed
    <2>2. /\ Reach(g, u) \in SUBSET Timers /\ u \in Reach(g, u) \cup {NULL}
          /\ \A y \in Reach(g, u) : g[y] \in Reach(g, u) \cup {NULL}
      BY <1>1, ReachClosed
    <2> DEFINE S == Reach(f, u) \cap Reach(g, u)
    <2>3. S \in SUBSET Timers /\ u \in S \cup {NULL}
      BY <2>1, <2>2
    <2>4. ASSUME NEW y \in S PROVE f[y] \in S \cup {NULL}
      <3>1. y = l \/ g[y] = f[y]
        BY <1>1, <1>4, <2>1
      <3> QED BY <3>1, <1>4, <2>1, <2>2
    <2>5. Reach(f, u) \subseteq S
      <3> HIDE DEF S
      <3> QED BY <2>3, <2>4, ReachLeast
    <2>6. t \in Reach(g, u)
      BY <1>1, <1>4, <2>2, <2>5
    <2> QED BY <2>5, <2>6
  <1> QED BY <1>1, <1>2, <1>3, <1>4

(* A list that a set of links leaves alone does not change.                *)
LEMMA ReachCut ==
    ASSUME NEW f \in LinkFunctions, NEW t \in Timers, NEW g \in LinkFunctions, g[t] = NULL,
           \A y \in Timers : y # t => g[y] = f[y]
    PROVE  /\ Reach(g, t) = {t}
           /\ \A u \in TimerOrNull : Reach(g, u) \subseteq Reach(f, u)
  <1>1. g \in LinkFunctions /\ g[t] = NULL /\ \A y \in Timers : y # t => g[y] = f[y]
    OBVIOUS
  <1>2. Reach(g, t) = {t}
    <2>1. Reach(g, t) = {t} \cup Reach(g, g[t]) /\ Reach(g, NULL) = {}
      BY <1>1, ReachStep, ReachNull
    <2> QED BY <1>1, <2>1
  <1>3. ASSUME NEW u \in TimerOrNull PROVE Reach(g, u) \subseteq Reach(f, u)
    <2>1. /\ Reach(f, u) \in SUBSET Timers /\ u \in Reach(f, u) \cup {NULL}
          /\ \A y \in Reach(f, u) : f[y] \in Reach(f, u) \cup {NULL}
      BY ReachClosed
    <2>2. ASSUME NEW y \in Reach(f, u) PROVE g[y] \in Reach(f, u) \cup {NULL}
      <3>1. y \in Timers /\ f[y] \in Reach(f, u) \cup {NULL}
        BY <2>1
      <3>2. g[y] = NULL \/ g[y] = f[y]
        BY <1>1, <3>1, Zenon
      <3> QED BY <3>1, <3>2
    <2> DEFINE S == Reach(f, u)
    <2>3. S \in SUBSET Timers /\ u \in S \cup {NULL} /\ \A y \in S : g[y] \in S \cup {NULL}
      BY <2>1, <2>2
    <2> HIDE DEF S
    <2>4. Reach(g, u) \subseteq S
      BY <1>1, <2>3, ReachLeast
    <2> QED BY <2>4 DEF S
  <1> QED BY <1>1, <1>2, <1>3


(* Where the dispatch task has a block that is still to be taken.          *)
HoldsOne == {"claim", "take", "lock", "retake"}
(* Links, QueuedIsLinked and Batch, for one state's values.                *)
BatchOf(f, d, c, n) ==
    IF d \in {"wait", "detach"} THEN {}
    ELSE IF d = "next" THEN Reach(f, c)
    ELSE Reach(f, n) \cup (IF d \in HoldsOne THEN {c} ELSE {})
(* Links, for any links f, heads, queue and place of the dispatch task.    *)
LinksOf(q, h, l, f, d, c, n) ==
    /\ q = Reach(f, h) \cup BatchOf(f, d, c, n)
    /\ Reach(f, h) \cap BatchOf(f, d, c, n) = {}
    /\ l = NULL <=> h = NULL
    /\ l # NULL => l \in Reach(f, h) /\ f[l] = NULL
    /\ \A x \in q : x \notin Reach(f, f[x])
    /\ d \in HoldsOne => c \notin Reach(f, n)

(* Links is LinksOf this state,                                            *)
LEMMA LinksParts == Links <=> LinksOf(queued, head, tail, next, dpc, cur, nxt)
  <1>1. /\ From(head) = Reach(next, head) /\ From(cur) = Reach(next, cur)
        /\ From(nxt) = Reach(next, nxt) /\ \A x : From(next[x]) = Reach(next, next[x])
    BY DEF From, Reach
  <1>2. Batch = BatchOf(next, dpc, cur, nxt)
    BY <1>1 DEF Batch, BatchOf, Holding, BeforeTake, HoldsOne
  <1> QED BY <1>1, <1>2 DEF Links, LinksOf, QueuedIsLinked, HoldsOne

(* and of the next one.                                                    *)
LEMMA LinksPartsNext == Links' <=> LinksOf(queued', head', tail', next', dpc', cur', nxt')
  <1>1. /\ From(head)' = Reach(next', head') /\ From(cur)' = Reach(next', cur')
        /\ From(nxt)' = Reach(next', nxt') /\ \A x : From(next[x])' = Reach(next', next'[x])
    BY DEF From, Reach
  <1>2. Batch' = BatchOf(next', dpc', cur', nxt')
    BY <1>1 DEF Batch, BatchOf, Holding, BeforeTake, HoldsOne
  <1> QED BY <1>1, <1>2 DEF Links, LinksOf, QueuedIsLinked, HoldsOne

(* __enqueue_locked appends to the pending list,                           *)
LEMMA LinksEnqueue ==
    ASSUME NEW f \in LinkFunctions, NEW h \in TimerOrNull, NEW l \in TimerOrNull,
           NEW c \in TimerOrNull, NEW n \in TimerOrNull, NEW d, NEW q \in SUBSET Timers,
           LinksOf(q, h, l, f, d, c, n), NEW t \in Timers, t \notin q,
           NEW g \in LinkFunctions, g[t] = NULL, l # NULL => g[l] = t,
           \A y \in Timers : y \notin {t, l} => g[y] = f[y],
           NEW k, k = IF l # NULL THEN h ELSE t
    PROVE  LinksOf(q \cup {t}, k, t, g, d, c, n)
  <1>1. /\ q = Reach(f, h) \cup BatchOf(f, d, c, n) /\ Reach(f, h) \cap BatchOf(f, d, c, n) = {}
        /\ l = NULL <=> h = NULL
        /\ l # NULL => l \in Reach(f, h) /\ f[l] = NULL
        /\ \A x \in q : x \notin Reach(f, f[x])
        /\ d \in HoldsOne => c \notin Reach(f, n)
    BY DEF LinksOf
  <1>2. /\ g \in LinkFunctions /\ g[t] = NULL /\ Reach(g, t) = {t}
        /\ \A y \in Timers : y \notin {t, l} => g[y] = f[y]
        /\ l # NULL => g[l] = t
        /\ \A u \in TimerOrNull : Reach(g, u) \subseteq Reach(f, u) \cup {t}
        /\ Reach(g, k) = Reach(f, h) \cup {t}
    <2>1. CASE l = NULL
      <3>1. k = t /\ h = NULL /\ \A y \in Timers : y # t => g[y] = f[y]
        BY <1>1, <2>1
      <3>2. /\ Reach(g, t) = {t}
            /\ \A u \in TimerOrNull : Reach(g, u) \subseteq Reach(f, u)
        BY <3>1, ReachCut
      <3>3. Reach(f, h) = {}
        BY <3>1, ReachNull
      <3>4. /\ \A y \in Timers : y \notin {t, l} => g[y] = f[y]
            /\ \A u \in TimerOrNull : Reach(g, u) \subseteq Reach(f, u) \cup {t}
            /\ Reach(g, k) = Reach(f, h) \cup {t}
        <4>1. \A y \in Timers : y \notin {t, l} => g[y] = f[y]
          OBVIOUS
        <4>2. \A u \in TimerOrNull : Reach(g, u) \subseteq Reach(f, u) \cup {t}
          BY <3>2, Zenon
        <4>3. Reach(g, k) = Reach(f, h) \cup {t}
          <5>1. Reach(g, k) = {t}
            BY <3>1, <3>2, Zenon
          <5> QED BY <5>1, <3>3
        <4> QED BY <4>1, <4>2, <4>3
      <3> QED BY <2>1, <3>2, <3>4
    <2>2. CASE l # NULL
      <3>1. g[l] = t /\ k = h /\ l \in Timers /\ l \in Reach(f, h) /\ f[l] = NULL
        BY <1>1, <2>2 DEF TimerOrNull
      <3>2. l # t /\ t \notin Reach(f, h)
        BY <1>1, <3>1
      <3>3. /\ Reach(g, t) = {t}
            /\ \A u \in TimerOrNull : Reach(g, u) \subseteq Reach(f, u) \cup {t}
            /\ \A u \in TimerOrNull : l \in Reach(f, u) /\ f[l] = NULL /\ t \notin Reach(f, u)
                                        => Reach(g, u) = Reach(f, u) \cup {t}
        BY <3>1, <3>2, ReachGrows
      <3>4. Reach(g, k) = Reach(f, h) \cup {t}
        BY <3>1, <3>2, <3>3, Zenon
      <3> QED BY <3>3, <3>4
    <2> QED BY <2>1, <2>2
  <1>3. ASSUME NEW u \in TimerOrNull, Reach(f, u) \subseteq BatchOf(f, d, c, n)
        PROVE  Reach(g, u) = Reach(f, u)
    <2>1. Reach(f, u) \subseteq Timers
      BY ReachClosed
    <2>2. t \notin Reach(f, u) /\ l \notin Reach(f, u)
      <3>1. l \in Reach(f, u) => l # NULL
        BY <2>1
      <3> QED BY <1>1, <1>3, <3>1
    <2>3. ASSUME NEW y \in Reach(f, u) PROVE g[y] = f[y]
      <3>1. y \in Timers /\ y \notin {t, l}
        BY <2>1, <2>2
      <3> QED BY <1>2, <3>1
    <2> QED BY <1>2, <2>3, ReachSame
  <1>4. BatchOf(g, d, c, n) = BatchOf(f, d, c, n) /\ (d \in HoldsOne => Reach(g, n) = Reach(f, n))
    <2>1. d = "next" => Reach(g, c) = Reach(f, c)
      BY <1>3 DEF BatchOf
    <2>2. d \notin {"wait", "detach", "next"} => Reach(g, n) = Reach(f, n)
      BY <1>3 DEF BatchOf
    <2> QED BY <2>1, <2>2 DEF BatchOf, HoldsOne
  <1>5. ASSUME NEW x \in q \cup {t} PROVE x \notin Reach(g, g[x])
    <2>1. CASE x = t
      BY <1>2, <2>1, ReachNull
    <2>2. CASE x = l /\ l # NULL /\ x # t
      BY <1>2, <2>2
    <2>3. CASE x # t /\ x # l
      <3>1. x \in q /\ x \in Timers /\ g[x] = f[x] /\ f[x] \in TimerOrNull
        BY <1>2, <2>3 DEF LinkFunctions
      <3>2. Reach(g, g[x]) \subseteq Reach(f, f[x]) \cup {t}
        BY <1>2, <3>1, Zenon
      <3> QED BY <1>1, <3>1, <3>2, <2>3
    <2> QED BY <2>1, <2>2, <2>3
  <1>6. t # NULL /\ (k = NULL => l = NULL)
    BY <1>1
  <1>7. q \cup {t} = Reach(g, k) \cup BatchOf(g, d, c, n)
    BY <1>1, <1>2, <1>4
  <1>8. Reach(g, k) \cap BatchOf(g, d, c, n) = {}
    <2>1. t \notin BatchOf(f, d, c, n)
      BY <1>1
    <2>2. Reach(g, k) = Reach(f, h) \cup {t} /\ BatchOf(g, d, c, n) = BatchOf(f, d, c, n)
      BY <1>2, <1>4
    <2> QED BY <1>1, <2>1, <2>2
  <1>9. /\ t = NULL <=> k = NULL
        /\ t # NULL => t \in Reach(g, k) /\ g[t] = NULL
        /\ d \in HoldsOne => c \notin Reach(g, n)
    <2>1. k # NULL
      BY <1>1, <1>6
    <2> QED BY <1>1, <1>2, <1>4, <1>6, <2>1
  <1> QED BY <1>5, <1>7, <1>8, <1>9 DEF LinksOf

(* the dispatch task takes it whole,                                       *)
LEMMA LinksDetach ==
    ASSUME NEW f \in LinkFunctions, NEW h \in TimerOrNull, NEW l, NEW c, NEW n, NEW q, NEW d,
           LinksOf(q, h, l, f, "detach", c, n), d = IF h = NULL THEN "wait" ELSE "next"
    PROVE  LinksOf(q, NULL, NULL, f, d, h, n)
  <1>1. Reach(f, NULL) = {}
    BY ReachNull
  <1>2. BatchOf(f, d, h, n) = Reach(f, h) /\ BatchOf(f, "detach", c, n) = {}
    BY <1>1 DEF BatchOf
  <1>3. d \notin HoldsOne
    BY DEF HoldsOne
  <1> QED BY <1>1, <1>2, <1>3 DEF LinksOf

(* reads the link of the first entry,                                      *)
LEMMA LinksRead ==
    ASSUME NEW f \in LinkFunctions, NEW h, NEW l, NEW c \in Timers, NEW n, NEW q,
           LinksOf(q, h, l, f, "next", c, n)
    PROVE  LinksOf(q, h, l, f, "claim", c, f[c])
  <1>1. Reach(f, c) = {c} \cup Reach(f, f[c])
    BY ReachStep
  <1>2. BatchOf(f, "next", c, n) = Reach(f, c) /\ BatchOf(f, "claim", c, f[c]) = Reach(f, c)
    BY <1>1 DEF BatchOf, HoldsOne
  <1>3. c \notin Reach(f, f[c])
    BY <1>1, <1>2 DEF LinksOf
  <1> QED BY <1>2, <1>3 DEF LinksOf, HoldsOne

(* clears its QUEUED flag                                                  *)
LEMMA LinksTake ==
    ASSUME NEW f, NEW h, NEW l, NEW c, NEW n, NEW q, NEW d \in {"take", "retake"},
           NEW e \in {"loop", "rearm", "unlock"}, LinksOf(q, h, l, f, d, c, n)
    PROVE  LinksOf(q \ {c}, h, l, f, e, c, n)
  <1>1. /\ BatchOf(f, d, c, n) = Reach(f, n) \cup {c} /\ BatchOf(f, e, c, n) = Reach(f, n)
        /\ e \notin HoldsOne /\ d \in HoldsOne
    BY DEF BatchOf, HoldsOne
  <1>2. c \notin Reach(f, n) /\ c \notin Reach(f, h)
    BY <1>1 DEF LinksOf
  <1> QED BY <1>1, <1>2 DEF LinksOf

(* and walks on.                                                           *)
LEMMA LinksWalk ==
    ASSUME NEW f \in LinkFunctions, NEW h, NEW l, NEW c, NEW n, NEW q, NEW d \in {"release", "free"},
           NEW e, LinksOf(q, h, l, f, d, c, n), e = IF n = NULL THEN "wait" ELSE "next"
    PROVE  LinksOf(q, h, l, f, e, n, n)
  <1>1. BatchOf(f, d, c, n) = Reach(f, n) /\ e \notin HoldsOne
    BY DEF BatchOf, HoldsOne
  <1>2. Reach(f, NULL) = {}
    BY ReachNull
  <1>3. BatchOf(f, e, n, n) = Reach(f, n)
    BY <1>2 DEF BatchOf
  <1> QED BY <1>1, <1>3 DEF LinksOf

(* Places of the dispatch task that differ in nothing the lists see.       *)
Kin == {{"wait", "detach"}, HoldsOne,
        {"rearm", "unlock", "loop", "start", "callback", "release", "delete", "free"}}
(* Moving between them keeps the lists.                                    *)
LEMMA LinksKin ==
    ASSUME NEW f, NEW h, NEW l, NEW c, NEW n, NEW q, NEW d, NEW e,
           LinksOf(q, h, l, f, d, c, n), d = e \/ \E K \in Kin : d \in K /\ e \in K
    PROVE  LinksOf(q, h, l, f, e, c, n)
  <1>1. BatchOf(f, e, c, n) = BatchOf(f, d, c, n) /\ (e \in HoldsOne => d \in HoldsOne)
    BY DEF BatchOf, Kin, HoldsOne
  <1> QED BY <1>1 DEF LinksOf

(* Every step keeps the lists.                                             *)
LEMMA LinksNext == SchedulerTypes /\ CallsOK /\ Blocks /\ Links /\ SchedulerNext => Links'
  <1> SUFFICES ASSUME SchedulerTypes, CallsOK, Blocks, Links, SchedulerNext PROVE Links'
    OBVIOUS
  <1> USE DEF SchedulerTypes
  <1>a. LinksOf(queued, head, tail, next, dpc, cur, nxt)
    BY LinksParts
  <1>b. /\ next \in LinkFunctions /\ head \in TimerOrNull /\ tail \in TimerOrNull
        /\ cur \in TimerOrNull /\ nxt \in TimerOrNull
    BY DEF LinkTypes, LinkFunctions
  <1>1. ASSUME NEW c \in Tasks, NEW t \in Timers, ScheduleTask(c, t)
        PROVE  Links'
    <2>1. /\ UNCHANGED <<queued, head, tail, next, cur, nxt>>
          /\ dpc' = dpc \/ \E K \in Kin : dpc \in K /\ dpc' \in K
      BY <1>1 DEF ScheduleTask, At, Kin, HoldsOne, blockVars, flagVars, listVars, dispVars
    <2> QED BY <2>1, <1>a, LinksKin, LinksPartsNext
  <1>2. ASSUME NEW c \in Tasks, NEW t \in Timers,
                NEW o \in {"reset", "stop", "cancel"}, BeginCall(c, o, t)
        PROVE  Links'
    <2>1. /\ UNCHANGED <<queued, head, tail, next, cur, nxt>>
          /\ dpc' = dpc \/ \E K \in Kin : dpc \in K /\ dpc' \in K
      BY <1>2 DEF BeginCall, At, Kin, HoldsOne, blockVars, flagVars, listVars, dispVars
    <2> QED BY <2>1, <1>a, LinksKin, LinksPartsNext
  <1>3. ASSUME NEW c \in Tasks, LockCommands(c)
        PROVE  Links'
    <2>1. /\ UNCHANGED <<queued, head, tail, next, cur, nxt>>
          /\ dpc' = dpc \/ \E K \in Kin : dpc \in K /\ dpc' \in K
      BY <1>3 DEF LockCommands, At, Kin, HoldsOne, blockVars, flagVars, listVars, dispVars
    <2> QED BY <2>1, <1>a, LinksKin, LinksPartsNext
  <1>4. ASSUME NEW c \in Tasks, MarkReset(c)
        PROVE  Links'
    <2>1. /\ UNCHANGED <<queued, head, tail, next, cur, nxt>>
          /\ dpc' = dpc \/ \E K \in Kin : dpc \in K /\ dpc' \in K
      BY <1>4 DEF MarkReset, At, Kin, HoldsOne, blockVars, flagVars, listVars, dispVars
    <2> QED BY <2>1, <1>a, LinksKin, LinksPartsNext
  <1>5. ASSUME NEW c \in Tasks, MarkStop(c)
        PROVE  Links'
    <2>1. /\ UNCHANGED <<queued, head, tail, next, cur, nxt>>
          /\ dpc' = dpc \/ \E K \in Kin : dpc \in K /\ dpc' \in K
      BY <1>5 DEF MarkStop, At, Kin, HoldsOne, blockVars, flagVars, listVars, dispVars
    <2> QED BY <2>1, <1>a, LinksKin, LinksPartsNext
  <1>6. ASSUME NEW c \in Tasks, MarkCancel(c)
        PROVE  Links'
    <2>1. /\ UNCHANGED <<queued, head, tail, next, cur, nxt>>
          /\ dpc' = dpc \/ \E K \in Kin : dpc \in K /\ dpc' \in K
      BY <1>6 DEF MarkCancel, At, Kin, HoldsOne, blockVars, flagVars, listVars, dispVars
    <2> QED BY <2>1, <1>a, LinksKin, LinksPartsNext
  <1>7. ASSUME NEW c \in Tasks, SendCommand(c)
        PROVE  Links'
    <2>1. /\ UNCHANGED <<queued, head, tail, next, cur, nxt>>
          /\ dpc' = dpc \/ \E K \in Kin : dpc \in K /\ dpc' \in K
      BY <1>7 DEF SendCommand, At, Kin, HoldsOne, blockVars, flagVars, listVars, dispVars
    <2> QED BY <2>1, <1>a, LinksKin, LinksPartsNext
  <1>8. ASSUME NEW c \in Tasks, EndCall(c)
        PROVE  Links'
    <2>1. /\ UNCHANGED <<queued, head, tail, next, cur, nxt>>
          /\ dpc' = dpc \/ \E K \in Kin : dpc \in K /\ dpc' \in K
      BY <1>8 DEF EndCall, At, Kin, HoldsOne, blockVars, flagVars, listVars, dispVars
    <2> QED BY <2>1, <1>a, LinksKin, LinksPartsNext
  <1>9. CASE GiveSemaphore
    <2>1. /\ UNCHANGED <<queued, head, tail, next, cur, nxt>>
          /\ dpc' = dpc \/ \E K \in Kin : dpc \in K /\ dpc' \in K
      BY <1>9 DEF GiveSemaphore, At, Kin, HoldsOne, blockVars, flagVars, listVars, dispVars
    <2> QED BY <2>1, <1>a, LinksKin, LinksPartsNext
  <1>10. CASE RunCommand
    <2>1. UNCHANGED <<queued, head, tail, next, cur, nxt, dpc>>
      BY <1>10, Ran
    <2> QED BY <2>1, <1>a, LinksPartsNext
  <1>11. ASSUME NEW t \in Timers, Expire(t)
        PROVE  Links'
    <2>1. UNCHANGED <<cur, nxt, dpc>>
      BY <1>11 DEF Expire, dispVars
    <2>2. CASE UNCHANGED <<queued, head, tail, next>>
      BY <2>1, <2>2, <1>a, LinksPartsNext
    <2>3. CASE /\ t \notin queued /\ queued' = queued \cup {t} /\ tail' = t
               /\ next' = (IF tail # NULL THEN [next EXCEPT ![t] = NULL, ![tail] = t]
                                         ELSE [next EXCEPT ![t] = NULL])
               /\ head' = (IF tail # NULL THEN head ELSE t)
      <3>1. queued \in SUBSET Timers
        BY DEF SetTypes
      <3>2. tail # NULL => tail \in Timers /\ tail # t
        <4>1. tail # NULL => tail \in queued
          BY <1>a DEF LinksOf
        <4> QED BY <4>1, <3>1, <2>3
      <3>3. /\ next' \in LinkFunctions /\ next'[t] = NULL /\ (tail # NULL => next'[tail] = t)
            /\ \A y \in Timers : y \notin {t, tail} => next'[y] = next[y]
        <4>1. CASE tail = NULL
          BY <4>1, <2>3, <1>b DEF LinkFunctions, TimerOrNull
        <4>2. CASE tail # NULL
          <5>1. next' = [next EXCEPT ![t] = NULL, ![tail] = t]
            BY <4>2, <2>3
          <5> QED BY <5>1, <4>2, <3>2, <1>b DEF LinkFunctions, TimerOrNull
        <4> QED BY <4>1, <4>2
      <3>4. LinksOf(queued', head', tail', next', dpc, cur, nxt)
        <4> DEFINE k == IF tail # NULL THEN head ELSE t
        <4>1. LinksOf(queued \cup {t}, k, t, next', dpc, cur, nxt)
          <5>1. k = IF tail # NULL THEN head ELSE t
            OBVIOUS
          <5>2. t \notin queued
            BY <2>3
          <5>3. next' \in LinkFunctions /\ next'[t] = NULL
            BY <3>3
          <5>4. tail # NULL => next'[tail] = t
            BY <3>3
          <5>5. \A y \in Timers : y \notin {t, tail} => next'[y] = next[y]
            BY <3>3
          <5> HIDE DEF k
          <5> QED BY <5>1, <5>2, <5>3, <5>4, <5>5, <3>1, <1>a, <1>b, LinksEnqueue
        <4>2. queued' = queued \cup {t} /\ head' = k /\ tail' = t
          BY <2>3
        <4> QED BY <4>1, <4>2, Zenon
      <3> QED BY <2>1, <3>4, LinksPartsNext
    <2> QED BY <1>11, <2>2, <2>3 DEF Expire, Enqueue
  <1>12. CASE TakeSemaphore
    <2>1. /\ UNCHANGED <<queued, head, tail, next, cur, nxt>>
          /\ dpc' = dpc \/ \E K \in Kin : dpc \in K /\ dpc' \in K
      BY <1>12 DEF TakeSemaphore, At, Kin, HoldsOne, blockVars, flagVars, listVars, dispVars
    <2> QED BY <2>1, <1>a, LinksKin, LinksPartsNext
  <1>13. CASE DetachList
    <2>1. /\ UNCHANGED <<queued, next, nxt>> /\ dpc = "detach" /\ head' = NULL /\ tail' = NULL
          /\ cur' = head /\ dpc' = IF head = NULL THEN "wait" ELSE "next"
      BY <1>13 DEF DetachList, At, Walk, flagVars
    <2> QED BY <2>1, <1>a, <1>b, LinksDetach, LinksPartsNext
  <1>14. CASE ReadNext
    <2>1. /\ UNCHANGED <<queued, head, tail, next, cur>> /\ dpc = "next" /\ nxt' = next[cur]
          /\ dpc' = "claim"
      BY <1>14 DEF ReadNext, At, flagVars, listVars
    <2>2. cur \in Timers
      BY <2>1, HeldBlock DEF Holding
    <2> QED BY <2>1, <2>2, <1>a, <1>b, LinksRead, LinksPartsNext
  <1>15. CASE Claim
    <2>1. /\ UNCHANGED <<queued, head, tail, next, cur, nxt>>
          /\ dpc' = dpc \/ \E K \in Kin : dpc \in K /\ dpc' \in K
      BY <1>15 DEF Claim, At, Kin, HoldsOne, blockVars, flagVars, listVars, dispVars
    <2> QED BY <2>1, <1>a, LinksKin, LinksPartsNext
  <1>16. CASE TakeExpiry
    <2>1. /\ UNCHANGED <<head, tail, next, cur, nxt>> /\ dpc = "take" /\ dpc' \in {"loop"}
          /\ queued' = queued \ {cur}
      BY <1>16 DEF TakeExpiry, TakeFires, At, listVars
    <2>2. LinksOf(queued', head, tail, next, dpc', cur, nxt)
      BY <2>1, <1>a, LinksTake
    <2> QED BY <2>1, <2>2, LinksPartsNext
  <1>17. CASE WaitCommands
    <2>1. /\ UNCHANGED <<queued, head, tail, next, cur, nxt>>
          /\ dpc' = dpc \/ \E K \in Kin : dpc \in K /\ dpc' \in K
      BY <1>17 DEF WaitCommands, At, Kin, HoldsOne, blockVars, flagVars, listVars, dispVars
    <2> QED BY <2>1, <1>a, LinksKin, LinksPartsNext
  <1>18. CASE LockRearm
    <2>1. /\ UNCHANGED <<queued, head, tail, next, cur, nxt>>
          /\ dpc' = dpc \/ \E K \in Kin : dpc \in K /\ dpc' \in K
      BY <1>18 DEF LockRearm, At, Kin, HoldsOne, blockVars, flagVars, listVars, dispVars
    <2> QED BY <2>1, <1>a, LinksKin, LinksPartsNext
  <1>19. CASE RetakeExpiry
    <2>1. /\ UNCHANGED <<head, tail, next, cur, nxt>> /\ dpc = "retake" /\ dpc' \in {"rearm",
                         "unlock"}
          /\ queued' = queued \ {cur}
      BY <1>19 DEF RetakeExpiry, TakeFires, At, listVars
    <2>2. LinksOf(queued', head, tail, next, dpc', cur, nxt)
      BY <2>1, <1>a, LinksTake
    <2> QED BY <2>1, <2>2, LinksPartsNext
  <1>20. CASE SendRearm
    <2>1. /\ UNCHANGED <<queued, head, tail, next, cur, nxt>>
          /\ dpc' = dpc \/ \E K \in Kin : dpc \in K /\ dpc' \in K
      BY <1>20 DEF SendRearm, At, Kin, HoldsOne, blockVars, flagVars, listVars, dispVars
    <2> QED BY <2>1, <1>a, LinksKin, LinksPartsNext
  <1>21. CASE UnlockRearm
    <2>1. /\ UNCHANGED <<queued, head, tail, next, cur, nxt>>
          /\ dpc' = dpc \/ \E K \in Kin : dpc \in K /\ dpc' \in K
      BY <1>21 DEF UnlockRearm, At, Kin, HoldsOne, blockVars, flagVars, listVars, dispVars
    <2> QED BY <2>1, <1>a, LinksKin, LinksPartsNext
  <1>22. CASE CheckRun
    <2>1. /\ UNCHANGED <<queued, head, tail, next, cur, nxt>>
          /\ dpc' = dpc \/ \E K \in Kin : dpc \in K /\ dpc' \in K
      BY <1>22 DEF CheckRun, At, Kin, HoldsOne, blockVars, flagVars, listVars, dispVars
    <2> QED BY <2>1, <1>a, LinksKin, LinksPartsNext
  <1>23. CASE StartTask
    <2>1. /\ UNCHANGED <<queued, head, tail, next, cur, nxt>>
          /\ dpc' = dpc \/ \E K \in Kin : dpc \in K /\ dpc' \in K
      BY <1>23 DEF StartTask, At, Kin, HoldsOne, blockVars, flagVars, listVars, dispVars
    <2> QED BY <2>1, <1>a, LinksKin, LinksPartsNext
  <1>24. CASE EndTask
    <2>1. /\ UNCHANGED <<queued, head, tail, next, cur, nxt>>
          /\ dpc' = dpc \/ \E K \in Kin : dpc \in K /\ dpc' \in K
      BY <1>24 DEF EndTask, At, Kin, HoldsOne, blockVars, flagVars, listVars, dispVars
    <2> QED BY <2>1, <1>a, LinksKin, LinksPartsNext
  <1>25. CASE Release
    <2>1. /\ UNCHANGED <<queued, head, tail, next, nxt>> /\ dpc = "release"
          /\ \/ dpc' = "delete" /\ cur' = cur
             \/ cur' = nxt /\ dpc' = IF nxt = NULL THEN "wait" ELSE "next"
      BY <1>25 DEF Release, Walk, At, listVars
    <2>2. CASE dpc' = "delete" /\ cur' = cur
      <3>1. \E K \in Kin : dpc \in K /\ dpc' \in K
        BY <2>1, <2>2 DEF Kin
      <3> QED BY <2>1, <2>2, <3>1, <1>a, LinksKin, LinksPartsNext
    <2>3. CASE cur' = nxt /\ dpc' = IF nxt = NULL THEN "wait" ELSE "next"
      BY <2>1, <2>3, <1>a, <1>b, LinksWalk, LinksPartsNext
    <2> QED BY <2>1, <2>2, <2>3
  <1>26. CASE DeleteTimer
    <2>1. /\ UNCHANGED <<queued, head, tail, next, cur, nxt>>
          /\ dpc' = dpc \/ \E K \in Kin : dpc \in K /\ dpc' \in K
      BY <1>26 DEF DeleteTimer, At, Kin, HoldsOne, blockVars, flagVars, listVars, dispVars
    <2> QED BY <2>1, <1>a, LinksKin, LinksPartsNext
  <1>27. CASE FreeBlock
    <2>1. /\ UNCHANGED <<queued, head, tail, next, nxt>> /\ dpc = "free"
          /\ cur' = nxt /\ dpc' = IF nxt = NULL THEN "wait" ELSE "next"
      BY <1>27 DEF FreeBlock, Walk, At, flagVars, listVars
    <2> QED BY <2>1, <1>a, <1>b, LinksWalk, LinksPartsNext
  <1> QED BY <1>1, <1>2, <1>3, <1>4, <1>5, <1>6, <1>7, <1>8, <1>9, <1>10, <1>11, <1>12, <1>13,
             <1>14, <1>15, <1>16, <1>17, <1>18, <1>19, <1>20, <1>21, <1>22, <1>23, <1>24, <1>25,
             <1>26, <1>27 DEF SchedulerNext, Using, Calling, Daemon, Dispatching

(* Nobody but its last owner refers to t any more.                         *)
Away(t) ==
    /\ t \in cancelled \ (queued \cup claimed)
    /\ \A c \in Tasks : call[c].op = "cancel" /\ at[c] = "send" => call[c].timer # t
    /\ dpc = "delete" => cur # t
(* The commands are for timers that exist,                                 *)
SentToLiving == \A i \in 1..Len(cmds) : cmds[i].timer \notin deleted \cup fresh
(* and a delete command is the last one for its timer.                     *)
DeleteIsLast ==
    \A i, j \in 1..Len(cmds) : i < j /\ cmds[i].op = "delete" => cmds[j].timer # cmds[i].timer

(* Deletions from its parts.                                               *)
LEMMA DeletionsParts ==
    Deletions <=> (\A t \in Timers : Doomed(t) => Away(t)) /\ SentToLiving /\ DeleteIsLast
  BY DEF Deletions, Away, SentToLiving, DeleteIsLast

(* Without a command sent or run, the doomed timers stay the same;         *)
LEMMA DoomedStill ==
    ASSUME Deletions, UNCHANGED <<cmds, deleted>>, fresh' \subseteq fresh
    PROVE  /\ SentToLiving' /\ DeleteIsLast'
           /\ \A t \in Timers : Doomed(t)' => Doomed(t)
  BY DeletionsParts DEF SentToLiving, DeleteIsLast, Doomed

(* sending one dooms the timer it deletes,                                 *)
LEMMA DoomedAppend ==
    ASSUME CallTypes, Deletions, NEW m \in AnyCommand, cmds' = Append(cmds, m),
           UNCHANGED <<deleted, fresh>>, ~Doomed(m.timer), m.timer \notin fresh
    PROVE  /\ SentToLiving' /\ DeleteIsLast'
           /\ \A t \in Timers : Doomed(t)' => Doomed(t) \/ (m.op = "delete" /\ t = m.timer)
  <1> DEFINE n == Len(cmds)
  <1>1. /\ n \in Nat /\ Len(cmds') = n + 1 /\ cmds'[n + 1] = m
        /\ \A i \in 1..n : cmds'[i] = cmds[i]
    BY Appended
  <1> HIDE DEF n
  <1>2. \A i \in 1..Len(cmds') : \/ i = n + 1 /\ cmds'[i] = m
                                 \/ i \in 1..n /\ cmds'[i] = cmds[i]
    BY <1>1
  <1>3. m.timer \notin deleted /\ \A i \in 1..n : cmds[i].op = "delete" => cmds[i].timer # m.timer
    BY DEF Doomed, n
  <1>4. SentToLiving'
    BY <1>2, <1>3, DeletionsParts DEF SentToLiving, n
  <1>5. ASSUME NEW i \in 1..Len(cmds'), NEW j \in 1..Len(cmds'), i < j, cmds'[i].op = "delete"
        PROVE  cmds'[j].timer # cmds'[i].timer
    <2>1. i \in 1..n /\ cmds'[i] = cmds[i]
      BY <1>1, <1>2, <1>5
    <2>2. CASE j \in 1..n /\ cmds'[j] = cmds[j]
      BY <2>1, <2>2, <1>5, DeletionsParts DEF DeleteIsLast, n
    <2>3. CASE cmds'[j] = m
      BY <2>1, <2>3, <1>3, <1>5
    <2> QED BY <1>2, <2>2, <2>3
  <1>6. ASSUME NEW t \in Timers, Doomed(t)' PROVE Doomed(t) \/ (m.op = "delete" /\ t = m.timer)
    <2>1. CASE t \in deleted'
      BY <2>1 DEF Doomed
    <2>2. CASE \E i \in 1..Len(cmds') : cmds'[i].op = "delete" /\ cmds'[i].timer = t
      <3>1. PICK i \in 1..Len(cmds') : cmds'[i].op = "delete" /\ cmds'[i].timer = t
        BY <2>2
      <3> QED BY <3>1, <1>2 DEF Doomed, n
    <2> QED BY <1>6, <2>1, <2>2 DEF Doomed
  <1> QED BY <1>4, <1>5, <1>6 DEF DeleteIsLast

(* running one dooms no other.                                             *)
LEMMA DoomedRun ==
    ASSUME CallTypes, CountTypes, Deletions, RunCommand
    PROVE  /\ SentToLiving' /\ DeleteIsLast'
           /\ \A t \in Timers : Doomed(t)' => Doomed(t)
  <1> DEFINE m == cmds[1]
             n == Len(cmds)
  <1>1. /\ n \in Nat \ {0} /\ Len(cmds') = n - 1 /\ fresh' = fresh
        /\ \A i \in 1..Len(cmds') : cmds'[i] = cmds[i + 1] /\ i + 1 \in 1..n
        /\ deleted' = IF m.op = "delete" THEN deleted \cup {m.timer} ELSE deleted
    BY Ran
  <1>2. 1 \in 1..n /\ \A i \in 1..Len(cmds') : i \in Nat /\ 1 < i + 1
    BY <1>1
  <1>3. SentToLiving /\ DeleteIsLast
    BY DeletionsParts
  <1>4. ASSUME NEW i \in 1..Len(cmds') PROVE cmds'[i].timer \notin deleted' \cup fresh'
    <2>1. cmds'[i] = cmds[i + 1] /\ i + 1 \in 1..n /\ 1 < i + 1
      BY <1>1, <1>2
    <2>2. cmds[i + 1].timer \notin deleted \cup fresh
      BY <2>1, <1>3 DEF SentToLiving
    <2>3. m.op = "delete" => cmds[i + 1].timer # m.timer
      BY <2>1, <1>2, <1>3 DEF DeleteIsLast
    <2> QED BY <2>1, <2>2, <2>3, <1>1
  <1>5. ASSUME NEW i \in 1..Len(cmds'), NEW j \in 1..Len(cmds'), i < j, cmds'[i].op = "delete"
        PROVE  cmds'[j].timer # cmds'[i].timer
    <2>1. /\ cmds'[i] = cmds[i + 1] /\ i + 1 \in 1..n
          /\ cmds'[j] = cmds[j + 1] /\ j + 1 \in 1..n /\ i + 1 < j + 1
      BY <1>1, <1>5
    <2> QED BY <2>1, <1>3, <1>5 DEF DeleteIsLast
  <1>6. ASSUME NEW t \in Timers, Doomed(t)' PROVE Doomed(t)
    <2>1. CASE t \in deleted'
      BY <2>1, <1>1, <1>2 DEF Doomed
    <2>2. CASE \E i \in 1..Len(cmds') : cmds'[i].op = "delete" /\ cmds'[i].timer = t
      BY <2>2, <1>1 DEF Doomed
    <2> QED BY <1>6, <2>1, <2>2 DEF Doomed
  <1> QED BY <1>4, <1>5, <1>6 DEF SentToLiving, DeleteIsLast

(* What a call or a timer still refers to is not to be deleted.            *)
LEMMA NotDoomed ==
    ASSUME SchedulerTypes, CallsOK, Blocks, Links, Deletions
    PROVE  /\ \A t \in Timers : t \in attached \cup queued \cup claimed => ~Doomed(t)
           /\ \A c \in Tasks : at[c] = "send" => ~Doomed(call[c].timer) /\ call[c].timer \notin fresh
           /\ \A t \in attached \cup cancelled : t \notin fresh
  <1>1. ASSUME NEW t \in Timers, t \in attached \cup queued \cup claimed PROVE ~Doomed(t)
    BY <1>1, DeletionsParts, BlocksParts DEF Away, Owned
  <1>2. ASSUME NEW c \in Tasks, at[c] = "send"
        PROVE  ~Doomed(call[c].timer) /\ call[c].timer \notin fresh
    <2>1. CallOf(c) /\ call[c].timer \in Timers /\ call[c].timer \notin fresh
      BY <1>2, ActiveCall, CallsParts DEF SchedulerTypes
    <2>2. call[c].op \in {"schedule", "reset", "stop", "cancel"}
      BY <1>2, SendFacts DEF SchedulerTypes
    <2>3. CASE call[c].op = "cancel"
      BY <2>1, <2>3, <1>2, DeletionsParts DEF Away
    <2>4. CASE call[c].op # "cancel"
      <3>1. call[c].timer \in attached
        BY <2>1, <2>2, <2>4, BlocksParts DEF CallOf, Owned
      <3> QED BY <2>1, <3>1, <1>1
    <2> QED BY <2>1, <2>3, <2>4
  <1>3. \A t \in attached \cup cancelled : t \notin fresh
    BY BlocksParts DEF Owned
  <1> QED BY <1>1, <1>2, <1>3

(* Every step keeps deletions last.                                        *)
LEMMA DeletionsNext ==
    SchedulerTypes /\ CallsOK /\ Blocks /\ Links /\ Deletions /\ SchedulerNext => Deletions'
  <1> SUFFICES ASSUME SchedulerTypes, CallsOK, Blocks, Links, Deletions, SchedulerNext
               PROVE Deletions'
    OBVIOUS
  <1> USE DEF SchedulerTypes
  <1>1. ASSUME NEW c \in Tasks, NEW t \in Timers, ScheduleTask(c, t)
        PROVE  Deletions'
    <2>a. /\ UNCHANGED <<cmds, deleted>> /\ fresh' \subseteq fresh /\ UNCHANGED <<queued, claimed,
                         cancelled, cur, dpc>>
          /\ call' = [call EXCEPT ![c] = [op |-> "schedule", timer |-> t]] /\ at' = [at EXCEPT ![c] = "send"]
      BY <1>1 DEF ScheduleTask, Jump, Enter, NoCall, blockVars, flagVars, listVars, daemonVars,
         dispVars, callVars
    <2>1. SentToLiving' /\ DeleteIsLast' /\ \A x \in Timers : Doomed(x)' => Doomed(x)
      BY <2>a, DoomedStill
    <2>2. ASSUME NEW x \in Timers, Doomed(x) PROVE Away(x)'
      <3>1. Away(x)
        BY <2>2, DeletionsParts
      <3>2. \A d \in Tasks : call'[d].op = "cancel" /\ at'[d] = "send" => call'[d].timer # x
        BY <2>a, <3>1 DEF Away, CallTypes
      <3> QED BY <2>a, <3>1, <3>2 DEF Away
    <2> QED BY <2>1, <2>2, DeletionsParts DEF Deletions, Away, SentToLiving, DeleteIsLast
  <1>2. ASSUME NEW c \in Tasks, NEW t \in Timers,
                NEW o \in {"reset", "stop", "cancel"}, BeginCall(c, o, t)
        PROVE  Deletions'
    <2>a. /\ UNCHANGED <<cmds, deleted>> /\ fresh' \subseteq fresh /\ UNCHANGED <<queued, claimed,
                         cancelled, cur, dpc>>
          /\ call' = [call EXCEPT ![c] = [op |-> o, timer |-> t]] /\ at' = [at EXCEPT ![c] = "lock"]
      BY <1>2 DEF BeginCall, Jump, Enter, NoCall, blockVars, flagVars, listVars, daemonVars,
         dispVars, callVars
    <2>1. SentToLiving' /\ DeleteIsLast' /\ \A x \in Timers : Doomed(x)' => Doomed(x)
      BY <2>a, DoomedStill
    <2>2. ASSUME NEW x \in Timers, Doomed(x) PROVE Away(x)'
      <3>1. Away(x)
        BY <2>2, DeletionsParts
      <3>2. \A d \in Tasks : call'[d].op = "cancel" /\ at'[d] = "send" => call'[d].timer # x
        BY <2>a, <3>1 DEF Away, CallTypes
      <3> QED BY <2>a, <3>1, <3>2 DEF Away
    <2> QED BY <2>1, <2>2, DeletionsParts DEF Deletions, Away, SentToLiving, DeleteIsLast
  <1>3. ASSUME NEW c \in Tasks, LockCommands(c)
        PROVE  Deletions'
    <2>a. /\ UNCHANGED <<cmds, deleted>> /\ fresh' \subseteq fresh /\ UNCHANGED <<queued, claimed,
                         cancelled, cur, dpc>>
          /\ call' = call /\ at' = [at EXCEPT ![c] = "mark"]
      BY <1>3 DEF LockCommands, Jump, Enter, NoCall, blockVars, flagVars, listVars, daemonVars,
         dispVars, callVars
    <2>1. SentToLiving' /\ DeleteIsLast' /\ \A x \in Timers : Doomed(x)' => Doomed(x)
      BY <2>a, DoomedStill
    <2>2. ASSUME NEW x \in Timers, Doomed(x) PROVE Away(x)'
      <3>1. Away(x)
        BY <2>2, DeletionsParts
      <3>2. \A d \in Tasks : call'[d].op = "cancel" /\ at'[d] = "send" => call'[d].timer # x
        BY <2>a, <3>1 DEF Away, CallTypes
      <3> QED BY <2>a, <3>1, <3>2 DEF Away
    <2> QED BY <2>1, <2>2, DeletionsParts DEF Deletions, Away, SentToLiving, DeleteIsLast
  <1>4. ASSUME NEW c \in Tasks, MarkReset(c)
        PROVE  Deletions'
    <2>a. /\ UNCHANGED <<cmds, deleted>> /\ fresh' \subseteq fresh /\ UNCHANGED <<queued, claimed,
                         cancelled, cur, dpc, call>>
          /\ call[c].op # "cancel" /\ at' = [at EXCEPT ![c] = "send"]
      BY <1>4, Marked
    <2>1. SentToLiving' /\ DeleteIsLast' /\ \A x \in Timers : Doomed(x)' => Doomed(x)
      BY <2>a, DoomedStill
    <2>2. ASSUME NEW x \in Timers, Doomed(x) PROVE Away(x)'
      <3>1. Away(x)
        BY <2>2, DeletionsParts
      <3>2. \A d \in Tasks : call'[d].op = "cancel" /\ at'[d] = "send" => call'[d].timer # x
        BY <2>a, <3>1 DEF Away, CallTypes
      <3> QED BY <2>a, <3>1, <3>2 DEF Away
    <2> QED BY <2>1, <2>2, DeletionsParts DEF Deletions, Away, SentToLiving, DeleteIsLast
  <1>5. ASSUME NEW c \in Tasks, MarkStop(c)
        PROVE  Deletions'
    <2>a. /\ UNCHANGED <<cmds, deleted>> /\ fresh' \subseteq fresh /\ UNCHANGED <<queued, claimed,
                         cancelled, cur, dpc, call>>
          /\ call[c].op # "cancel" /\ at' = [at EXCEPT ![c] = "send"]
      BY <1>5, Marked
    <2>1. SentToLiving' /\ DeleteIsLast' /\ \A x \in Timers : Doomed(x)' => Doomed(x)
      BY <2>a, DoomedStill
    <2>2. ASSUME NEW x \in Timers, Doomed(x) PROVE Away(x)'
      <3>1. Away(x)
        BY <2>2, DeletionsParts
      <3>2. \A d \in Tasks : call'[d].op = "cancel" /\ at'[d] = "send" => call'[d].timer # x
        BY <2>a, <3>1 DEF Away, CallTypes
      <3> QED BY <2>a, <3>1, <3>2 DEF Away
    <2> QED BY <2>1, <2>2, DeletionsParts DEF Deletions, Away, SentToLiving, DeleteIsLast
  <1>6. ASSUME NEW c \in Tasks, MarkCancel(c)
        PROVE  Deletions'
    <2>a. /\ UNCHANGED <<cmds, deleted>> /\ fresh' \subseteq fresh /\ UNCHANGED <<queued, claimed,
                         cur, dpc, call>>
          /\ at[c] = "mark" /\ call[c].op = "cancel" /\ cancelled' = cancelled \cup {call[c].timer}
          /\ \E p \in Places : at' = [at EXCEPT ![c] = p]
      BY <1>6 DEF MarkCancel, Jump, Places, blockVars, flagVars, listVars, daemonVars, dispVars,
         callVars
    <2>b. call[c].timer \in attached /\ call[c].timer \in Timers
      BY <2>a, ActiveCall, CallsParts DEF CallOf
    <2>1. SentToLiving' /\ DeleteIsLast' /\ \A x \in Timers : Doomed(x)' => Doomed(x)
      BY <2>a, DoomedStill
    <2>2. ASSUME NEW x \in Timers, Doomed(x) PROVE Away(x)'
      <3>1. Away(x)
        BY <2>2, DeletionsParts
      <3>2. call[c].timer # x
        BY <2>b, <2>2, NotDoomed
      <3>3. \A d \in Tasks : call'[d].op = "cancel" /\ at'[d] = "send" => call'[d].timer # x
        BY <2>a, <3>1, <3>2 DEF Away, CallTypes
      <3> QED BY <2>a, <3>1, <3>3 DEF Away
    <2> QED BY <2>1, <2>2, DeletionsParts DEF Deletions, Away, SentToLiving, DeleteIsLast
  <1>7. ASSUME NEW c \in Tasks, SendCommand(c)
        PROVE  Deletions'
    <2> DEFINE m == Head(todo[c])
    <2>t. PICK t \in Timers : t = call[c].timer
      BY <1>7, SendStep
    <2>a. /\ at[c] = "send" /\ m \in AnyCommand /\ m.timer = t /\ t \in Timers
          /\ cmds' = Append(cmds, m)
          /\ at' = [at EXCEPT ![c] = IF Len(todo[c]) > 1 THEN "send"
                                     ELSE IF call[c].op = "cancel" THEN "free" ELSE "done"]
          /\ UNCHANGED <<deleted, fresh, queued, claimed, cancelled, cur, call, dpc>>
      BY <1>7, <2>t, SendStep
    <2>b. ~Doomed(t) /\ t \notin fresh
      BY <2>a, <2>t, NotDoomed
    <2>c. m.op = "delete" => call[c].op = "cancel"
      BY <2>a, SendFacts, CommandFields
    <2>d. /\ call[c].op = "cancel" => at'[c] # "send"
          /\ \A d \in Tasks \ {c} : at'[d] = at[d]
      <3>1. call[c].op = "cancel" => Len(todo[c]) = 1
        BY <2>a, SendFacts
      <3>2. ASSUME call[c].op = "cancel" PROVE ~(Len(todo[c]) > 1)
        <4> DEFINE k == Len(todo[c])
        <4>1. k = 1
          BY <3>1, <3>2
        <4> HIDE DEF k
        <4>2. ~(k > 1)
          BY <4>1
        <4> QED BY <4>2 DEF k
      <3>3. at \in [Tasks -> Places]
        BY DEF CallTypes
      <3>4. \A d \in Tasks \ {c} : at'[d] = at[d]
        BY <2>a, <3>3
      <3>5. ASSUME call[c].op = "cancel" PROVE at'[c] # "send"
        <4>1. at' = [at EXCEPT ![c] = "free"]
          BY <2>a, <3>2, <3>5, Zenon
        <4> QED BY <3>3, <4>1
      <3> QED BY <3>4, <3>5
    <2> HIDE DEF m
    <2>1. /\ SentToLiving' /\ DeleteIsLast'
          /\ \A x \in Timers : Doomed(x)' => Doomed(x) \/ (m.op = "delete" /\ x = m.timer)
      BY <2>a, <2>b, DoomedAppend
    <2>2. ASSUME NEW x \in Timers, Doomed(x) PROVE Away(x)'
      BY <2>a, <2>d, <2>2, DeletionsParts DEF Away
    <2>3. ASSUME m.op = "delete" PROVE Away(t)'
      <3>1. /\ call[c].op = "cancel" /\ call[c].timer = t /\ CallOf(c)
            /\ \A d \in Tasks \ {c} : call[d].timer # t
        BY <2>c, <2>t, <2>3, CallsParts DEF OneCall
      <3>2. t \in cancelled \ (queued \cup claimed)
        BY <2>a, <3>1 DEF CallOf
      <3>3. dpc = "delete" => cur # t
        BY <2>a, <3>1, BlocksParts DEF InHand
      <3> QED BY <2>a, <2>d, <3>1, <3>2, <3>3 DEF Away
    <2> QED BY <2>a, <2>1, <2>2, <2>3 DEF Deletions, Away, SentToLiving, DeleteIsLast
  <1>8. ASSUME NEW c \in Tasks, EndCall(c)
        PROVE  Deletions'
    <2>a. /\ UNCHANGED <<cmds, deleted>> /\ fresh' \subseteq fresh /\ UNCHANGED <<queued, claimed,
                         cancelled, cur, dpc>>
          /\ call' = [call EXCEPT ![c] = [op |-> "none", timer |-> NULL]] /\ at' = [at EXCEPT ![c] = "idle"]
      BY <1>8 DEF EndCall, Jump, Enter, NoCall, blockVars, flagVars, listVars, daemonVars, dispVars,
         callVars
    <2>1. SentToLiving' /\ DeleteIsLast' /\ \A x \in Timers : Doomed(x)' => Doomed(x)
      BY <2>a, DoomedStill
    <2>2. ASSUME NEW x \in Timers, Doomed(x) PROVE Away(x)'
      <3>1. Away(x)
        BY <2>2, DeletionsParts
      <3>2. \A d \in Tasks : call'[d].op = "cancel" /\ at'[d] = "send" => call'[d].timer # x
        BY <2>a, <3>1 DEF Away, CallTypes
      <3> QED BY <2>a, <3>1, <3>2 DEF Away
    <2> QED BY <2>1, <2>2, DeletionsParts DEF Deletions, Away, SentToLiving, DeleteIsLast
  <1>9. CASE GiveSemaphore
    <2>a. /\ UNCHANGED <<cmds, deleted>> /\ fresh' \subseteq fresh /\ UNCHANGED <<queued, claimed,
                         cancelled, call, at, cur>>
          /\ dpc' = dpc
      BY <1>9 DEF GiveSemaphore, At, Walk, TakeFires, blockVars, flagVars, listVars, daemonVars,
         dispVars, callVars
    <2>1. SentToLiving' /\ DeleteIsLast' /\ \A x \in Timers : Doomed(x)' => Doomed(x)
      BY <2>a, DoomedStill
    <2>2. ASSUME NEW x \in Timers, Doomed(x) PROVE Away(x)'
      BY <2>a, <2>2, DeletionsParts DEF Away
    <2> QED BY <2>1, <2>2, DeletionsParts DEF Deletions, Away, SentToLiving, DeleteIsLast
  <1>10. CASE RunCommand
    <2>1. UNCHANGED <<queued, claimed, cancelled, cur, dpc, call, at>>
      BY <1>10, Ran
    <2>2. SentToLiving' /\ DeleteIsLast' /\ \A x \in Timers : Doomed(x)' => Doomed(x)
      BY <1>10, DoomedRun
    <2>3. ASSUME NEW x \in Timers, Doomed(x) PROVE Away(x)'
      BY <2>1, <2>3, DeletionsParts DEF Away
    <2> QED BY <2>2, <2>3 DEF Deletions, Away, SentToLiving, DeleteIsLast
  <1>11. ASSUME NEW t \in Timers, Expire(t)
        PROVE  Deletions'
    <2>a. /\ UNCHANGED <<cmds, deleted>> /\ fresh' \subseteq fresh /\ UNCHANGED <<claimed,
                         cancelled, cur, dpc, call, at>>
          /\ queued' = queued \/ (t \in attached /\ queued' = queued \cup {t})
      BY <1>11 DEF Expire, Enqueue, blockVars, flagVars, listVars, daemonVars, dispVars, callVars
    <2>1. SentToLiving' /\ DeleteIsLast' /\ \A x \in Timers : Doomed(x)' => Doomed(x)
      BY <2>a, DoomedStill
    <2>2. ASSUME NEW x \in Timers, Doomed(x) PROVE Away(x)'
      <3>1. Away(x) /\ x \notin attached
        BY <2>2, DeletionsParts, NotDoomed
      <3> QED BY <2>a, <3>1 DEF Away
    <2> QED BY <2>1, <2>2, DeletionsParts DEF Deletions, Away, SentToLiving, DeleteIsLast
  <1>12. CASE TakeSemaphore
    <2>a. /\ UNCHANGED <<cmds, deleted>> /\ fresh' \subseteq fresh /\ UNCHANGED <<queued, claimed,
                         cancelled, call, at, cur>>
          /\ dpc' # "delete"
      BY <1>12 DEF TakeSemaphore, At, Walk, TakeFires, blockVars, flagVars, listVars, daemonVars,
         dispVars, callVars
    <2>1. SentToLiving' /\ DeleteIsLast' /\ \A x \in Timers : Doomed(x)' => Doomed(x)
      BY <2>a, DoomedStill
    <2>2. ASSUME NEW x \in Timers, Doomed(x) PROVE Away(x)'
      BY <2>a, <2>2, DeletionsParts DEF Away
    <2> QED BY <2>1, <2>2, DeletionsParts DEF Deletions, Away, SentToLiving, DeleteIsLast
  <1>13. CASE DetachList
    <2>a. /\ UNCHANGED <<cmds, deleted>> /\ fresh' \subseteq fresh /\ UNCHANGED <<queued, claimed,
                         cancelled, call, at>>
          /\ dpc' # "delete"
      BY <1>13 DEF DetachList, At, Walk, TakeFires, blockVars, flagVars, listVars, daemonVars,
         dispVars, callVars
    <2>1. SentToLiving' /\ DeleteIsLast' /\ \A x \in Timers : Doomed(x)' => Doomed(x)
      BY <2>a, DoomedStill
    <2>2. ASSUME NEW x \in Timers, Doomed(x) PROVE Away(x)'
      BY <2>a, <2>2, DeletionsParts DEF Away
    <2> QED BY <2>1, <2>2, DeletionsParts DEF Deletions, Away, SentToLiving, DeleteIsLast
  <1>14. CASE ReadNext
    <2>a. /\ UNCHANGED <<cmds, deleted>> /\ fresh' \subseteq fresh /\ UNCHANGED <<queued, claimed,
                         cancelled, call, at, cur>>
          /\ dpc' # "delete"
      BY <1>14 DEF ReadNext, At, Walk, TakeFires, blockVars, flagVars, listVars, daemonVars,
         dispVars, callVars
    <2>1. SentToLiving' /\ DeleteIsLast' /\ \A x \in Timers : Doomed(x)' => Doomed(x)
      BY <2>a, DoomedStill
    <2>2. ASSUME NEW x \in Timers, Doomed(x) PROVE Away(x)'
      BY <2>a, <2>2, DeletionsParts DEF Away
    <2> QED BY <2>1, <2>2, DeletionsParts DEF Deletions, Away, SentToLiving, DeleteIsLast
  <1>15. CASE Claim
    <2>a. /\ UNCHANGED <<cmds, deleted>> /\ fresh' \subseteq fresh /\ UNCHANGED <<queued,
                         cancelled, call, at, cur>>
          /\ dpc' # "delete"
          /\ claimed' = claimed \cup {cur} /\ dpc = "claim"
      BY <1>15 DEF Claim, At, Walk, TakeFires, blockVars, flagVars, listVars, daemonVars, dispVars,
         callVars
    <2>1. SentToLiving' /\ DeleteIsLast' /\ \A x \in Timers : Doomed(x)' => Doomed(x)
      BY <2>a, DoomedStill
    <2>2. ASSUME NEW x \in Timers, Doomed(x) PROVE Away(x)'
      <3>1. cur \in Timers /\ cur \in queued
        BY <2>a, HeldBlock, Queueing DEF Holding
      <3>2. Away(x) /\ x # cur
        BY <2>2, <3>1, DeletionsParts, NotDoomed
      <3> QED BY <2>a, <3>2 DEF Away
    <2> QED BY <2>1, <2>2, DeletionsParts DEF Deletions, Away, SentToLiving, DeleteIsLast
  <1>16. CASE TakeExpiry
    <2>a. /\ UNCHANGED <<cmds, deleted>> /\ fresh' \subseteq fresh /\ UNCHANGED <<claimed,
                         cancelled, call, at, cur>>
          /\ dpc' # "delete"
          /\ queued' \subseteq queued
      BY <1>16 DEF TakeExpiry, At, Walk, TakeFires, blockVars, flagVars, listVars, daemonVars,
         dispVars, callVars
    <2>1. SentToLiving' /\ DeleteIsLast' /\ \A x \in Timers : Doomed(x)' => Doomed(x)
      BY <2>a, DoomedStill
    <2>2. ASSUME NEW x \in Timers, Doomed(x) PROVE Away(x)'
      BY <2>a, <2>2, DeletionsParts DEF Away
    <2> QED BY <2>1, <2>2, DeletionsParts DEF Deletions, Away, SentToLiving, DeleteIsLast
  <1>17. CASE WaitCommands
    <2>a. /\ UNCHANGED <<cmds, deleted>> /\ fresh' \subseteq fresh /\ UNCHANGED <<queued, claimed,
                         cancelled, call, at, cur>>
          /\ dpc' # "delete"
      BY <1>17 DEF WaitCommands, At, Walk, TakeFires, blockVars, flagVars, listVars, daemonVars,
         dispVars, callVars
    <2>1. SentToLiving' /\ DeleteIsLast' /\ \A x \in Timers : Doomed(x)' => Doomed(x)
      BY <2>a, DoomedStill
    <2>2. ASSUME NEW x \in Timers, Doomed(x) PROVE Away(x)'
      BY <2>a, <2>2, DeletionsParts DEF Away
    <2> QED BY <2>1, <2>2, DeletionsParts DEF Deletions, Away, SentToLiving, DeleteIsLast
  <1>18. CASE LockRearm
    <2>a. /\ UNCHANGED <<cmds, deleted>> /\ fresh' \subseteq fresh /\ UNCHANGED <<queued, claimed,
                         cancelled, call, at, cur>>
          /\ dpc' # "delete"
      BY <1>18 DEF LockRearm, At, Walk, TakeFires, blockVars, flagVars, listVars, daemonVars,
         dispVars, callVars
    <2>1. SentToLiving' /\ DeleteIsLast' /\ \A x \in Timers : Doomed(x)' => Doomed(x)
      BY <2>a, DoomedStill
    <2>2. ASSUME NEW x \in Timers, Doomed(x) PROVE Away(x)'
      BY <2>a, <2>2, DeletionsParts DEF Away
    <2> QED BY <2>1, <2>2, DeletionsParts DEF Deletions, Away, SentToLiving, DeleteIsLast
  <1>19. CASE RetakeExpiry
    <2>a. /\ UNCHANGED <<cmds, deleted>> /\ fresh' \subseteq fresh /\ UNCHANGED <<claimed,
                         cancelled, call, at, cur>>
          /\ dpc' # "delete"
          /\ queued' \subseteq queued
      BY <1>19 DEF RetakeExpiry, At, Walk, TakeFires, blockVars, flagVars, listVars, daemonVars,
         dispVars, callVars
    <2>1. SentToLiving' /\ DeleteIsLast' /\ \A x \in Timers : Doomed(x)' => Doomed(x)
      BY <2>a, DoomedStill
    <2>2. ASSUME NEW x \in Timers, Doomed(x) PROVE Away(x)'
      BY <2>a, <2>2, DeletionsParts DEF Away
    <2> QED BY <2>1, <2>2, DeletionsParts DEF Deletions, Away, SentToLiving, DeleteIsLast
  <1>20. CASE SendRearm
    <2>a. /\ UNCHANGED <<deleted, fresh, queued, claimed, cancelled, cur, call, at>>
          /\ dpc = "rearm" /\ dpc' = "unlock" /\ cmds' = Append(cmds, Command("arm", cur, taken))
      BY <1>20 DEF SendRearm, At, blockVars, flagVars, listVars, daemonVars, dispVars, callVars
    <2> DEFINE m == Command("arm", cur, taken)
    <2>b. m \in AnyCommand /\ ~Doomed(m.timer) /\ m.timer \notin fresh /\ m.op # "delete"
      <3>1. cur \in Timers /\ cur \in attached /\ taken \in Nat
        BY <2>a, HeldBlock, BlocksParts DEF Holding, InHand, CountTypes
      <3> QED BY <3>1, NotDoomed, CommandTypes, CommandFields
    <2>c. TRUE
      OBVIOUS
    <2>1. /\ SentToLiving' /\ DeleteIsLast'
          /\ \A x \in Timers : Doomed(x)' => Doomed(x) \/ (m.op = "delete" /\ x = m.timer)
      <3> HIDE DEF m
      <3>1. cmds' = Append(cmds, m)
        BY <2>a DEF m
      <3> QED BY <2>a, <2>b, <3>1, DoomedAppend
    <2>2. ASSUME NEW x \in Timers, Doomed(x) \/ (m.op = "delete" /\ x = m.timer) PROVE Away(x)'
      <3> HIDE DEF m
      <3> QED BY <2>a, <2>b, <2>c, <2>2, DeletionsParts DEF Away
    <2> QED BY <2>1, <2>2 DEF Deletions, Away, SentToLiving, DeleteIsLast
  <1>21. CASE UnlockRearm
    <2>a. /\ UNCHANGED <<cmds, deleted>> /\ fresh' \subseteq fresh /\ UNCHANGED <<queued, claimed,
                         cancelled, call, at, cur>>
          /\ dpc' # "delete"
      BY <1>21 DEF UnlockRearm, At, Walk, TakeFires, blockVars, flagVars, listVars, daemonVars,
         dispVars, callVars
    <2>1. SentToLiving' /\ DeleteIsLast' /\ \A x \in Timers : Doomed(x)' => Doomed(x)
      BY <2>a, DoomedStill
    <2>2. ASSUME NEW x \in Timers, Doomed(x) PROVE Away(x)'
      BY <2>a, <2>2, DeletionsParts DEF Away
    <2> QED BY <2>1, <2>2, DeletionsParts DEF Deletions, Away, SentToLiving, DeleteIsLast
  <1>22. CASE CheckRun
    <2>a. /\ UNCHANGED <<cmds, deleted>> /\ fresh' \subseteq fresh /\ UNCHANGED <<queued, claimed,
                         cancelled, call, at, cur>>
          /\ dpc' # "delete"
      BY <1>22 DEF CheckRun, At, Walk, TakeFires, blockVars, flagVars, listVars, daemonVars,
         dispVars, callVars
    <2>1. SentToLiving' /\ DeleteIsLast' /\ \A x \in Timers : Doomed(x)' => Doomed(x)
      BY <2>a, DoomedStill
    <2>2. ASSUME NEW x \in Timers, Doomed(x) PROVE Away(x)'
      BY <2>a, <2>2, DeletionsParts DEF Away
    <2> QED BY <2>1, <2>2, DeletionsParts DEF Deletions, Away, SentToLiving, DeleteIsLast
  <1>23. CASE StartTask
    <2>a. /\ UNCHANGED <<cmds, deleted>> /\ fresh' \subseteq fresh /\ UNCHANGED <<queued, claimed,
                         cancelled, call, at, cur>>
          /\ dpc' # "delete"
      BY <1>23 DEF StartTask, At, Walk, TakeFires, blockVars, flagVars, listVars, daemonVars,
         dispVars, callVars
    <2>1. SentToLiving' /\ DeleteIsLast' /\ \A x \in Timers : Doomed(x)' => Doomed(x)
      BY <2>a, DoomedStill
    <2>2. ASSUME NEW x \in Timers, Doomed(x) PROVE Away(x)'
      BY <2>a, <2>2, DeletionsParts DEF Away
    <2> QED BY <2>1, <2>2, DeletionsParts DEF Deletions, Away, SentToLiving, DeleteIsLast
  <1>24. CASE EndTask
    <2>a. /\ UNCHANGED <<cmds, deleted>> /\ fresh' \subseteq fresh /\ UNCHANGED <<queued, claimed,
                         cancelled, call, at, cur>>
          /\ dpc' # "delete"
      BY <1>24 DEF EndTask, At, Walk, TakeFires, blockVars, flagVars, listVars, daemonVars,
         dispVars, callVars
    <2>1. SentToLiving' /\ DeleteIsLast' /\ \A x \in Timers : Doomed(x)' => Doomed(x)
      BY <2>a, DoomedStill
    <2>2. ASSUME NEW x \in Timers, Doomed(x) PROVE Away(x)'
      BY <2>a, <2>2, DeletionsParts DEF Away
    <2> QED BY <2>1, <2>2, DeletionsParts DEF Deletions, Away, SentToLiving, DeleteIsLast
  <1>25. CASE Release
    <2>a. /\ UNCHANGED <<cmds, deleted>> /\ fresh' \subseteq fresh /\ UNCHANGED <<queued,
                         cancelled, call, at>>
          /\ claimed' = claimed \ {cur} /\ dpc = "release" /\ (dpc' = "delete" => cur' = cur)
      BY <1>25 DEF Release, At, Walk, TakeFires, blockVars, flagVars, listVars, daemonVars,
         dispVars, callVars
    <2>1. SentToLiving' /\ DeleteIsLast' /\ \A x \in Timers : Doomed(x)' => Doomed(x)
      BY <2>a, DoomedStill
    <2>2. ASSUME NEW x \in Timers, Doomed(x) PROVE Away(x)'
      <3>1. cur \in Timers /\ cur \in claimed
        BY <2>a, HeldBlock, BlocksParts DEF Holding, InHand, Claiming
      <3>2. Away(x) /\ x # cur
        BY <2>2, <3>1, DeletionsParts, NotDoomed
      <3> QED BY <2>a, <3>2 DEF Away
    <2> QED BY <2>1, <2>2, DeletionsParts DEF Deletions, Away, SentToLiving, DeleteIsLast
  <1>26. CASE DeleteTimer
    <2>a. /\ UNCHANGED <<deleted, fresh, queued, claimed, cancelled, cur, call, at>>
          /\ dpc = "delete" /\ dpc' = "free" /\ cmds' = Append(cmds, Command("delete", cur, 0))
      BY <1>26 DEF DeleteTimer, At, blockVars, flagVars, listVars, daemonVars, dispVars, callVars
    <2> DEFINE m == Command("delete", cur, 0)
    <2>b. m \in AnyCommand /\ ~Doomed(m.timer) /\ m.timer \notin fresh /\ m.timer = cur
      <3>1. cur \in Timers /\ cur \in cancelled
        BY <2>a, HeldBlock, BlocksParts DEF Holding, InHand
      <3>2. ~Doomed(cur)
        BY <2>a, <3>1, DeletionsParts DEF Away
      <3> QED BY <3>1, <3>2, NotDoomed, CommandTypes, CommandFields
    <2>c. Away(cur)'
      BY <2>a, BlocksParts DEF Away, InHand, Claiming
    <2>1. /\ SentToLiving' /\ DeleteIsLast'
          /\ \A x \in Timers : Doomed(x)' => Doomed(x) \/ (m.op = "delete" /\ x = m.timer)
      <3> HIDE DEF m
      <3>1. cmds' = Append(cmds, m)
        BY <2>a DEF m
      <3> QED BY <2>a, <2>b, <3>1, DoomedAppend
    <2>2. ASSUME NEW x \in Timers, Doomed(x) \/ (m.op = "delete" /\ x = m.timer) PROVE Away(x)'
      <3> HIDE DEF m
      <3> QED BY <2>a, <2>b, <2>c, <2>2, DeletionsParts DEF Away
    <2> QED BY <2>1, <2>2 DEF Deletions, Away, SentToLiving, DeleteIsLast
  <1>27. CASE FreeBlock
    <2>a. /\ UNCHANGED <<cmds, deleted>> /\ fresh' \subseteq fresh /\ UNCHANGED <<queued, claimed,
                         cancelled, call, at>>
          /\ dpc' # "delete"
      BY <1>27 DEF FreeBlock, At, Walk, TakeFires, blockVars, flagVars, listVars, daemonVars,
         dispVars, callVars
    <2>1. SentToLiving' /\ DeleteIsLast' /\ \A x \in Timers : Doomed(x)' => Doomed(x)
      BY <2>a, DoomedStill
    <2>2. ASSUME NEW x \in Timers, Doomed(x) PROVE Away(x)'
      BY <2>a, <2>2, DeletionsParts DEF Away
    <2> QED BY <2>1, <2>2, DeletionsParts DEF Deletions, Away, SentToLiving, DeleteIsLast
  <1> QED BY <1>1, <1>2, <1>3, <1>4, <1>5, <1>6, <1>7, <1>8, <1>9, <1>10, <1>11, <1>12, <1>13,
             <1>14, <1>15, <1>16, <1>17, <1>18, <1>19, <1>20, <1>21, <1>22, <1>23, <1>24, <1>25,
             <1>26, <1>27 DEF SchedulerNext, Using, Calling, Daemon, Dispatching

(* A command behind k others is in order.                                  *)
InOrder(m, k) ==
    /\ m.seq <= seq[m.timer]
    /\ m.op = "arm" /\ m.seq # seq[m.timer] => Held(m.timer, k)
    /\ m.op = "stop" => Held(m.timer, k)
    /\ Current(m) => Still(m.timer, k)
(* Task c is sending the commands of a reset or stop.                      *)
Sending(c) == at[c] = "send" /\ call[c].op \in {"reset", "stop"}
(* What is still to be sent will be in order.                              *)
Ahead(c) ==
    Sending(c) => /\ Len(todo[c]) = 2 => Still(call[c].timer, Len(cmds))
                  /\ Head(todo[c]).op # "arm" => Held(call[c].timer, Len(cmds))
(* A count-down of a timer that runs belongs to its latest reset.          *)
Armed == \A t \in active \ stopped : armSeq[t] = seq[t]

(* Seqs from its parts.                                                    *)
LEMMA SeqsParts == Seqs <=> /\ \A i \in 1..Len(cmds) : InOrder(cmds[i], i - 1)
                            /\ \A c \in Tasks : Ahead(c)
                            /\ Armed /\ NoStaleExpiry
  BY DEF Seqs, InOrder, Ahead, Armed, Sending

(* Two resets or stops are never on their way at once.                     *)
LEMMA OneMarked ==
    ASSUME CallsOK, NEW c \in Tasks, mutex = c
    PROVE  \A d \in Tasks \ {c} : ~Sending(d)
  BY CallsParts DEF CallOf, Sending

(* A timer stays held when only others are stopped.                        *)
LEMMA HeldStill ==
    ASSUME UNCHANGED <<cmds, seq, stopped>>, active' \subseteq active,
           NEW t \in Timers, NEW k \in Nat
    PROVE  (Held(t, k) => Held(t, k)') /\ (Still(t, k) => Still(t, k)')
  BY DEF Held, Still, Current

(* Commands stay in order when nothing they speak of moves;                *)
LEMMA QueueCalm ==
    ASSUME SchedulerTypes, Seqs, UNCHANGED <<cmds, seq, stopped, armSeq>>, active' \subseteq active,
           \A c \in Tasks : Sending(c)' => Sending(c) /\ call'[c] = call[c] /\ todo'[c] = todo[c],
           CallsOK
    PROVE  /\ \A i \in 1..Len(cmds') : InOrder(cmds[i], i - 1)'
           /\ \A c \in Tasks : Ahead(c)'
           /\ Armed'
  <1>1. cmds \in Seq(AnyCommand) /\ Len(cmds) \in Nat
    BY SeqLen DEF SchedulerTypes, CallTypes
  <1>2. ASSUME NEW i \in 1..Len(cmds') PROVE InOrder(cmds[i], i - 1)'
    <2>1. InOrder(cmds[i], i - 1) /\ i - 1 \in Nat /\ cmds[i] \in AnyCommand /\ cmds'[i] = cmds[i]
      BY <1>1, SeqsParts
    <2>2. PICK m \in AnyCommand : m = cmds[i]
      BY <2>1
    <2>3. m.timer \in Timers
      BY DEF AnyCommand
    <2>4. InOrder(m, i - 1)'
      BY <2>1, <2>2, <2>3, HeldStill DEF InOrder, Current
    <2> QED BY <2>1, <2>2, <2>4 DEF InOrder
  <1>3. ASSUME NEW c \in Tasks PROVE Ahead(c)'
    <2> SUFFICES ASSUME Sending(c)' PROVE Ahead(c)'
      BY DEF Ahead
    <2>1. Sending(c) /\ call'[c] = call[c] /\ todo'[c] = todo[c] /\ Ahead(c)
      BY SeqsParts
    <2>2. call[c].timer \in Timers
      BY <2>1, ActiveCall DEF SchedulerTypes, Sending
    <2>3. PICK t \in Timers : t = call[c].timer
      BY <2>2
    <2>4. PICK k \in Nat : k = Len(cmds)
      BY <1>1
    <2> QED BY <2>1, <2>3, <2>4, HeldStill DEF Ahead
  <1>4. Armed'
    BY SeqsParts DEF Armed
  <1> QED BY <1>2, <1>3, <1>4

(* so does the whole of Seqs.                                              *)
LEMMA SeqsCalm ==
    ASSUME SchedulerTypes, Seqs, UNCHANGED <<cmds, seq, stopped, armSeq, fireSeq>>,
           active' \subseteq active,
           \A c \in Tasks : Sending(c)' => Sending(c) /\ call'[c] = call[c] /\ todo'[c] = todo[c],
           \A t \in Timers : fires'[t] > 0 => fires[t] > 0, CallsOK
    PROVE  Seqs'
  <1>1. /\ \A i \in 1..Len(cmds') : InOrder(cmds[i], i - 1)'
        /\ \A c \in Tasks : Ahead(c)'
        /\ Armed'
    BY QueueCalm
  <1>2. NoStaleExpiry'
    BY SeqsParts DEF NoStaleExpiry
  <1> QED BY <1>1, <1>2 DEF Seqs, InOrder, Ahead, Armed, Sending

(* A command at the end of the queue changes what holds before the earlier *)
(* ones in nothing, and at the end only if it publishes or arms.           *)
LEMMA HeldAppend ==
    ASSUME CallTypes, NEW m \in AnyCommand, cmds' = Append(cmds, m), UNCHANGED <<seq, stopped,
                                                                                 active>>,
           NEW t \in Timers, NEW n, n = Len(cmds)
    PROVE  /\ \A k \in 0..n : (Held(t, k)' <=> Held(t, k)) /\ (Still(t, k)' <=> Still(t, k))
           /\ Held(t, n) /\ (m.timer = t => ~Current(m)) => Held(t, n + 1)'
           /\ Still(t, n) /\ (m.timer = t => m.op # "arm") => Still(t, n + 1)'
           /\ m.timer = t /\ m.op \in {"stop", "delete"} => Still(t, n + 1)'
  <1>1. /\ n \in Nat /\ Len(cmds') = n + 1 /\ cmds'[n + 1] = m
        /\ \A i \in 1..n : cmds'[i] = cmds[i]
    BY Appended
  <1>2. ASSUME NEW k \in 0..n PROVE (Held(t, k)' <=> Held(t, k)) /\ (Still(t, k)' <=> Still(t, k))
    <2>1. \A j \in 1..k : cmds'[j] = cmds[j]
      BY <1>1
    <2>2. \A j \in 1..k : \A l \in (j+1)..k : cmds'[l] = cmds[l]
      BY <1>1
    <2>3. \A j : Current(cmds[j])' <=> cmds'[j].op = "publish" /\ cmds'[j].seq = seq[cmds'[j].timer]
      BY DEF Current
    <2>4. Held(t, k)' <=> Held(t, k)
      BY <2>1, <2>3 DEF Held, Current
    <2>5. Still(t, k)' <=> Still(t, k)
      BY <2>1, <2>2 DEF Still
    <2> QED BY <2>4, <2>5
  <1>3. ASSUME Held(t, n), m.timer = t => ~Current(m) PROVE Held(t, n + 1)'
    <2>1. \A j \in 1..(n + 1) : j \in 1..n \/ j = n + 1
      BY <1>1
    <2>2. \A j \in 1..(n + 1) : cmds'[j].timer = t => ~Current(cmds'[j])
      BY <1>1, <1>3, <2>1 DEF Held
    <2>3. \A j \in 1..(n + 1) : cmds'[j].timer = t => ~Current(cmds[j])'
      BY <2>2 DEF Current
    <2> QED BY <1>3, <2>3 DEF Held
  <1>4. ASSUME Still(t, n), m.timer = t => m.op # "arm" PROVE Still(t, n + 1)'
    <2>1. \A j \in 1..(n + 1) : j \in 1..n \/ j = n + 1
      BY <1>1
    <2>2. CASE t \notin active /\ \A j \in 1..n : cmds[j].timer = t => cmds[j].op # "arm"
      BY <1>1, <1>4, <2>1, <2>2 DEF Still
    <2>3. CASE \E j \in 1..n : /\ cmds[j].timer = t /\ cmds[j].op \in {"stop", "delete"}
                              /\ \A l \in (j+1)..n : cmds[l].timer = t => cmds[l].op # "arm"
      <3>1. PICK j \in 1..n : /\ cmds[j].timer = t /\ cmds[j].op \in {"stop", "delete"}
                              /\ \A l \in (j+1)..n : cmds[l].timer = t => cmds[l].op # "arm"
        BY <2>3
      <3>2. ASSUME NEW l \in (j+1)..(n + 1), cmds'[l].timer = t PROVE cmds'[l].op # "arm"
        <4>1. l = n + 1 \/ l \in (j+1)..n
          BY <1>1
        <4>2. CASE l = n + 1
          BY <1>1, <1>4, <3>2, <4>2
        <4>3. CASE l \in (j+1)..n
          <5>1. cmds'[l] = cmds[l]
            BY <1>1, <4>3
          <5> QED BY <3>1, <3>2, <4>3, <5>1
        <4> QED BY <4>1, <4>2, <4>3
      <3>3. j \in 1..(n + 1) /\ cmds'[j] = cmds[j]
        BY <1>1
      <3> QED BY <3>1, <3>2, <3>3 DEF Still
    <2> QED BY <1>4, <2>2, <2>3 DEF Still
  <1>5. ASSUME m.timer = t, m.op \in {"stop", "delete"} PROVE Still(t, n + 1)'
    <2>1. n + 1 \in 1..(n + 1) /\ (n + 1 + 1)..(n + 1) = {}
      BY <1>1
    <2> QED BY <1>1, <1>5, <2>1 DEF Still
  <1> QED BY <1>2, <1>3, <1>4, <1>5

(* Appending a command that is in order at the end.                        *)
LEMMA SeqsAppend ==
    ASSUME SchedulerTypes, CallsOK, Seqs, NEW m \in AnyCommand, cmds' = Append(cmds, m),
           UNCHANGED <<seq, stopped, active, armSeq, fireSeq, fires, call>>,
           InOrder(m, Len(cmds)),
           \A c \in Tasks : Sending(c)' => \/ /\ Sending(c) /\ todo'[c] = todo[c]
                                             /\ (call[c].timer # m.timer \/ m.op = "delete")
                                          \/ Ahead(c)'
    PROVE  Seqs'
  <1>1. PICK n \in Nat : n = Len(cmds)
    BY SeqLen DEF SchedulerTypes, CallTypes
  <1>2. /\ Len(cmds') = n + 1 /\ cmds'[n + 1] = m /\ m.timer \in Timers
        /\ \A i \in 1..n : cmds'[i] = cmds[i] /\ cmds[i] \in AnyCommand
    <2>1. m.timer \in Timers
      BY DEF AnyCommand
    <2>2. \A i \in 1..n : cmds[i] \in AnyCommand
      BY <1>1 DEF SchedulerTypes, CallTypes
    <2> QED BY <1>1, <2>1, <2>2, Appended DEF SchedulerTypes
  <1>3. ASSUME NEW e \in AnyCommand, NEW k \in 0..n, InOrder(e, k) PROVE InOrder(e, k)'
    <2>1. e.timer \in Timers
      BY DEF AnyCommand
    <2>2. (Held(e.timer, k)' <=> Held(e.timer, k)) /\ (Still(e.timer, k)' <=> Still(e.timer, k))
      BY <1>1, <2>1, HeldAppend DEF SchedulerTypes
    <2> QED BY <1>3, <2>2 DEF InOrder, Current
  <1>4. ASSUME NEW i \in 1..Len(cmds') PROVE InOrder(cmds[i], i - 1)'
    <2>1. CASE i \in 1..n
      <3>1. i - 1 \in 0..n /\ InOrder(cmds[i], i - 1)
        BY <1>1, <2>1, SeqsParts
      <3>2. PICK e \in AnyCommand : e = cmds[i] /\ e = cmds'[i]
        BY <1>2, <2>1
      <3>3. InOrder(e, i - 1)'
        BY <1>3, <3>1, <3>2
      <3> QED BY <3>2, <3>3 DEF InOrder
    <2>2. CASE i = n + 1
      <3>1. n \in 0..n /\ i - 1 = n
        BY <2>2
      <3>2. InOrder(m, n)'
        BY <1>1, <1>3, <3>1
      <3> QED BY <1>2, <2>2, <3>1, <3>2 DEF InOrder
    <2> QED BY <1>2, <2>1, <2>2
  <1>5. ASSUME NEW c \in Tasks PROVE Ahead(c)'
    <2> SUFFICES ASSUME Sending(c)', Sending(c), todo'[c] = todo[c],
                        call[c].timer # m.timer \/ m.op = "delete"
                 PROVE  Ahead(c)'
      BY DEF Ahead
    <2>1. PICK t \in Timers : t = call[c].timer
      BY ActiveCall DEF SchedulerTypes, Sending
    <2>2. (Held(t, n) => Held(t, n + 1)') /\ (Still(t, n) => Still(t, n + 1)')
      <3>1. m.timer = t => ~Current(m) /\ m.op # "arm"
        BY <2>1 DEF Current
      <3> QED BY <1>1, <3>1, HeldAppend DEF SchedulerTypes
    <2>3. /\ Len(todo[c]) = 2 => Still(t, n)
          /\ Head(todo[c]).op # "arm" => Held(t, n)
      BY <1>1, <2>1, SeqsParts DEF Ahead
    <2>4. call'[c].timer = t /\ todo'[c] = todo[c] /\ Len(cmds') = n + 1
      BY <1>2, <2>1
    <2> QED BY <2>2, <2>3, <2>4 DEF Ahead
  <1>6. Armed' /\ NoStaleExpiry'
    BY SeqsParts DEF Armed, NoStaleExpiry
  <1> QED BY <1>4, <1>5, <1>6 DEF Seqs, InOrder, Ahead, Armed, Sending

(* A reset or stop outdates every command of its timer.                    *)
LEMMA Outdated ==
    ASSUME SchedulerTypes, CallsOK, Seqs, NEW c \in Tasks, MarkReset(c) \/ MarkStop(c),
           NEW t \in Timers, t = call[c].timer
    PROVE  \A i \in 1..Len(cmds) : Current(cmds[i])' => Current(cmds[i]) /\ cmds[i].timer # t
  <1>2. /\ seq[t] + 1 \in Nat /\ at[c] = "mark" /\ call[c].op \in {"reset", "stop"}
        /\ seq' = [seq EXCEPT ![t] = seq[t] + 1] /\ stopped' = stopped \cup {t}
        /\ fires' = [fires EXCEPT ![t] = 0] /\ at' = [at EXCEPT ![c] = "send"]
        /\ call[c].op = "reset" =>
              todo' = [todo EXCEPT ![c] =
                         <<Command("stop", t, seq[t] + 1), Command("publish", t, seq[t] + 1),
                           Command("arm", t, seq[t] + 1)>>]
        /\ call[c].op = "stop" => todo' = [todo EXCEPT ![c] = <<Command("stop", t, seq[t] + 1)>>]
        /\ UNCHANGED <<cmds, active, armSeq, call, fireSeq>>
    BY Marked DEF SchedulerTypes
  <1>3. /\ cmds \in Seq(AnyCommand) /\ seq \in [Timers -> Nat] /\ fires \in [Timers -> Nat]
        /\ at \in [Tasks -> Places] /\ todo \in [Tasks -> Seq(AnyCommand)] /\ Len(cmds) \in Nat
    BY SeqLen DEF SchedulerTypes, CallTypes, CountTypes
  <1>4. /\ seq'[t] = seq[t] + 1 /\ seq[t] \in Nat /\ fires'[t] = 0
        /\ \A x \in Timers : x # t => seq'[x] = seq[x] /\ fires'[x] = fires[x]
    BY <1>2, <1>3
  <1>5. \A i \in 1..Len(cmds) : /\ cmds[i] \in AnyCommand /\ cmds[i].timer \in Timers /\ cmds[i].seq \in Nat
                                /\ InOrder(cmds[i], i - 1) /\ i - 1 \in 0..Len(cmds)
    <2>1. \A i \in 1..Len(cmds) : cmds[i] \in AnyCommand /\ i - 1 \in 0..Len(cmds)
      BY <1>3
    <2>2. \A i \in 1..Len(cmds) : cmds[i].timer \in Timers /\ cmds[i].seq \in Nat
      BY <2>1 DEF AnyCommand
    <2> QED BY <2>1, <2>2, SeqsParts
  <1>6. \A i \in 1..Len(cmds) : cmds[i].timer = t => cmds[i].seq < seq'[t]
    <2> SUFFICES ASSUME NEW i \in 1..Len(cmds), cmds[i].timer = t PROVE cmds[i].seq < seq'[t]
      OBVIOUS
    <2>1. cmds[i].seq <= seq[t] /\ cmds[i].seq \in Nat
      BY <1>5 DEF InOrder
    <2> QED BY <1>4, <2>1
  <1>7. \A i \in 1..Len(cmds) : Current(cmds[i])' => Current(cmds[i]) /\ cmds[i].timer # t
    <2> SUFFICES ASSUME NEW i \in 1..Len(cmds), Current(cmds[i])'
                 PROVE  Current(cmds[i]) /\ cmds[i].timer # t
      OBVIOUS
    <2>1. cmds[i].op = "publish" /\ cmds[i].seq = seq'[cmds[i].timer] /\ cmds[i].timer \in Timers
      BY <1>2, <1>5 DEF Current
    <2>2. cmds[i].timer # t
      <3>1. SUFFICES ASSUME cmds[i].timer = t PROVE FALSE
        OBVIOUS
      <3>2. cmds[i].seq < seq'[t] /\ cmds[i].seq = seq'[t] /\ seq'[t] \in Nat
        BY <1>2, <1>4, <1>6, <2>1, <3>1
      <3> QED BY <3>2
    <2> QED BY <1>4, <2>1, <2>2 DEF Current
  <1> QED BY <1>7

(* A reset or stop.                                                         *)
LEMMA SeqsMarked ==
    ASSUME SchedulerTypes, CallsOK, Seqs, NEW c \in Tasks, MarkReset(c) \/ MarkStop(c)
    PROVE  Seqs'
  <1>1. PICK t \in Timers : t = call[c].timer
    BY Marked DEF SchedulerTypes
  <1>2. /\ seq[t] + 1 \in Nat /\ at[c] = "mark" /\ call[c].op \in {"reset", "stop"}
        /\ seq' = [seq EXCEPT ![t] = seq[t] + 1] /\ stopped' = stopped \cup {t}
        /\ fires' = [fires EXCEPT ![t] = 0] /\ at' = [at EXCEPT ![c] = "send"]
        /\ call[c].op = "reset" =>
              todo' = [todo EXCEPT ![c] =
                         <<Command("stop", t, seq[t] + 1), Command("publish", t, seq[t] + 1),
                           Command("arm", t, seq[t] + 1)>>]
        /\ call[c].op = "stop" => todo' = [todo EXCEPT ![c] = <<Command("stop", t, seq[t] + 1)>>]
        /\ UNCHANGED <<cmds, active, armSeq, call, fireSeq>>
    BY <1>1, Marked DEF SchedulerTypes
  <1>3. /\ cmds \in Seq(AnyCommand) /\ seq \in [Timers -> Nat] /\ fires \in [Timers -> Nat]
        /\ at \in [Tasks -> Places] /\ todo \in [Tasks -> Seq(AnyCommand)] /\ Len(cmds) \in Nat
    BY SeqLen DEF SchedulerTypes, CallTypes, CountTypes
  <1>4. /\ seq'[t] = seq[t] + 1 /\ seq[t] \in Nat /\ fires'[t] = 0
        /\ \A x \in Timers : x # t => seq'[x] = seq[x] /\ fires'[x] = fires[x]
    BY <1>2, <1>3
  <1>5. \A i \in 1..Len(cmds) : /\ cmds[i] \in AnyCommand /\ cmds[i].timer \in Timers /\ cmds[i].seq \in Nat
                                /\ InOrder(cmds[i], i - 1) /\ i - 1 \in 0..Len(cmds)
    <2>1. \A i \in 1..Len(cmds) : cmds[i] \in AnyCommand /\ i - 1 \in 0..Len(cmds)
      BY <1>3
    <2>2. \A i \in 1..Len(cmds) : cmds[i].timer \in Timers /\ cmds[i].seq \in Nat
      BY <2>1 DEF AnyCommand
    <2> QED BY <2>1, <2>2, SeqsParts
  <1>7. \A i \in 1..Len(cmds) : Current(cmds[i])' => Current(cmds[i]) /\ cmds[i].timer # t
    BY <1>1, Outdated
  <1>8. ASSUME NEW x \in Timers, NEW k \in 0..Len(cmds)
        PROVE  /\ Held(x, k) \/ x = t => Held(x, k)'
               /\ Still(x, k) => Still(x, k)'
    <2>1. \A j \in 1..k : j \in 1..Len(cmds)
      BY <1>3
    <2>2. Held(x, k) => Held(x, k)'
      BY <1>2, <1>7, <2>1 DEF Held
    <2>3. Held(t, k)'
      BY <1>2, <1>7, <2>1 DEF Held
    <2>4. Still(x, k) => Still(x, k)'
      BY <1>2 DEF Still
    <2> QED BY <2>2, <2>3, <2>4
  <1>9. ASSUME NEW i \in 1..Len(cmds') PROVE InOrder(cmds[i], i - 1)'
    <2>1. PICK m \in AnyCommand : m = cmds[i] /\ m = cmds'[i]
      BY <1>2, <1>5
    <2>2. /\ m.timer \in Timers /\ m.seq \in Nat /\ InOrder(m, i - 1) /\ i - 1 \in 0..Len(cmds)
          /\ Current(m)' => Current(m)
      BY <1>2, <1>5, <1>7, <2>1 DEF Current
    <2>3. m.seq <= seq'[m.timer]
      <3>1. m.seq <= seq[m.timer] /\ seq[m.timer] \in Nat
        BY <1>3, <2>2 DEF InOrder
      <3>2. CASE m.timer = t
        BY <1>4, <2>2, <3>1, <3>2
      <3>3. CASE m.timer # t
        BY <1>4, <2>2, <3>1, <3>3
      <3> QED BY <3>2, <3>3
    <2>4. m.seq # seq'[m.timer] => m.seq # seq[m.timer] \/ m.timer = t
      BY <1>4, <2>2
    <2>5. InOrder(m, i - 1)'
      BY <1>8, <2>2, <2>3, <2>4 DEF InOrder
    <2> QED BY <2>1, <2>5 DEF InOrder
  <1>10. ASSUME NEW d \in Tasks PROVE Ahead(d)'
    <2>1. CASE d = c
      <3>1. Held(t, Len(cmds))'
        <4>1. PICK k \in 0..Len(cmds) : k = Len(cmds)
          BY <1>3
        <4>2. Held(t, k)'
          BY <1>8
        <4> QED BY <1>2, <4>1, <4>2 DEF Held
      <3>2. call[c].op = "reset" => Len(todo'[c]) = 3
        BY <1>2, <1>3, Tuples
      <3>3. call[c].op = "stop" => Len(todo'[c]) = 1
        BY <1>2, <1>3, Tuples
      <3>4. call'[c].timer = t /\ cmds' = cmds /\ Len(todo'[c]) # 2
        BY <1>1, <1>2, <3>2, <3>3
      <3> QED BY <2>1, <3>1, <3>4, <1>2 DEF Ahead, Held, Current
    <2>2. CASE d # c
      <3>1. mutex = c
        BY <1>2, CallsParts DEF CallOf
      <3>2. ~Sending(d)
        BY <2>2, <3>1, OneMarked
      <3>3. ~Sending(d)'
        BY <1>2, <1>3, <2>2, <3>2 DEF Sending
      <3> QED BY <3>3 DEF Ahead
    <2> QED BY <2>1, <2>2
  <1>11. Armed'
    BY <1>2, <1>4, SeqsParts DEF Armed, SchedulerTypes, SetTypes
  <1>12. NoStaleExpiry'
    BY <1>2, <1>4, SeqsParts DEF NoStaleExpiry
  <1> QED BY <1>9, <1>10, <1>11, <1>12 DEF Seqs, InOrder, Ahead, Armed, Sending

(* The first command runs.                                                 *)
LEMMA SeqsRun ==
    ASSUME SchedulerTypes, CallsOK, Seqs, RunCommand
    PROVE  Seqs'
  <1>1. PICK m : m = cmds[1]
    OBVIOUS
  <1>2. PICK n \in Nat : n + 1 = Len(cmds)
    <2>1. Len(cmds) \in Nat \ {0}
      BY Ran DEF SchedulerTypes
    <2>2. Len(cmds) - 1 \in Nat /\ (Len(cmds) - 1) + 1 = Len(cmds)
      BY <2>1
    <2> QED BY <2>2
  <1>3. /\ m.timer \in Timers /\ m.seq \in Nat /\ Len(cmds') = n
        /\ \A i \in 1..n : cmds'[i] = cmds[i + 1] /\ i + 1 \in 1..(n + 1)
        /\ active' = IF m.op = "arm" THEN active \cup {m.timer}
                     ELSE IF m.op = "publish" THEN active ELSE active \ {m.timer}
        /\ armSeq' = IF m.op = "arm" THEN [armSeq EXCEPT ![m.timer] = m.seq] ELSE armSeq
        /\ \/ /\ m.op = "publish" /\ m.timer \in attached /\ seq[m.timer] = m.seq
              /\ left' = [left EXCEPT ![m.timer] = resetTo[m.timer]]
              /\ fires' = [fires EXCEPT ![m.timer] = 0]
              /\ stopped' = stopped \ {m.timer}
           \/ /\ UNCHANGED <<left, fires, stopped>>
              /\ ~(m.op = "publish" /\ m.timer \in attached /\ seq[m.timer] = m.seq)
        /\ UNCHANGED <<seq, at, call, todo, fireSeq>>
    BY <1>1, <1>2, Ran DEF SchedulerTypes
  <1>4. 1 \in 1..(n + 1) /\ 1 - 1 = 0 /\ InOrder(m, 0)
    BY <1>1, <1>2, SeqsParts
  <1>5. ASSUME NEW t \in Timers, NEW k \in 0..n, Held(t, k + 1) PROVE Held(t, k)'
    <2>1. 1 \in 1..(k + 1) /\ \A j \in 1..k : j + 1 \in 1..(k + 1) /\ j \in 1..n
      BY <1>2
    <2>2. t \in stopped /\ \A j \in 1..(k + 1) : cmds[j].timer = t => ~Current(cmds[j])
      BY <1>5 DEF Held
    <2>3. m.timer = t => ~(m.op = "publish" /\ seq[m.timer] = m.seq)
      BY <1>1, <2>1, <2>2 DEF Current
    <2>4. t \in stopped'
      BY <1>3, <2>2, <2>3
    <2>5. ASSUME NEW j \in 1..k, cmds'[j].timer = t PROVE ~Current(cmds[j])'
      <3>1. j + 1 \in 1..(k + 1) /\ cmds'[j] = cmds[j + 1]
        BY <1>3, <2>1
      <3>2. ~Current(cmds[j + 1])
        BY <2>2, <2>5, <3>1
      <3> QED BY <3>1, <3>2, <1>3 DEF Current
    <2> QED BY <2>4, <2>5 DEF Held
  <1>6. ASSUME NEW t \in Timers, NEW k \in 0..n, Still(t, k + 1) PROVE Still(t, k)'
    <2>1. /\ 1 \in 1..(k + 1) /\ k + 1 \in 1..(n + 1)
          /\ \A j \in 1..k : j + 1 \in 1..(k + 1) /\ j \in 1..n /\ cmds'[j] = cmds[j + 1]
      BY <1>2, <1>3
    <2>2. CASE t \notin active /\ \A j \in 1..(k + 1) : cmds[j].timer = t => cmds[j].op # "arm"
      <3>1. t \notin active'
        BY <1>1, <1>3, <2>1, <2>2
      <3> QED BY <2>1, <2>2, <3>1 DEF Still
    <2>3. CASE \E j \in 1..(k + 1) : /\ cmds[j].timer = t /\ cmds[j].op \in {"stop", "delete"}
                                    /\ \A l \in (j+1)..(k + 1) : cmds[l].timer = t => cmds[l].op # "arm"
      <3>1. PICK j \in 1..(k + 1) : /\ cmds[j].timer = t /\ cmds[j].op \in {"stop", "delete"}
                                   /\ \A l \in (j+1)..(k + 1) : cmds[l].timer = t => cmds[l].op # "arm"
        BY <2>3
      <3>2. CASE j = 1
        <4>1. t \notin active'
          BY <1>1, <1>3, <3>1, <3>2
        <4>2. \A l \in 1..k : l + 1 \in (j + 1)..(k + 1)
          BY <3>2
        <4> QED BY <2>1, <3>1, <4>1, <4>2 DEF Still
      <3>3. CASE j # 1
        <4>1. PICK i \in 1..k : i + 1 = j
          <5>1. j - 1 \in 1..k /\ (j - 1) + 1 = j
            BY <3>3
          <5> QED BY <5>1
        <4>2. cmds'[i].timer = t /\ cmds'[i].op \in {"stop", "delete"}
          BY <2>1, <3>1, <4>1
        <4>3. ASSUME NEW l \in (i + 1)..k, cmds'[l].timer = t PROVE cmds'[l].op # "arm"
          <5>1. l \in 1..k /\ l + 1 \in (j + 1)..(k + 1)
            BY <4>1
          <5> QED BY <2>1, <3>1, <4>3, <5>1
        <4> QED BY <4>2, <4>3 DEF Still
      <3> QED BY <3>2, <3>3
    <2> QED BY <1>6, <2>2, <2>3 DEF Still
  <1>7. ASSUME NEW i \in 1..Len(cmds') PROVE InOrder(cmds[i], i - 1)'
    <2>1. /\ i \in 1..n /\ i + 1 \in 1..Len(cmds) /\ i - 1 \in 0..n /\ (i - 1) + 1 = i /\ (i + 1) - 1 = i
          /\ cmds'[i] = cmds[i + 1]
      BY <1>2, <1>3
    <2>2. PICK e \in AnyCommand : e = cmds[i + 1] /\ e = cmds'[i]
      BY <2>1 DEF SchedulerTypes, CallTypes
    <2>3. InOrder(e, i) /\ e.timer \in Timers
      BY <2>1, <2>2, SeqsParts DEF AnyCommand
    <2>4. InOrder(e, i - 1)'
      <3>1. Held(e.timer, i) => Held(e.timer, i - 1)'
        BY <1>5, <2>1, <2>3
      <3>2. Still(e.timer, i) => Still(e.timer, i - 1)'
        BY <1>6, <2>1, <2>3
      <3> QED BY <1>3, <2>3, <3>1, <3>2 DEF InOrder, Current
    <2> QED BY <2>2, <2>4 DEF InOrder
  <1>8. ASSUME NEW c \in Tasks PROVE Ahead(c)'
    <2> SUFFICES ASSUME Sending(c)' PROVE Ahead(c)'
      BY DEF Ahead
    <2>1. Sending(c) /\ Ahead(c)
      BY <1>3, SeqsParts DEF Sending
    <2>2. PICK t \in Timers : t = call[c].timer
      BY <2>1, ActiveCall DEF Sending, SchedulerTypes
    <2>3. n \in 0..n
      OBVIOUS
    <2>4. (Held(t, n + 1) => Held(t, n)') /\ (Still(t, n + 1) => Still(t, n)')
      BY <1>5, <1>6, <2>3
    <2>5. /\ Len(todo[c]) = 2 => Still(t, n + 1)
          /\ Head(todo[c]).op # "arm" => Held(t, n + 1)
      BY <1>2, <2>1, <2>2 DEF Ahead
    <2> QED BY <1>3, <2>2, <2>4, <2>5 DEF Ahead
  <1>9. ASSUME NEW t \in active' \ stopped' PROVE armSeq'[t] = seq'[t]
    <2>1. armSeq \in [Timers -> Nat] /\ t \in Timers /\ seq' = seq
      BY <1>3 DEF SchedulerTypes, CountTypes, SetTypes
    <2>2. CASE m.op = "arm"
      <3>1. stopped' = stopped
        BY <1>3, <2>2
      <3>2. CASE t = m.timer
        <4>1. m.seq = seq[m.timer]
          BY <1>4, <2>2, <3>1, <3>2 DEF InOrder, Held
        <4> QED BY <1>3, <2>1, <2>2, <3>2, <4>1
      <3>3. CASE t # m.timer
        BY <1>3, <2>1, <2>2, <3>1, <3>3, SeqsParts DEF Armed
      <3> QED BY <3>2, <3>3
    <2>3. CASE m.op # "arm"
      <3>1. t \in active /\ armSeq' = armSeq
        BY <1>3, <2>3
      <3>2. CASE t \notin stopped
        BY <2>1, <3>1, <3>2, SeqsParts DEF Armed
      <3>3. CASE t \in stopped
        <4>1. m.op = "publish" /\ t = m.timer /\ seq[m.timer] = m.seq
          BY <1>3, <3>3
        <4>2. Still(m.timer, 0)
          BY <1>4, <4>1 DEF InOrder, Current
        <4>3. 1..0 = {}
          OBVIOUS
        <4>4. t \notin active
          BY <4>1, <4>2, <4>3 DEF Still
        <4> QED BY <3>1, <4>4
      <3> QED BY <3>2, <3>3
    <2> QED BY <2>2, <2>3
  <1>10. NoStaleExpiry'
    <2> SUFFICES ASSUME NEW t \in Timers, fires'[t] > 0, t \notin stopped' PROVE fireSeq'[t] = seq'[t]
      BY DEF NoStaleExpiry
    <2>1. fires \in [Timers -> Nat] /\ ~(0 > 0)
      BY DEF SchedulerTypes, CountTypes
    <2>2. fires'[t] = fires[t] /\ t \notin stopped
      BY <1>3, <2>1
    <2> QED BY <1>3, <2>2, SeqsParts DEF NoStaleExpiry
  <1> QED BY <1>7, <1>8, <1>9, <1>10 DEF Seqs, InOrder, Ahead, Armed, Sending


(* The calls send their commands in order.                                 *)
LEMMA SeqsSend ==
    ASSUME SchedulerTypes, CallsOK, Blocks, Seqs, NEW c \in Tasks, SendCommand(c)
    PROVE  Seqs'
  <1>m. PICK m \in AnyCommand : m = Head(todo[c])
    BY SendStep DEF SchedulerTypes
  <1>n. PICK n \in Nat : n = Len(cmds)
    BY SeqLen DEF SchedulerTypes, CallTypes
  <1>t. PICK t \in Timers : t = call[c].timer
    BY <1>m, SendStep DEF SchedulerTypes
  <1>s. PICK s \in Nat : s = seq[t]
    BY DEF SchedulerTypes, CountTypes
  <1>1. /\ at[c] = "send" /\ m.timer = t /\ cmds' = Append(cmds, m)
        /\ todo' = [todo EXCEPT ![c] = Tail(todo[c])]
        /\ at' = [at EXCEPT ![c] = IF Len(todo[c]) > 1 THEN "send"
                                   ELSE IF call[c].op = "cancel" THEN "free" ELSE "done"]
        /\ UNCHANGED <<fires, seq, stopped, active, armSeq, call, fireSeq>>
    BY <1>m, <1>t, SendStep DEF SchedulerTypes
  <1>2. /\ CallOf(c) /\ Ahead(c) /\ call[c].op \in {"schedule", "stop", "cancel", "reset"}
        /\ todo \in [Tasks -> Seq(AnyCommand)] /\ at \in [Tasks -> Places]
    BY <1>1, CallsParts, SeqsParts, SendFacts DEF SchedulerTypes, CallTypes
  <1>3. Len(cmds') = n + 1
    BY <1>1, <1>n, Appended DEF SchedulerTypes
  (* the other calls *)
  <1>4. ASSUME NEW d \in Tasks \ {c}, Sending(d)'
        PROVE  Sending(d) /\ todo'[d] = todo[d] /\ (call[d].timer # m.timer \/ m.op = "delete")
    <2>1. Sending(d) /\ todo'[d] = todo[d]
      BY <1>1, <1>2, <1>4 DEF Sending
    <2>2. call[c].op \in {"schedule", "cancel"} => call[d].timer # t
      BY <1>t, CallsParts DEF OneCall
    <2>3. call[c].op \notin {"schedule", "cancel"} => mutex = c
      BY <1>1, <1>2 DEF CallOf
    <2>4. mutex # c
      BY <2>1, OneMarked
    <2> QED BY <1>1, <2>1, <2>2, <2>3, <2>4
  <1>5. /\ call[c].op = "schedule" => m = Command("arm", t, 0) /\ s = 0
        /\ call[c].op = "stop" => m = Command("stop", t, s) /\ Len(todo[c]) = 1
        /\ call[c].op = "cancel" => m = Command("delete", t, 0)
        /\ call[c].op = "reset" =>
              \/ /\ m = Command("stop", t, s) /\ Len(todo[c]) = 3
                 /\ Len(Tail(todo[c])) = 2 /\ Head(Tail(todo[c])) = Command("publish", t, s)
              \/ /\ m = Command("publish", t, s) /\ Len(todo[c]) = 2
                 /\ Len(Tail(todo[c])) = 1 /\ Head(Tail(todo[c])) = Command("arm", t, s)
              \/ m = Command("arm", t, s) /\ Len(todo[c]) = 1
    <2>1. call[c].op = "schedule" => s = 0
      <3>1. call[c].op = "schedule" => seq[call[c].timer] = 0
        BY <1>2 DEF CallOf
      <3> QED BY <3>1, <1>t, <1>s, Zenon
    <2>2. CallTypes /\ CallsOK /\ at[c] = "send"
      BY <1>1 DEF SchedulerTypes
    <2>3. call[c].op = "schedule" => Head(todo[c]) = Command("arm", t, 0)
      BY <2>2, <1>s, <1>t, SendFacts
    <2>4. call[c].op = "stop" => Head(todo[c]) = Command("stop", t, s) /\ Len(todo[c]) = 1
      BY <2>2, <1>s, <1>t, SendFacts
    <2>5. call[c].op = "cancel" => Head(todo[c]) = Command("delete", t, 0)
      BY <2>2, <1>s, <1>t, SendFacts
    <2>6. call[c].op = "reset" =>
              \/ /\ Head(todo[c]) = Command("stop", t, s) /\ Len(todo[c]) = 3
                 /\ Len(Tail(todo[c])) = 2 /\ Head(Tail(todo[c])) = Command("publish", t, s)
              \/ /\ Head(todo[c]) = Command("publish", t, s) /\ Len(todo[c]) = 2
                 /\ Len(Tail(todo[c])) = 1 /\ Head(Tail(todo[c])) = Command("arm", t, s)
              \/ Head(todo[c]) = Command("arm", t, s) /\ Len(todo[c]) = 1
      <3>1. ASSUME call[c].op = "reset"
            PROVE  LET u == call[c].timer
                       v == seq[call[c].timer]
                   IN  \/ /\ Head(todo[c]) = Command("stop", u, v) /\ Len(todo[c]) = 3
                          /\ Len(Tail(todo[c])) = 2 /\ Head(Tail(todo[c])) = Command("publish", u, v)
                       \/ /\ Head(todo[c]) = Command("publish", u, v) /\ Len(todo[c]) = 2
                          /\ Len(Tail(todo[c])) = 1 /\ Head(Tail(todo[c])) = Command("arm", u, v)
                       \/ Head(todo[c]) = Command("arm", u, v) /\ Len(todo[c]) = 1
        BY <2>2, <3>1, ResetFacts, Zenon
      <3> QED BY <3>1, <1>s, <1>t
    <2> QED BY <1>m, <2>1, <2>3, <2>4, <2>5, <2>6
  <1>6. /\ Sending(c) => (Len(todo[c]) = 2 => Still(t, n)) /\ (m.op # "arm" => Held(t, n))
        /\ Sending(c) <=> call[c].op \in {"reset", "stop"}
    BY <1>1, <1>2, <1>m, <1>n, <1>t DEF Ahead, Sending
  <1>7. InOrder(m, n)
    <2>1. CASE m = Command("arm", t, s)
      <3>1. m.op = "arm" /\ m.seq = s
        BY <2>1, CommandFields
      <3> QED BY <1>1, <1>s, <3>1 DEF InOrder, Current
    <2>2. CASE m = Command("delete", t, 0)
      <3>1. m.op = "delete" /\ m.seq = 0
        BY <2>2, CommandFields
      <3> QED BY <1>1, <1>s, <3>1 DEF InOrder, Current
    <2>3. CASE m = Command("stop", t, s) /\ call[c].op \in {"reset", "stop"}
      <3>1. m.op = "stop" /\ m.seq = s
        BY <2>3, CommandFields
      <3> QED BY <1>1, <1>6, <1>s, <2>3, <3>1 DEF InOrder, Current
    <2>4. CASE m = Command("publish", t, s) /\ Len(todo[c]) = 2 /\ call[c].op = "reset"
      <3>1. m.op = "publish" /\ m.seq = s
        BY <2>4, CommandFields
      <3> QED BY <1>1, <1>6, <1>s, <2>4, <3>1 DEF InOrder, Current
    <2> QED BY <1>2, <1>5, <2>1, <2>2, <2>3, <2>4
  <1>8. ASSUME Sending(c)' PROVE Ahead(c)'
    <2>1. call[c].op \in {"reset", "stop"} /\ Sending(c) /\ at'[c] = "send"
      BY <1>1, <1>6, <1>8 DEF Sending
    <2>2. Len(todo[c]) # 1
      <3> SUFFICES ASSUME Len(todo[c]) = 1 PROVE FALSE
        OBVIOUS
      <3>1. ~(Len(todo[c]) > 1)
        <4> DEFINE k == Len(todo[c])
        <4>1. k = 1
          OBVIOUS
        <4> HIDE DEF k
        <4>2. ~(k > 1)
          BY <4>1
        <4> QED BY <4>2 DEF k
      <3>2. at'[c] = "done"
        <4>1. at' = [at EXCEPT ![c] = "done"]
          BY <1>1, <2>1, <3>1
        <4> QED BY <1>2, <4>1
      <3> QED BY <2>1, <3>2
    <2>3. todo'[c] = Tail(todo[c]) /\ call'[c].timer = t
      BY <1>1, <1>2, <1>t
    <2>4. CASE m = Command("stop", t, s) /\ Head(Tail(todo[c])) = Command("publish", t, s)
      <3>1. m.op = "stop" /\ ~Current(m)
        BY <2>4, CommandFields DEF Current
      <3>2. Still(t, n + 1)' /\ Held(t, n + 1)'
        BY <1>1, <1>6, <1>n, <2>1, <3>1, HeldAppend DEF SchedulerTypes
      <3> QED BY <1>3, <2>3, <3>2 DEF Ahead
    <2>5. CASE Len(Tail(todo[c])) = 1 /\ Head(Tail(todo[c])) = Command("arm", t, s)
      <3>1. Head(todo'[c]).op = "arm" /\ Len(todo'[c]) # 2
        <4>1. Command("arm", t, s).op = "arm"
          BY CommandFields
        <4>2. Head(todo'[c]) = Command("arm", t, s) /\ Len(todo'[c]) = 1
          BY <2>3, <2>5
        <4> QED BY <4>1, <4>2
      <3> QED BY <3>1 DEF Ahead
    <2> QED BY <1>5, <2>1, <2>2, <2>4, <2>5
  <1>9. \A d \in Tasks : Sending(d)' => \/ /\ Sending(d) /\ todo'[d] = todo[d]
                                           /\ (call[d].timer # m.timer \/ m.op = "delete")
                                        \/ Ahead(d)'
    BY <1>4, <1>8
  <1> QED BY <1>1, <1>7, <1>9, <1>n, SeqsAppend

(* Every step keeps the commands in order.                                 *)
LEMMA SeqsNext == SchedulerTypes /\ CallsOK /\ Blocks /\ Links /\ Seqs /\ SchedulerNext => Seqs'
  <1> SUFFICES ASSUME SchedulerTypes, CallsOK, Blocks, Links, Seqs, SchedulerNext PROVE Seqs'
    OBVIOUS
  <1> USE DEF SchedulerTypes
  <1>1. ASSUME NEW c \in Tasks, NEW t \in Timers, ScheduleTask(c, t)
        PROVE  Seqs'
    <2>1. /\ UNCHANGED <<cmds, seq, stopped, armSeq, fireSeq, fires>> /\ active' = active
          /\ call' = [call EXCEPT ![c] = [op |-> "schedule", timer |-> t]] /\ at' = [at EXCEPT ![c] = "send"]
          /\ \E w : todo' = [todo EXCEPT ![c] = w]
      BY <1>1 DEF ScheduleTask, Jump, Enter, NoCall, blockVars, flagVars, listVars, daemonVars,
         dispVars, callVars, history
    <2>2. \A d \in Tasks : Sending(d)' => Sending(d) /\ call'[d] = call[d] /\ todo'[d] = todo[d]
      BY <2>1 DEF Sending, CallTypes
    <2> QED BY <2>1, <2>2, SeqsCalm DEF SchedulerTypes
  <1>2. ASSUME NEW c \in Tasks, NEW t \in Timers,
                NEW o \in {"reset", "stop", "cancel"}, BeginCall(c, o, t)
        PROVE  Seqs'
    <2>1. /\ UNCHANGED <<cmds, seq, stopped, armSeq, fireSeq, fires>> /\ active' = active
          /\ call' = [call EXCEPT ![c] = [op |-> o, timer |-> t]] /\ at' = [at EXCEPT ![c] = "lock"]
          /\ todo' = todo
      BY <1>2 DEF BeginCall, Jump, Enter, NoCall, blockVars, flagVars, listVars, daemonVars,
         dispVars, callVars, history
    <2>2. \A d \in Tasks : Sending(d)' => Sending(d) /\ call'[d] = call[d] /\ todo'[d] = todo[d]
      BY <2>1 DEF Sending, CallTypes
    <2> QED BY <2>1, <2>2, SeqsCalm DEF SchedulerTypes
  <1>3. ASSUME NEW c \in Tasks, LockCommands(c)
        PROVE  Seqs'
    <2>1. /\ UNCHANGED <<cmds, seq, stopped, armSeq, fireSeq, fires>> /\ active' = active
          /\ call' = call /\ at' = [at EXCEPT ![c] = "mark"] /\ todo' = todo
      BY <1>3 DEF LockCommands, Jump, Enter, NoCall, blockVars, flagVars, listVars, daemonVars,
         dispVars, callVars, history
    <2>2. \A d \in Tasks : Sending(d)' => Sending(d) /\ call'[d] = call[d] /\ todo'[d] = todo[d]
      BY <2>1 DEF Sending, CallTypes
    <2> QED BY <2>1, <2>2, SeqsCalm DEF SchedulerTypes
  <1>4. ASSUME NEW c \in Tasks, MarkReset(c)
        PROVE  Seqs'
    BY <1>4, SeqsMarked
  <1>5. ASSUME NEW c \in Tasks, MarkStop(c)
        PROVE  Seqs'
    BY <1>5, SeqsMarked
  <1>6. ASSUME NEW c \in Tasks, MarkCancel(c)
        PROVE  Seqs'
    <2>1. /\ UNCHANGED <<cmds, seq, stopped, armSeq, fireSeq, fires>> /\ active' = active
          /\ call' = call /\ call[c].op = "cancel" /\ (\E p : at' = [at EXCEPT ![c] = p])
          /\ \E w : todo' = [todo EXCEPT ![c] = w]
      BY <1>6 DEF MarkCancel, Jump, Enter, NoCall, blockVars, flagVars, listVars, daemonVars,
         dispVars, callVars, history
    <2>2. \A d \in Tasks : Sending(d)' => Sending(d) /\ call'[d] = call[d] /\ todo'[d] = todo[d]
      BY <2>1 DEF Sending, CallTypes
    <2> QED BY <2>1, <2>2, SeqsCalm DEF SchedulerTypes
  <1>7. ASSUME NEW c \in Tasks, SendCommand(c)
        PROVE  Seqs'
    BY <1>7, SeqsSend DEF SchedulerTypes
  <1>8. ASSUME NEW c \in Tasks, EndCall(c)
        PROVE  Seqs'
    <2>1. /\ UNCHANGED <<cmds, seq, stopped, armSeq, fireSeq, fires>> /\ active' = active
          /\ call' = [call EXCEPT ![c] = [op |-> "none", timer |-> NULL]] /\ at' = [at EXCEPT ![c] = "idle"]
          /\ todo' = todo
      BY <1>8 DEF EndCall, Jump, Enter, NoCall, blockVars, flagVars, listVars, daemonVars, dispVars,
         callVars, history
    <2>2. \A d \in Tasks : Sending(d)' => Sending(d) /\ call'[d] = call[d] /\ todo'[d] = todo[d]
      BY <2>1 DEF Sending, CallTypes
    <2> QED BY <2>1, <2>2, SeqsCalm DEF SchedulerTypes
  <1>9. CASE GiveSemaphore
    <2>1. /\ UNCHANGED <<cmds, seq, stopped, armSeq, fireSeq, fires>> /\ active' = active
          /\ UNCHANGED <<call, at, todo>>
      BY <1>9 DEF GiveSemaphore, blockVars, flagVars, listVars, daemonVars, dispVars, callVars,
         history
    <2>2. \A d \in Tasks : Sending(d)' => Sending(d) /\ call'[d] = call[d] /\ todo'[d] = todo[d]
      BY <2>1 DEF Sending, CallTypes
    <2> QED BY <2>1, <2>2, SeqsCalm DEF SchedulerTypes
  <1>10. CASE RunCommand
    BY <1>10, SeqsRun
  <1>11. ASSUME NEW t \in Timers, Expire(t)
        PROVE  Seqs'
    <2>1. /\ UNCHANGED <<cmds, seq, stopped, armSeq, call, at,
                         todo>> /\ active' \subseteq active /\ t \in active
          /\ \/ UNCHANGED <<fires, fireSeq>>
             \/ /\ t \notin stopped /\ fireSeq' = [fireSeq EXCEPT ![t] = armSeq[t]]
                /\ fires' = [fires EXCEPT ![t] = CountFire(t)]
      BY <1>11 DEF Expire, blockVars, flagVars, listVars, daemonVars, dispVars, callVars, history
    <2>2. \A d \in Tasks : Sending(d)' => Sending(d) /\ call'[d] = call[d] /\ todo'[d] = todo[d]
      BY <2>1 DEF Sending
    <2>3. /\ \A i \in 1..Len(cmds') : InOrder(cmds[i], i - 1)'
          /\ \A d \in Tasks : Ahead(d)'
          /\ Armed'
      BY <2>1, <2>2, QueueCalm DEF SchedulerTypes
    <2>4. NoStaleExpiry'
      <3>1. armSeq[t] = seq[t] \/ t \in stopped
        BY <2>1, SeqsParts DEF Armed
      <3>2. fires \in [Timers -> Nat] /\ fireSeq \in [Timers -> Nat]
        BY DEF CountTypes
      <3>3. \A x \in Timers : x # t => fires'[x] = fires[x] /\ fireSeq'[x] = fireSeq[x]
        BY <2>1, <3>2
      <3>4. t \notin stopped => fireSeq'[t] = armSeq[t] \/ (fires'[t] = fires[t] /\ fireSeq'[t] = fireSeq[t])
        BY <2>1, <3>2
      <3> QED BY <2>1, <3>1, <3>3, <3>4, SeqsParts DEF NoStaleExpiry
    <2> QED BY <2>3, <2>4 DEF Seqs, InOrder, Ahead, Armed, Sending
  <1>12. CASE TakeSemaphore
    <2>1. /\ UNCHANGED <<cmds, seq, stopped, armSeq, fireSeq, fires>> /\ active' = active
          /\ UNCHANGED <<call, at, todo>>
      BY <1>12 DEF TakeSemaphore, blockVars, flagVars, listVars, daemonVars, dispVars, callVars,
         history
    <2>2. \A d \in Tasks : Sending(d)' => Sending(d) /\ call'[d] = call[d] /\ todo'[d] = todo[d]
      BY <2>1 DEF Sending, CallTypes
    <2> QED BY <2>1, <2>2, SeqsCalm DEF SchedulerTypes
  <1>13. CASE DetachList
    <2>1. /\ UNCHANGED <<cmds, seq, stopped, armSeq, fireSeq, fires>> /\ active' = active
          /\ UNCHANGED <<call, at, todo>>
      BY <1>13 DEF DetachList, blockVars, flagVars, listVars, daemonVars, dispVars, callVars,
         history
    <2>2. \A d \in Tasks : Sending(d)' => Sending(d) /\ call'[d] = call[d] /\ todo'[d] = todo[d]
      BY <2>1 DEF Sending, CallTypes
    <2> QED BY <2>1, <2>2, SeqsCalm DEF SchedulerTypes
  <1>14. CASE ReadNext
    <2>1. /\ UNCHANGED <<cmds, seq, stopped, armSeq, fireSeq, fires>> /\ active' = active
          /\ UNCHANGED <<call, at, todo>>
      BY <1>14 DEF ReadNext, blockVars, flagVars, listVars, daemonVars, dispVars, callVars, history
    <2>2. \A d \in Tasks : Sending(d)' => Sending(d) /\ call'[d] = call[d] /\ todo'[d] = todo[d]
      BY <2>1 DEF Sending, CallTypes
    <2> QED BY <2>1, <2>2, SeqsCalm DEF SchedulerTypes
  <1>15. CASE Claim
    <2>1. /\ UNCHANGED <<cmds, seq, stopped, armSeq, fireSeq, fires>> /\ active' = active
          /\ UNCHANGED <<call, at, todo>>
      BY <1>15 DEF Claim, blockVars, flagVars, listVars, daemonVars, dispVars, callVars, history
    <2>2. \A d \in Tasks : Sending(d)' => Sending(d) /\ call'[d] = call[d] /\ todo'[d] = todo[d]
      BY <2>1 DEF Sending, CallTypes
    <2> QED BY <2>1, <2>2, SeqsCalm DEF SchedulerTypes
  <1>16. CASE TakeExpiry
    <2>1. /\ UNCHANGED <<cmds, seq, stopped, armSeq, fireSeq, call, at, todo>> /\ active' = active
          /\ fires' = [fires EXCEPT ![cur] = 0]
      BY <1>16 DEF TakeExpiry, TakeFires, blockVars, flagVars, listVars, daemonVars, dispVars,
         callVars, history
    <2>2. \A d \in Tasks : Sending(d)' => Sending(d) /\ call'[d] = call[d] /\ todo'[d] = todo[d]
      BY <2>1 DEF Sending
    <2>3. \A x \in Timers : fires'[x] > 0 => fires[x] > 0
      <3>1. fires \in [Timers -> Nat] /\ ~(0 > 0)
        BY DEF CountTypes
      <3> QED BY <2>1, <3>1
    <2> QED BY <2>1, <2>2, <2>3, SeqsCalm DEF SchedulerTypes
  <1>17. CASE WaitCommands
    <2>1. /\ UNCHANGED <<cmds, seq, stopped, armSeq, fireSeq, fires>> /\ active' = active
          /\ UNCHANGED <<call, at, todo>>
      BY <1>17 DEF WaitCommands, blockVars, flagVars, listVars, daemonVars, dispVars, callVars,
         history
    <2>2. \A d \in Tasks : Sending(d)' => Sending(d) /\ call'[d] = call[d] /\ todo'[d] = todo[d]
      BY <2>1 DEF Sending, CallTypes
    <2> QED BY <2>1, <2>2, SeqsCalm DEF SchedulerTypes
  <1>18. CASE LockRearm
    <2>1. /\ UNCHANGED <<cmds, seq, stopped, armSeq, fireSeq, fires>> /\ active' = active
          /\ UNCHANGED <<call, at, todo>>
      BY <1>18 DEF LockRearm, blockVars, flagVars, listVars, daemonVars, dispVars, callVars, history
    <2>2. \A d \in Tasks : Sending(d)' => Sending(d) /\ call'[d] = call[d] /\ todo'[d] = todo[d]
      BY <2>1 DEF Sending, CallTypes
    <2> QED BY <2>1, <2>2, SeqsCalm DEF SchedulerTypes
  <1>19. CASE RetakeExpiry
    <2>1. /\ UNCHANGED <<cmds, seq, stopped, armSeq, fireSeq, call, at, todo>> /\ active' = active
          /\ fires' = [fires EXCEPT ![cur] = 0]
      BY <1>19 DEF RetakeExpiry, TakeFires, blockVars, flagVars, listVars, daemonVars, dispVars,
         callVars, history
    <2>2. \A d \in Tasks : Sending(d)' => Sending(d) /\ call'[d] = call[d] /\ todo'[d] = todo[d]
      BY <2>1 DEF Sending
    <2>3. \A x \in Timers : fires'[x] > 0 => fires[x] > 0
      <3>1. fires \in [Timers -> Nat] /\ ~(0 > 0)
        BY DEF CountTypes
      <3> QED BY <2>1, <3>1
    <2> QED BY <2>1, <2>2, <2>3, SeqsCalm DEF SchedulerTypes
  <1>20. CASE SendRearm
    <2>1. /\ UNCHANGED <<seq, stopped, active, armSeq, fireSeq, fires, call, at,
                         todo>> /\ dpc = "rearm"
          /\ cmds' = Append(cmds, Command("arm", cur, taken)) /\ at[Dispatch] = "idle"
      BY <1>20 DEF SendRearm, At, blockVars, flagVars, listVars, daemonVars, dispVars, callVars,
         history
    <2>2. cur \in Timers /\ taken = seq[cur] /\ taken \in Nat
      BY <2>1, HeldBlock, BlocksParts DEF Holding, InHand, CountTypes
    <2>3. PICK m \in AnyCommand : m = Command("arm", cur, taken)
      BY <2>2, CommandTypes
    <2>4. m.op = "arm" /\ m.timer = cur /\ m.seq = seq[m.timer] /\ m.seq <= seq[m.timer]
      BY <2>2, <2>3, CommandFields
    <2>5. InOrder(m, Len(cmds))
      BY <2>4 DEF InOrder, Current
    <2>6. \A d \in Tasks : ~Sending(d)'
      <3>1. mutex = Dispatch /\ Dispatch \in Tasks
        BY <2>1, CallsParts DEF Turns, Tasks
      <3>2. ~Sending(Dispatch)
        BY <2>1 DEF Sending
      <3> QED BY <2>1, <3>1, <3>2, OneMarked DEF Sending
    <2> QED BY <2>1, <2>3, <2>5, <2>6, SeqsAppend DEF SchedulerTypes
  <1>21. CASE UnlockRearm
    <2>1. /\ UNCHANGED <<cmds, seq, stopped, armSeq, fireSeq, fires>> /\ active' = active
          /\ UNCHANGED <<call, at, todo>>
      BY <1>21 DEF UnlockRearm, blockVars, flagVars, listVars, daemonVars, dispVars, callVars,
         history
    <2>2. \A d \in Tasks : Sending(d)' => Sending(d) /\ call'[d] = call[d] /\ todo'[d] = todo[d]
      BY <2>1 DEF Sending, CallTypes
    <2> QED BY <2>1, <2>2, SeqsCalm DEF SchedulerTypes
  <1>22. CASE CheckRun
    <2>1. /\ UNCHANGED <<cmds, seq, stopped, armSeq, fireSeq, fires>> /\ active' = active
          /\ UNCHANGED <<call, at, todo>>
      BY <1>22 DEF CheckRun, blockVars, flagVars, listVars, daemonVars, dispVars, callVars, history
    <2>2. \A d \in Tasks : Sending(d)' => Sending(d) /\ call'[d] = call[d] /\ todo'[d] = todo[d]
      BY <2>1 DEF Sending, CallTypes
    <2> QED BY <2>1, <2>2, SeqsCalm DEF SchedulerTypes
  <1>23. CASE StartTask
    <2>1. /\ UNCHANGED <<cmds, seq, stopped, armSeq, fireSeq, fires>> /\ active' = active
          /\ UNCHANGED <<call, at, todo>>
      BY <1>23 DEF StartTask, blockVars, flagVars, listVars, daemonVars, dispVars, callVars, history
    <2>2. \A d \in Tasks : Sending(d)' => Sending(d) /\ call'[d] = call[d] /\ todo'[d] = todo[d]
      BY <2>1 DEF Sending, CallTypes
    <2> QED BY <2>1, <2>2, SeqsCalm DEF SchedulerTypes
  <1>24. CASE EndTask
    <2>1. /\ UNCHANGED <<cmds, seq, stopped, armSeq, fireSeq, fires>> /\ active' = active
          /\ UNCHANGED <<call, at, todo>>
      BY <1>24 DEF EndTask, blockVars, flagVars, listVars, daemonVars, dispVars, callVars, history
    <2>2. \A d \in Tasks : Sending(d)' => Sending(d) /\ call'[d] = call[d] /\ todo'[d] = todo[d]
      BY <2>1 DEF Sending, CallTypes
    <2> QED BY <2>1, <2>2, SeqsCalm DEF SchedulerTypes
  <1>25. CASE Release
    <2>1. /\ UNCHANGED <<cmds, seq, stopped, armSeq, fireSeq, fires>> /\ active' = active
          /\ UNCHANGED <<call, at, todo>>
      BY <1>25 DEF Release, blockVars, flagVars, listVars, daemonVars, dispVars, callVars, history
    <2>2. \A d \in Tasks : Sending(d)' => Sending(d) /\ call'[d] = call[d] /\ todo'[d] = todo[d]
      BY <2>1 DEF Sending, CallTypes
    <2> QED BY <2>1, <2>2, SeqsCalm DEF SchedulerTypes
  <1>26. CASE DeleteTimer
    <2>1. /\ UNCHANGED <<seq, stopped, active, armSeq, fireSeq, fires, call, at,
                         todo>> /\ dpc = "delete"
          /\ cmds' = Append(cmds, Command("delete", cur, 0))
      BY <1>26 DEF DeleteTimer, At, blockVars, flagVars, listVars, daemonVars, dispVars, callVars,
         history
    <2>2. cur \in Timers /\ 0 <= seq[cur]
      BY <2>1, HeldBlock DEF Holding, CountTypes
    <2>3. PICK m \in AnyCommand : m = Command("delete", cur, 0)
      BY <2>2, CommandTypes
    <2>4. m.op = "delete" /\ m.timer = cur /\ m.seq <= seq[m.timer]
      BY <2>2, <2>3, CommandFields
    <2>5. InOrder(m, Len(cmds))
      BY <2>4 DEF InOrder, Current
    <2>6. \A d \in Tasks : Sending(d)' => Sending(d) /\ todo'[d] = todo[d]
      BY <2>1 DEF Sending
    <2> QED BY <2>1, <2>3, <2>4, <2>5, <2>6, SeqsAppend DEF SchedulerTypes
  <1>27. CASE FreeBlock
    <2>1. /\ UNCHANGED <<cmds, seq, stopped, armSeq, fireSeq, fires>> /\ active' = active
          /\ UNCHANGED <<call, at, todo>>
      BY <1>27 DEF FreeBlock, blockVars, flagVars, listVars, daemonVars, dispVars, callVars, history
    <2>2. \A d \in Tasks : Sending(d)' => Sending(d) /\ call'[d] = call[d] /\ todo'[d] = todo[d]
      BY <2>1 DEF Sending, CallTypes
    <2> QED BY <2>1, <2>2, SeqsCalm DEF SchedulerTypes
  <1> QED BY <1>1, <1>2, <1>3, <1>4, <1>5, <1>6, <1>7, <1>8, <1>9, <1>10, <1>11, <1>12, <1>13,
             <1>14, <1>15, <1>16, <1>17, <1>18, <1>19, <1>20, <1>21, <1>22, <1>23, <1>24, <1>25,
             <1>26, <1>27 DEF SchedulerNext, Using, Calling, Daemon, Dispatching

(* Some call will arm t.                                                   *)
Arming(t) == \E c \in Tasks : ArmsIt(c, t)
(* What is left of t's delay has somebody who will do it.                  *)
Due(t) == /\ t \in Periodic => Coming(t)
          /\ left[t] > 0 => Coming(t) \/ fires[t] > 0 \/ (cur = t /\ dpc = "rearm")
(* The publication at i is followed by a command that arms its timer.      *)
Followed(i) == Current(cmds[i]) =>
    \/ \E j \in (i+1)..Len(cmds) : cmds[j].op = "arm" /\ cmds[j].timer = cmds[i].timer
    \/ Arming(cmds[i].timer)
(* An expiry that was counted is in a list.                                *)
Counted == \A t \in Timers : fires[t] > 0 => t \in queued
(* A pending list has its wake-up.                                         *)
Woken == head # NULL => sem \/ daemon = "give" \/ dpc = "detach"

(* Dues from its parts,                                                    *)
LEMMA DuesParts == Dues <=> /\ \A t \in attached \ stopped : Due(t)
                            /\ \A i \in 1..Len(cmds) : Followed(i)
                            /\ Counted /\ Woken
  BY DEF Dues, Due, Followed, Counted, Woken, Arming

(* in the next state too.                                                  *)
LEMMA DuesPartsNext == Dues' <=> /\ \A t \in attached' \ stopped' : Due(t)'
                                 /\ \A i \in 1..Len(cmds') : Followed(i)'
                                 /\ Counted' /\ Woken'
  BY DEF Dues, Due, Followed, Counted, Woken, Arming

(* The commands that wait are for timers.                                  *)
LEMMA CommandTimers ==
    ASSUME CallTypes
    PROVE  Len(cmds) \in Nat /\ \A i \in 1..Len(cmds) : cmds[i] \in AnyCommand /\ cmds[i].timer \in Timers
  <1>1. cmds \in Seq(AnyCommand)
    BY DEF CallTypes
  <1>2. Len(cmds) \in Nat /\ \A i \in 1..Len(cmds) : cmds[i] \in AnyCommand
    BY <1>1
  <1> QED BY <1>2 DEF AnyCommand

(* A publication stays followed when the queue stays.                      *)
LEMMA FollowedStill ==
    ASSUME CallTypes, cmds' = cmds, NEW i \in 1..Len(cmds), Followed(i),
           Current(cmds[i])' => Current(cmds[i]) /\ (Arming(cmds[i].timer) => Arming(cmds[i].timer)')
    PROVE  Followed(i)'
  BY DEF Followed

(* A step that leaves the commands, the delays and the expiries alone.     *)
LEMMA DuesCalm ==
    ASSUME SchedulerTypes, Dues, UNCHANGED <<cmds, seq, left, fires, active>>,
           attached' \ stopped' \subseteq attached \ stopped, queued \subseteq queued',
           \A t \in Timers : Arming(t) => Arming(t)',
           dpc = "rearm" => cur' = cur /\ dpc' = dpc, Woken'
    PROVE  Dues'
  <1>1. ASSUME NEW t \in attached' \ stopped' PROVE Due(t)'
    <2>1. Due(t) /\ t \in Timers
      BY DuesParts DEF SchedulerTypes, SetTypes
    <2>2. Coming(t) => Coming(t)'
      BY <2>1 DEF Coming, Arming
    <2> QED BY <2>1, <2>2 DEF Due
  <1>2. ASSUME NEW i \in 1..Len(cmds') PROVE Followed(i)'
    <2>1. PICK t \in Timers : t = cmds[i].timer
      BY CommandTimers DEF SchedulerTypes
    <2>2. Arming(t) => Arming(t)'
      OBVIOUS
    <2>3. Arming(cmds[i].timer) => Arming(cmds[i].timer)'
      BY <2>1, <2>2 DEF Arming, ArmsIt
    <2>4. Current(cmds[i])' => Current(cmds[i])
      BY DEF Current
    <2> QED BY <2>3, <2>4, FollowedStill, DuesParts DEF SchedulerTypes
  <1>3. Counted'
    BY DuesParts DEF Counted
  <1> QED BY <1>1, <1>2, <1>3, DuesPartsNext

(* Sending another command loses nothing that is due,                      *)
LEMMA DuesAppend ==
    ASSUME SchedulerTypes, Dues, NEW m \in AnyCommand, cmds' = Append(cmds, m),
           UNCHANGED <<seq, left, fires, active, attached, stopped, queued, head, sem, daemon>>,
           \A t \in Timers : Arming(t) => Arming(t)' \/ (m.op = "arm" /\ m.timer = t),
           \A t \in Timers : t = m.timer /\ m.op = "publish" => Arming(t)',
           dpc = "rearm" => (cur' = cur /\ dpc' = dpc) \/ (m.op = "arm" /\ m.timer = cur),
           dpc = "detach" => dpc' = "detach"
    PROVE  Dues'
  <1>1. PICK n \in Nat : n = Len(cmds)
    BY CommandTimers DEF SchedulerTypes
  <1>2. /\ Len(cmds') = n + 1 /\ cmds'[n + 1] = m /\ m.timer \in Timers
        /\ \A i \in 1..n : cmds'[i] = cmds[i] /\ cmds[i].timer \in Timers
    <2>1. m.timer \in Timers
      BY DEF AnyCommand
    <2>2. \A i \in 1..n : cmds[i].timer \in Timers
      BY <1>1, CommandTimers DEF SchedulerTypes
    <2> QED BY <1>1, <2>1, <2>2, Appended DEF SchedulerTypes
  <1>3. n + 1 \in 1..(n + 1) /\ \A i \in 1..n : i \in 1..(n + 1) /\ n + 1 \in (i + 1)..(n + 1)
    OBVIOUS
  <1>4. ASSUME NEW t \in attached' \ stopped' PROVE Due(t)'
    <2>1. Due(t) /\ t \in Timers
      BY DuesParts DEF SchedulerTypes, SetTypes
    <2>2. m.op = "arm" /\ m.timer = t => Coming(t)'
      BY <1>2, <1>3 DEF Coming
    <2>3. Coming(t) => Coming(t)'
      <3>1. CASE t \in active
        BY <3>1 DEF Coming
      <3>2. CASE \E i \in 1..Len(cmds) : cmds[i].op = "arm" /\ cmds[i].timer = t
        BY <1>1, <1>2, <1>3, <3>2 DEF Coming
      <3>3. CASE Arming(t)
        <4>1. Arming(t)' \/ (m.op = "arm" /\ m.timer = t)
          BY <2>1, <3>3
        <4>2. Arming(t)' => Coming(t)'
          BY DEF Coming, Arming
        <4> QED BY <2>2, <4>1, <4>2
      <3> QED BY <3>1, <3>2, <3>3 DEF Coming, Arming
    <2> QED BY <2>1, <2>2, <2>3 DEF Due
  <1>5. ASSUME NEW i \in 1..Len(cmds') PROVE Followed(i)'
    <2>1. CASE i \in 1..n
      <3>1. PICK t \in Timers : t = cmds[i].timer /\ cmds'[i] = cmds[i]
        BY <1>2, <2>1
      <3>2. SUFFICES ASSUME Current(cmds[i])
                     PROVE  \/ \E j \in (i+1)..(n+1) : cmds'[j].op = "arm" /\ cmds'[j].timer = t
                            \/ Arming(t)'
        BY <1>2, <3>1 DEF Followed, Current, Arming, ArmsIt
      <3>3. \/ \E j \in (i+1)..n : cmds[j].op = "arm" /\ cmds[j].timer = t
            \/ Arming(t)
        BY <1>1, <2>1, <3>1, <3>2, DuesParts DEF Followed
      <3>4. CASE \E j \in (i+1)..n : cmds[j].op = "arm" /\ cmds[j].timer = t
        <4>1. \A j \in (i+1)..n : j \in (i+1)..(n+1) /\ cmds'[j] = cmds[j]
          BY <1>2, <2>1
        <4> QED BY <3>4, <4>1
      <3>5. CASE Arming(t)
        BY <1>2, <1>3, <2>1, <3>5
      <3> QED BY <3>3, <3>4, <3>5
    <2>2. CASE i = n + 1
      <3>1. PICK t \in Timers : t = m.timer
        BY <1>2
      <3>2. m.op = "publish" => Arming(t)'
        BY <3>1
      <3>3. cmds'[i] = m
        BY <1>2, <2>2
      <3> QED BY <3>1, <3>2, <3>3 DEF Followed, Current, Arming, ArmsIt
    <2> QED BY <1>2, <2>1, <2>2
  <1>6. Counted' /\ Woken'
    BY DuesParts DEF Counted, Woken
  <1> QED BY <1>4, <1>5, <1>6, DuesPartsNext

(* The first command runs.                                                 *)
LEMMA DuesRun ==
    ASSUME SchedulerTypes, CallsOK, Blocks, Links, Deletions, Seqs, Dues, RunCommand
    PROVE  Dues'
  <1>1. PICK m : m = cmds[1]
    OBVIOUS
  <1>2. PICK n \in Nat : n + 1 = Len(cmds)
    <2>1. Len(cmds) \in Nat \ {0}
      BY Ran DEF SchedulerTypes
    <2>2. Len(cmds) - 1 \in Nat /\ (Len(cmds) - 1) + 1 = Len(cmds)
      BY <2>1
    <2> QED BY <2>2
  <1>3. /\ m.timer \in Timers /\ Len(cmds') = n
        /\ \A i \in 1..n : cmds'[i] = cmds[i + 1]
        /\ active' = IF m.op = "arm" THEN active \cup {m.timer}
                     ELSE IF m.op = "publish" THEN active ELSE active \ {m.timer}
        /\ m.op \in {"arm", "stop", "publish", "delete"}
        /\ \/ /\ m.op = "publish" /\ m.timer \in attached /\ seq[m.timer] = m.seq
              /\ left' = [left EXCEPT ![m.timer] = resetTo[m.timer]]
              /\ fires' = [fires EXCEPT ![m.timer] = 0]
              /\ stopped' = stopped \ {m.timer}
           \/ /\ UNCHANGED <<left, fires, stopped>>
              /\ ~(m.op = "publish" /\ m.timer \in attached /\ seq[m.timer] = m.seq)
        /\ UNCHANGED <<attached, queued, head, sem, daemon, dpc, cur, seq, at, call>>
    BY <1>1, <1>2, Ran DEF SchedulerTypes
  <1>4. /\ 1 \in 1..(n + 1) /\ 1 - 1 = 0 /\ \A i \in 1..n : i + 1 \in 1..(n + 1)
        /\ \A j \in 1..(n + 1) : j # 1 => j - 1 \in 1..n /\ (j - 1) + 1 = j
        /\ \A i \in 0..n : \A j \in ((i + 1) + 1)..(n + 1) : j - 1 \in (i + 1)..n /\ (j - 1) + 1 = j /\ j - 1 \in 1..n
    OBVIOUS
  <1>5. \A t \in Timers : Arming(t)' <=> Arming(t)
    BY <1>3 DEF Arming, ArmsIt
  <1>6. ASSUME NEW t \in attached, t \notin stopped, Coming(t) PROVE Coming(t)'
    <2>1. t \in Timers
      BY DEF SchedulerTypes, SetTypes
    <2>2. m.timer = t => m.op \notin {"stop", "delete"}
      <3>1. m.timer = t /\ m.op = "stop" => t \in stopped
        <4>1. InOrder(cmds[1], 0)
          BY <1>2, <1>4, SeqsParts
        <4> QED BY <1>1, <4>1 DEF InOrder, Held
      <3>2. m.timer = t /\ m.op = "delete" => Doomed(t)
        BY <1>1, <1>2, <1>4 DEF Doomed
      <3> QED BY <1>6, <2>1, <3>1, <3>2, NotDoomed
    <2>3. CASE t \in active
      <3>1. t \in active'
        BY <1>3, <2>2, <2>3
      <3> QED BY <3>1 DEF Coming
    <2>4. CASE \E i \in 1..Len(cmds) : cmds[i].op = "arm" /\ cmds[i].timer = t
      <3>1. PICK i \in 1..(n + 1) : cmds[i].op = "arm" /\ cmds[i].timer = t
        BY <1>2, <2>4
      <3>2. CASE i = 1
        <4>1. t \in active'
          BY <1>1, <1>3, <3>1, <3>2
        <4> QED BY <4>1 DEF Coming
      <3>3. CASE i # 1
        <4>1. i - 1 \in 1..n /\ cmds'[i - 1] = cmds[i]
          BY <1>3, <1>4, <3>3
        <4> QED BY <1>3, <3>1, <4>1 DEF Coming
      <3> QED BY <3>2, <3>3
    <2>5. CASE Arming(t)
      BY <1>5, <2>1, <2>5 DEF Coming, Arming
    <2> QED BY <1>6, <2>3, <2>4, <2>5 DEF Coming, Arming
  <1>7. ASSUME NEW i \in 0..n, NEW t \in Timers, t = cmds[i + 1].timer, Current(cmds[i + 1])
        PROVE  \/ \E j \in (i + 1)..n : cmds'[j].op = "arm" /\ cmds'[j].timer = t
               \/ Arming(t)'
    <2>1. i + 1 \in 1..(n + 1)
      OBVIOUS
    <2>2. \/ \E j \in ((i + 1) + 1)..(n + 1) : cmds[j].op = "arm" /\ cmds[j].timer = t
          \/ Arming(t)
      BY <1>2, <1>7, <2>1, DuesParts DEF Followed
    <2>3. CASE \E j \in ((i + 1) + 1)..(n + 1) : cmds[j].op = "arm" /\ cmds[j].timer = t
      <3>1. PICK j \in ((i + 1) + 1)..(n + 1) : cmds[j].op = "arm" /\ cmds[j].timer = t
        BY <2>3
      <3>2. j - 1 \in (i + 1)..n /\ cmds'[j - 1] = cmds[j]
        BY <1>3, <1>4
      <3> QED BY <3>1, <3>2
    <2> QED BY <1>5, <2>2, <2>3
  <1>8. ASSUME NEW t \in attached' \ stopped' PROVE Due(t)'
    <2>1. t \in Timers /\ t \in attached
      BY <1>3 DEF SchedulerTypes, SetTypes
    <2>2. CASE m.op = "publish" /\ seq[m.timer] = m.seq /\ m.timer = t
      <3>1. Current(cmds[0 + 1]) /\ t = cmds[0 + 1].timer /\ 0 \in 0..n
        BY <1>1, <2>2 DEF Current
      <3>2. \/ \E j \in (0 + 1)..n : cmds'[j].op = "arm" /\ cmds'[j].timer = t
            \/ Arming(t)'
        BY <1>7, <2>1, <3>1
      <3>3. Coming(t)'
        BY <1>3, <3>2 DEF Coming, Arming
      <3> QED BY <3>3 DEF Due
    <2>3. CASE ~(m.op = "publish" /\ seq[m.timer] = m.seq /\ m.timer = t)
      <3>1. left \in [Timers -> Nat] /\ fires \in [Timers -> Nat]
        BY DEF SchedulerTypes, CountTypes
      <3>2. t \notin stopped /\ left'[t] = left[t] /\ fires'[t] = fires[t]
        BY <1>3, <2>1, <2>3, <3>1
      <3>3. Due(t)
        BY <2>1, <3>2, DuesParts
      <3> QED BY <1>3, <1>6, <2>1, <3>2, <3>3 DEF Due
    <2> QED BY <2>2, <2>3
  <1>9. ASSUME NEW i \in 1..Len(cmds') PROVE Followed(i)'
    <2>1. i \in 0..n /\ i \in 1..n /\ i + 1 \in 1..Len(cmds) /\ cmds'[i] = cmds[i + 1]
      BY <1>2, <1>3
    <2>2. PICK t \in Timers : t = cmds[i + 1].timer
      BY <2>1, CommandTimers DEF SchedulerTypes
    <2>3. Current(cmds[i])' => Current(cmds[i + 1])
      BY <1>3, <2>1 DEF Current
    <2>4. Current(cmds[i + 1]) => \/ \E j \in (i + 1)..n : cmds'[j].op = "arm" /\ cmds'[j].timer = t
                                  \/ Arming(t)'
      BY <1>7, <2>1, <2>2
    <2> QED BY <1>3, <2>1, <2>2, <2>3, <2>4 DEF Followed, Arming, ArmsIt
  <1>10. Counted'
    <2>1. fires \in [Timers -> Nat] /\ ~(0 > 0)
      BY DEF SchedulerTypes, CountTypes
    <2>2. \A t \in Timers : fires'[t] > 0 => fires[t] > 0
      BY <1>3, <2>1
    <2> QED BY <1>3, <2>2, DuesParts DEF Counted
  <1>11. Woken'
    BY <1>3, DuesParts DEF Woken
  <1> QED BY <1>8, <1>9, <1>10, <1>11, DuesPartsNext

(* nor does any step.                                                      *)
LEMMA DuesNext ==
    SchedulerTypes /\ CallsOK /\ Blocks /\ Links /\ Deletions /\ Seqs /\ Dues /\ SchedulerNext
        => Dues'
  <1> SUFFICES ASSUME SchedulerTypes, CallsOK, Blocks, Links, Deletions, Seqs, Dues, SchedulerNext
               PROVE Dues'
    OBVIOUS
  <1> USE DEF SchedulerTypes
  <1>1. ASSUME NEW c \in Tasks, NEW t \in Timers, ScheduleTask(c, t)
        PROVE  Dues'
    <2>1. /\ UNCHANGED <<cmds, seq, fires, active, stopped, queued, head, sem, daemon, dpc, cur>>
          /\ attached' = attached \cup {t} /\ at[c] = "idle"
          /\ \E w : left' = [left EXCEPT ![t] = w]
          /\ call' = [call EXCEPT ![c] = [op |-> "schedule", timer |-> t]] /\ at' = [at EXCEPT ![c] = "send"]
      BY <1>1 DEF ScheduleTask, Free, Jump, Enter, NoCall, blockVars, flagVars, listVars,
         daemonVars, dispVars, callVars, history
    <2>2. \A x \in Timers : Arming(x) => Arming(x)'
      <3>1. \A x \in Timers, d \in Tasks : ArmsIt(d, x) => at'[d] = at[d] /\ call'[d] = call[d]
        BY <2>1 DEF ArmsIt, CallTypes
      <3> QED BY <3>1 DEF Arming, ArmsIt
    <2>3. Coming(t)'
      <3>1. ArmsIt(c, t)'
        BY <2>1 DEF ArmsIt, CallTypes
      <3> QED BY <3>1 DEF Coming
    <2>4. ASSUME NEW x \in attached' \ stopped' PROVE Due(x)'
      <3>1. CASE x = t
        BY <2>3, <3>1 DEF Due
      <3>2. CASE x # t
        <4>1. Due(x) /\ x \in Timers
          BY <2>1, <3>2, DuesParts DEF SetTypes
        <4>2. left'[x] = left[x]
          BY <2>1, <3>2, <4>1 DEF CountTypes
        <4>3. Coming(x) => Coming(x)'
          BY <2>1, <2>2, <4>1 DEF Coming, Arming
        <4> QED BY <2>1, <4>1, <4>2, <4>3 DEF Due
      <3> QED BY <3>1, <3>2
    <2>5. ASSUME NEW i \in 1..Len(cmds') PROVE Followed(i)'
      <3>1. PICK x \in Timers : x = cmds[i].timer
        BY <2>1, CommandTimers
      <3>2. Arming(cmds[i].timer) => Arming(cmds[i].timer)'
        BY <2>1, <2>2, <3>1 DEF Arming, ArmsIt
      <3>3. Current(cmds[i])' => Current(cmds[i])
        BY <2>1 DEF Current
      <3> QED BY <2>1, <3>2, <3>3, FollowedStill, DuesParts
    <2>6. Counted' /\ Woken'
      BY <2>1, DuesParts DEF Counted, Woken
    <2> QED BY <2>4, <2>5, <2>6, DuesPartsNext
  <1>2. ASSUME NEW c \in Tasks, NEW t \in Timers,
                NEW o \in {"reset", "stop", "cancel"}, BeginCall(c, o, t)
        PROVE  Dues'
    <2>1. /\ UNCHANGED <<cmds, seq, left, fires,
                         active>> /\ attached' \ stopped' \subseteq attached \ stopped
          /\ queued \subseteq queued' /\ (dpc = "rearm" => cur' = cur /\ dpc' = dpc)
          /\ UNCHANGED <<head, sem, daemon, dpc>>
          /\ call' = [call EXCEPT ![c] = [op |-> o, timer |-> t]] /\ at' = [at EXCEPT ![c] = "lock"]
          /\ at[c] # "send"
      BY <1>2 DEF BeginCall, Free, Jump, Enter, NoCall, blockVars, flagVars, listVars, daemonVars,
         dispVars, callVars, history
    <2>2. \A x \in Timers : Arming(x) => Arming(x)'
      <3>1. \A x \in Timers, d \in Tasks : ArmsIt(d, x) => at'[d] = at[d] /\ call'[d] = call[d]
        BY <2>1 DEF ArmsIt, CallTypes
      <3> QED BY <3>1 DEF Arming, ArmsIt
    <2>3. Woken'
      BY <2>1, DuesParts DEF Woken
    <2> QED BY <2>1, <2>2, <2>3, DuesCalm DEF SchedulerTypes
  <1>3. ASSUME NEW c \in Tasks, LockCommands(c)
        PROVE  Dues'
    <2>1. /\ UNCHANGED <<cmds, seq, left, fires,
                         active>> /\ attached' \ stopped' \subseteq attached \ stopped
          /\ queued \subseteq queued' /\ (dpc = "rearm" => cur' = cur /\ dpc' = dpc)
          /\ UNCHANGED <<head, sem, daemon, dpc>>
          /\ call' = call /\ at' = [at EXCEPT ![c] = "mark"] /\ at[c] # "send"
      BY <1>3 DEF LockCommands, Free, Jump, Enter, NoCall, blockVars, flagVars, listVars,
         daemonVars, dispVars, callVars, history
    <2>2. \A x \in Timers : Arming(x) => Arming(x)'
      <3>1. \A x \in Timers, d \in Tasks : ArmsIt(d, x) => at'[d] = at[d] /\ call'[d] = call[d]
        BY <2>1 DEF ArmsIt, CallTypes
      <3> QED BY <3>1 DEF Arming, ArmsIt
    <2>3. Woken'
      BY <2>1, DuesParts DEF Woken
    <2> QED BY <2>1, <2>2, <2>3, DuesCalm DEF SchedulerTypes
  <1>4. ASSUME NEW c \in Tasks, MarkReset(c)
        PROVE  Dues'
    <2>t. PICK t \in Timers : t = call[c].timer
      BY <1>4, Marked
    <2>1. /\ at[c] = "mark" /\ stopped' = stopped \cup {t} /\ fires' = [fires EXCEPT ![t] = 0]
          /\ at' = [at EXCEPT ![c] = "send"]
          /\ UNCHANGED <<attached, left, queued, head, sem, cmds, daemon, active, dpc, cur, call>>
      BY <1>4, <2>t, Marked
    <2>2. \A x \in Timers : Arming(x) => Arming(x)'
      <3>1. \A x \in Timers, d \in Tasks : ArmsIt(d, x) => at'[d] = at[d] /\ call'[d] = call[d]
        BY <2>1 DEF ArmsIt, CallTypes
      <3> QED BY <3>1 DEF Arming, ArmsIt
    <2>3. ASSUME NEW x \in attached' \ stopped' PROVE Due(x)'
      <3>1. Due(x) /\ x \in Timers /\ x # t
        BY <2>1, DuesParts DEF SetTypes
      <3>2. fires'[x] = fires[x]
        BY <2>1, <3>1 DEF CountTypes
      <3>3. Coming(x) => Coming(x)'
        BY <2>1, <2>2, <3>1 DEF Coming, Arming
      <3> QED BY <2>1, <3>1, <3>2, <3>3 DEF Due
    <2>4. ASSUME NEW i \in 1..Len(cmds') PROVE Followed(i)'
      <3>1. PICK x \in Timers : x = cmds[i].timer
        BY <2>1, CommandTimers
      <3>2. Arming(cmds[i].timer) => Arming(cmds[i].timer)'
        BY <2>1, <2>2, <3>1 DEF Arming, ArmsIt
      <3>3. Current(cmds[i])' => Current(cmds[i])
        BY <1>4, <2>t, <2>1, Outdated
      <3> QED BY <2>1, <3>2, <3>3, FollowedStill, DuesParts
    <2>5. Counted' /\ Woken'
      <3>1. fires \in [Timers -> Nat] /\ ~(0 > 0)
        BY DEF CountTypes
      <3>2. \A x \in Timers : fires'[x] > 0 => fires[x] > 0
        BY <2>1, <3>1
      <3> QED BY <2>1, <3>2, DuesParts DEF Counted, Woken
    <2> QED BY <2>3, <2>4, <2>5, DuesPartsNext
  <1>5. ASSUME NEW c \in Tasks, MarkStop(c)
        PROVE  Dues'
    <2>t. PICK t \in Timers : t = call[c].timer
      BY <1>5, Marked
    <2>1. /\ at[c] = "mark" /\ stopped' = stopped \cup {t} /\ fires' = [fires EXCEPT ![t] = 0]
          /\ at' = [at EXCEPT ![c] = "send"]
          /\ UNCHANGED <<attached, left, queued, head, sem, cmds, daemon, active, dpc, cur, call>>
      BY <1>5, <2>t, Marked
    <2>2. \A x \in Timers : Arming(x) => Arming(x)'
      <3>1. \A x \in Timers, d \in Tasks : ArmsIt(d, x) => at'[d] = at[d] /\ call'[d] = call[d]
        BY <2>1 DEF ArmsIt, CallTypes
      <3> QED BY <3>1 DEF Arming, ArmsIt
    <2>3. ASSUME NEW x \in attached' \ stopped' PROVE Due(x)'
      <3>1. Due(x) /\ x \in Timers /\ x # t
        BY <2>1, DuesParts DEF SetTypes
      <3>2. fires'[x] = fires[x]
        BY <2>1, <3>1 DEF CountTypes
      <3>3. Coming(x) => Coming(x)'
        BY <2>1, <2>2, <3>1 DEF Coming, Arming
      <3> QED BY <2>1, <3>1, <3>2, <3>3 DEF Due
    <2>4. ASSUME NEW i \in 1..Len(cmds') PROVE Followed(i)'
      <3>1. PICK x \in Timers : x = cmds[i].timer
        BY <2>1, CommandTimers
      <3>2. Arming(cmds[i].timer) => Arming(cmds[i].timer)'
        BY <2>1, <2>2, <3>1 DEF Arming, ArmsIt
      <3>3. Current(cmds[i])' => Current(cmds[i])
        BY <1>5, <2>t, <2>1, Outdated
      <3> QED BY <2>1, <3>2, <3>3, FollowedStill, DuesParts
    <2>5. Counted' /\ Woken'
      <3>1. fires \in [Timers -> Nat] /\ ~(0 > 0)
        BY DEF CountTypes
      <3>2. \A x \in Timers : fires'[x] > 0 => fires[x] > 0
        BY <2>1, <3>1
      <3> QED BY <2>1, <3>2, DuesParts DEF Counted, Woken
    <2> QED BY <2>3, <2>4, <2>5, DuesPartsNext
  <1>6. ASSUME NEW c \in Tasks, MarkCancel(c)
        PROVE  Dues'
    <2>1. /\ UNCHANGED <<cmds, seq, left, fires,
                         active>> /\ attached' \ stopped' \subseteq attached \ stopped
          /\ queued \subseteq queued' /\ (dpc = "rearm" => cur' = cur /\ dpc' = dpc)
          /\ UNCHANGED <<head, sem, daemon, dpc>>
          /\ call' = call /\ (\E p : at' = [at EXCEPT ![c] = p]) /\ at[c] # "send"
      BY <1>6 DEF MarkCancel, Free, Jump, Enter, NoCall, blockVars, flagVars, listVars, daemonVars,
         dispVars, callVars, history
    <2>2. \A x \in Timers : Arming(x) => Arming(x)'
      <3>1. \A x \in Timers, d \in Tasks : ArmsIt(d, x) => at'[d] = at[d] /\ call'[d] = call[d]
        BY <2>1 DEF ArmsIt, CallTypes
      <3> QED BY <3>1 DEF Arming, ArmsIt
    <2>3. Woken'
      BY <2>1, DuesParts DEF Woken
    <2> QED BY <2>1, <2>2, <2>3, DuesCalm DEF SchedulerTypes
  <1>7. ASSUME NEW c \in Tasks, SendCommand(c)
        PROVE  Dues'
    <2>m. PICK m \in AnyCommand : m = Head(todo[c])
      BY <1>7, SendStep
    <2>t. PICK t \in Timers : t = call[c].timer
      BY <1>7, SendStep
    <2>1. /\ at[c] = "send" /\ m.timer = t /\ cmds' = Append(cmds, m)
          /\ at' = [at EXCEPT ![c] = IF Len(todo[c]) > 1 THEN "send"
                                     ELSE IF call[c].op = "cancel" THEN "free" ELSE "done"]
          /\ UNCHANGED <<attached, fires, seq, left, queued, stopped, head, sem, daemon, active,
                         dpc, cur, call>>
      BY <1>7, <2>m, <2>t, SendStep
    <2>2. /\ at \in [Tasks -> Places] /\ Len(todo[c]) \in Nat
          /\ call[c].op \in {"schedule", "stop", "cancel", "reset"}
      BY <2>1, SendFacts, SeqLen DEF CallTypes
    <2>3. call[c].op \in {"schedule", "reset"} /\ ~(Len(todo[c]) > 1) => m.op = "arm"
      <3>1. CallTypes /\ CallsOK
        OBVIOUS
      <3>2. /\ call[c].op = "schedule" => Head(todo[c]) = Command("arm", t, 0)
            /\ call[c].op = "reset" => \/ Len(todo[c]) = 3 \/ Len(todo[c]) = 2
                                        \/ Head(todo[c]) = Command("arm", t, seq[t])
        BY <2>1, <2>t, <3>1, SendFacts
      <3>3. Len(todo[c]) = 3 \/ Len(todo[c]) = 2 => Len(todo[c]) > 1
        BY <2>2
      <3>4. Command("arm", t, 0).op = "arm" /\ Command("arm", t, seq[t]).op = "arm"
        BY CommandFields
      <3> QED BY <2>m, <3>2, <3>3, <3>4
    <2>4. m.op = "publish" => call[c].op = "reset" /\ Len(todo[c]) > 1
      <3>1. CallTypes /\ CallsOK
        OBVIOUS
      <3>2. /\ call[c].op = "schedule" => Head(todo[c]) = Command("arm", t, 0)
            /\ call[c].op = "stop" => Head(todo[c]) = Command("stop", t, seq[t])
            /\ call[c].op = "cancel" => Head(todo[c]) = Command("delete", t, 0)
            /\ call[c].op = "reset" => \/ Len(todo[c]) = 3 \/ Len(todo[c]) = 2
                                        \/ Head(todo[c]) = Command("arm", t, seq[t])
        BY <2>1, <2>t, <3>1, SendFacts
      <3>3. Len(todo[c]) = 3 \/ Len(todo[c]) = 2 => Len(todo[c]) > 1
        BY <2>2
      <3>4. /\ Command("arm", t, 0).op = "arm" /\ Command("arm", t, seq[t]).op = "arm"
            /\ Command("stop", t, seq[t]).op = "stop" /\ Command("delete", t, 0).op = "delete"
        BY CommandFields
      <3> QED BY <2>m, <2>2, <3>2, <3>3, <3>4
    <2>5. ASSUME call[c].op \in {"schedule", "reset"}, m.op # "arm" PROVE ArmsIt(c, t)'
      <3>1. Len(todo[c]) > 1
        BY <2>3, <2>5
      <3>2. at' = [at EXCEPT ![c] = "send"]
        BY <2>1, <3>1
      <3> QED BY <2>1, <2>2, <2>t, <2>5, <3>2 DEF ArmsIt
    <2>6. \A d \in Tasks \ {c}, x \in Timers : ArmsIt(d, x) => ArmsIt(d, x)'
      BY <2>1, <2>2 DEF ArmsIt
    <2>7. ASSUME NEW x \in Timers, Arming(x) PROVE Arming(x)' \/ (m.op = "arm" /\ m.timer = x)
      <3>1. PICK d \in Tasks : ArmsIt(d, x)
        BY <2>7 DEF Arming
      <3>2. CASE d = c
        <4>1. call[c].op \in {"schedule", "reset"} /\ x = t
          BY <2>t, <3>1, <3>2 DEF ArmsIt
        <4> QED BY <2>1, <2>5, <4>1 DEF Arming
      <3>3. CASE d # c
        BY <2>6, <3>1, <3>3 DEF Arming
      <3> QED BY <3>2, <3>3
    <2>8. ASSUME NEW x \in Timers, x = m.timer, m.op = "publish" PROVE Arming(x)'
      <3>1. ArmsIt(c, t)'
        BY <2>4, <2>5, <2>8
      <3> QED BY <2>1, <2>8, <3>1 DEF Arming
    <2> QED BY <2>1, <2>7, <2>8, DuesAppend DEF SchedulerTypes
  <1>8. ASSUME NEW c \in Tasks, EndCall(c)
        PROVE  Dues'
    <2>1. /\ UNCHANGED <<cmds, seq, left, fires,
                         active>> /\ attached' \ stopped' \subseteq attached \ stopped
          /\ queued \subseteq queued' /\ (dpc = "rearm" => cur' = cur /\ dpc' = dpc)
          /\ UNCHANGED <<head, sem, daemon, dpc>>
          /\ call' = [call EXCEPT ![c] = [op |-> "none", timer |-> NULL]] /\ at' = [at EXCEPT ![c] = "idle"]
          /\ at[c] # "send"
      BY <1>8 DEF EndCall, Free, Jump, Enter, NoCall, blockVars, flagVars, listVars, daemonVars,
         dispVars, callVars, history
    <2>2. \A x \in Timers : Arming(x) => Arming(x)'
      <3>1. \A x \in Timers, d \in Tasks : ArmsIt(d, x) => at'[d] = at[d] /\ call'[d] = call[d]
        BY <2>1 DEF ArmsIt, CallTypes
      <3> QED BY <3>1 DEF Arming, ArmsIt
    <2>3. Woken'
      BY <2>1, DuesParts DEF Woken
    <2> QED BY <2>1, <2>2, <2>3, DuesCalm DEF SchedulerTypes
  <1>9. CASE GiveSemaphore
    <2>1. /\ UNCHANGED <<cmds, seq, left, fires,
                         active>> /\ attached' \ stopped' \subseteq attached \ stopped
          /\ queued \subseteq queued' /\ (dpc = "rearm" => cur' = cur /\ dpc' = dpc)
          /\ UNCHANGED <<call, at>>
          /\ sem' = TRUE
      BY <1>9 DEF GiveSemaphore, blockVars, flagVars, listVars, daemonVars, dispVars, callVars,
         history
    <2>2. \A x \in Timers : Arming(x) => Arming(x)'
      BY <2>1 DEF Arming, ArmsIt
    <2>3. Woken'
      BY <2>1, DuesParts DEF Woken
    <2> QED BY <2>1, <2>2, <2>3, DuesCalm DEF SchedulerTypes
  <1>10. CASE RunCommand
    BY <1>10, DuesRun
  <1>11. ASSUME NEW t \in Timers, Expire(t)
        PROVE  Dues'
    <2>1. /\ UNCHANGED <<cmds, seq, attached, stopped, call, at, dpc, cur,
                         sem>> /\ daemon = "idle" /\ t \in active
          /\ active' = IF t \in Periodic THEN active ELSE active \ {t}
          /\ left' = [left EXCEPT ![t] = IF left[t] > 0 THEN left[t] - 1 ELSE 0]
          /\ \/ /\ t \in attached \ stopped
                /\ fires' = [fires EXCEPT ![t] = CountFire(t)]
                /\ \/ t \in queued /\ UNCHANGED <<queued, head, daemon>>
                   \/ queued' = queued \cup {t} /\ daemon' = "give"
             \/ /\ t \notin attached \ stopped
                /\ UNCHANGED <<queued, head, daemon, fires>>
      BY <1>11 DEF Expire, Enqueue, blockVars, flagVars, listVars, daemonVars, dispVars, callVars,
         history
    <2>2. /\ fires \in [Timers -> Nat] /\ left \in [Timers -> Nat] /\ CountFire(t) > 0
          /\ \A x \in Timers : x # t => fires'[x] = fires[x] /\ left'[x] = left[x]
      <3>1. fires \in [Timers -> Nat] /\ left \in [Timers -> Nat]
        BY DEF CountTypes
      <3>2. CountFire(t) > 0
        <4>1. fires[t] \in Nat /\ CatchUpMax \in Nat \ {0}
          BY <3>1
        <4>2. CASE fires[t] < CatchUpMax
          <5>1. CountFire(t) = fires[t] + 1
            BY <4>2 DEF CountFire
          <5> QED BY <4>1, <5>1
        <4>3. CASE ~(fires[t] < CatchUpMax)
          <5>1. CountFire(t) = fires[t]
            BY <4>3 DEF CountFire
          <5> QED BY <4>1, <4>3, <5>1
        <4> QED BY <4>2, <4>3
      <3> QED BY <2>1, <3>1, <3>2
    <2>3. ASSUME NEW x \in attached' \ stopped' PROVE Due(x)'
      <3>1. Due(x) /\ x \in Timers /\ x \in attached \ stopped
        BY <2>1, DuesParts DEF SetTypes
      <3>2. CASE x = t
        <4>1. fires'[t] > 0
          BY <2>1, <2>2, <3>1, <3>2
        <4>2. t \in Periodic => Coming(t)'
          BY <2>1 DEF Coming
        <4> QED BY <3>2, <4>1, <4>2 DEF Due
      <3>3. CASE x # t
        <4>1. Coming(x) => Coming(x)'
          BY <2>1, <3>3 DEF Coming, ArmsIt
        <4>2. fires'[x] = fires[x] /\ left'[x] = left[x]
          BY <2>2, <3>1, <3>3
        <4> QED BY <2>1, <3>1, <4>1, <4>2 DEF Due
      <3> QED BY <3>2, <3>3
    <2>4. ASSUME NEW i \in 1..Len(cmds') PROVE Followed(i)'
      BY <2>1, DuesParts DEF Followed, Current, Arming, ArmsIt
    <2>5. Counted'
      <3>1. \A x \in Timers : x \in queued => x \in queued'
        BY <2>1
      <3>2. fires'[t] > 0 => t \in queued'
        BY <2>1, DuesParts DEF Counted
      <3> QED BY <2>2, <3>1, <3>2, DuesParts DEF Counted
    <2>6. Woken'
      BY <2>1, DuesParts DEF Woken
    <2> QED BY <2>3, <2>4, <2>5, <2>6, DuesPartsNext
  <1>12. CASE TakeSemaphore
    <2>1. /\ UNCHANGED <<cmds, seq, left, fires,
                         active>> /\ attached' \ stopped' \subseteq attached \ stopped
          /\ queued \subseteq queued' /\ (dpc = "rearm" => cur' = cur /\ dpc' = dpc)
          /\ UNCHANGED <<call, at>>
          /\ dpc' = "detach"
      BY <1>12 DEF TakeSemaphore, At, blockVars, flagVars, listVars, daemonVars, dispVars, callVars,
         history
    <2>2. \A x \in Timers : Arming(x) => Arming(x)'
      BY <2>1 DEF Arming, ArmsIt
    <2>3. Woken'
      BY <2>1, DuesParts DEF Woken
    <2> QED BY <2>1, <2>2, <2>3, DuesCalm DEF SchedulerTypes
  <1>13. CASE DetachList
    <2>1. /\ UNCHANGED <<cmds, seq, left, fires,
                         active>> /\ attached' \ stopped' \subseteq attached \ stopped
          /\ queued \subseteq queued' /\ (dpc = "rearm" => cur' = cur /\ dpc' = dpc)
          /\ UNCHANGED <<call, at>>
          /\ head' = NULL
      BY <1>13 DEF DetachList, At, Walk, blockVars, flagVars, listVars, daemonVars, dispVars,
         callVars, history
    <2>2. \A x \in Timers : Arming(x) => Arming(x)'
      BY <2>1 DEF Arming, ArmsIt
    <2>3. Woken'
      BY <2>1, DuesParts DEF Woken
    <2> QED BY <2>1, <2>2, <2>3, DuesCalm DEF SchedulerTypes
  <1>14. CASE ReadNext
    <2>1. /\ UNCHANGED <<cmds, seq, left, fires,
                         active>> /\ attached' \ stopped' \subseteq attached \ stopped
          /\ queued \subseteq queued' /\ (dpc = "rearm" => cur' = cur /\ dpc' = dpc)
          /\ UNCHANGED <<call, at>>
          /\ UNCHANGED <<head, sem, daemon>> /\ dpc # "detach"
      BY <1>14 DEF ReadNext, At, Walk, blockVars, flagVars, listVars, daemonVars, dispVars,
         callVars, history
    <2>2. \A x \in Timers : Arming(x) => Arming(x)'
      BY <2>1 DEF Arming, ArmsIt
    <2>3. Woken'
      BY <2>1, DuesParts DEF Woken
    <2> QED BY <2>1, <2>2, <2>3, DuesCalm DEF SchedulerTypes
  <1>15. CASE Claim
    <2>1. /\ UNCHANGED <<cmds, seq, left, fires,
                         active>> /\ attached' \ stopped' \subseteq attached \ stopped
          /\ queued \subseteq queued' /\ (dpc = "rearm" => cur' = cur /\ dpc' = dpc)
          /\ UNCHANGED <<call, at>>
          /\ UNCHANGED <<head, sem, daemon>> /\ dpc # "detach"
      BY <1>15 DEF Claim, At, Walk, blockVars, flagVars, listVars, daemonVars, dispVars, callVars,
         history
    <2>2. \A x \in Timers : Arming(x) => Arming(x)'
      BY <2>1 DEF Arming, ArmsIt
    <2>3. Woken'
      BY <2>1, DuesParts DEF Woken
    <2> QED BY <2>1, <2>2, <2>3, DuesCalm DEF SchedulerTypes
  <1>16. CASE TakeExpiry
    <2>1. /\ UNCHANGED <<cmds, seq, left, active, attached, stopped, call, at, head, sem, daemon,
                         cur, cancelled>>
          /\ fires' = [fires EXCEPT ![cur] = 0] /\ queued' = queued \ {cur}
          /\ dpc \in {"take", "retake"} /\ (Rearm => dpc' = "rearm")
      BY <1>16 DEF TakeExpiry, At, TakeFires, blockVars, flagVars, listVars, daemonVars, dispVars,
         callVars, history
    <2>2. cur \in Timers
      BY <2>1, HeldBlock DEF Holding
    <2>3. fires \in [Timers -> Nat] /\ fires'[cur] = 0 /\ \A x \in Timers : x # cur => fires'[x] = fires[x]
      BY <2>1, <2>2 DEF CountTypes
    <2>4. ASSUME NEW x \in attached' \ stopped' PROVE Due(x)'
      <3>1. Due(x) /\ x \in Timers /\ x \in attached \ stopped /\ x \notin cancelled
        <4>1. x \in attached \ stopped /\ x \in Timers
          BY <2>1 DEF SetTypes
        <4>2. x \notin cancelled
          BY <4>1, BlocksParts DEF Owned
        <4>3. Due(x)
          BY <4>1, DuesParts
        <4> QED BY <4>1, <4>2, <4>3
      <3>2. Coming(x) => Coming(x)'
        BY <2>1 DEF Coming, ArmsIt
      <3>3. x = cur /\ left[x] > 0 /\ fires[x] > 0 => dpc' = "rearm"
        BY <2>1, <3>1 DEF Rearm, Runnable
      <3>4. x # cur => fires'[x] = fires[x]
        BY <2>3, <3>1
      <3>5. dpc # "rearm" /\ cur' = cur /\ left' = left
        BY <2>1
      <3> QED BY <3>1, <3>2, <3>3, <3>4, <3>5 DEF Due
    <2>5. ASSUME NEW i \in 1..Len(cmds') PROVE Followed(i)'
      BY <2>1, DuesParts DEF Followed, Current, Arming, ArmsIt
    <2>6. Counted'
      <3>1. ~(fires'[cur] > 0)
        BY <2>3
      <3> QED BY <2>1, <2>3, <3>1, DuesParts DEF Counted
    <2>7. Woken'
      BY <2>1, DuesParts DEF Woken
    <2> QED BY <2>4, <2>5, <2>6, <2>7, DuesPartsNext
  <1>17. CASE WaitCommands
    <2>1. /\ UNCHANGED <<cmds, seq, left, fires,
                         active>> /\ attached' \ stopped' \subseteq attached \ stopped
          /\ queued \subseteq queued' /\ (dpc = "rearm" => cur' = cur /\ dpc' = dpc)
          /\ UNCHANGED <<call, at>>
          /\ UNCHANGED <<head, sem, daemon>> /\ dpc # "detach"
      BY <1>17 DEF WaitCommands, At, Walk, blockVars, flagVars, listVars, daemonVars, dispVars,
         callVars, history
    <2>2. \A x \in Timers : Arming(x) => Arming(x)'
      BY <2>1 DEF Arming, ArmsIt
    <2>3. Woken'
      BY <2>1, DuesParts DEF Woken
    <2> QED BY <2>1, <2>2, <2>3, DuesCalm DEF SchedulerTypes
  <1>18. CASE LockRearm
    <2>1. /\ UNCHANGED <<cmds, seq, left, fires,
                         active>> /\ attached' \ stopped' \subseteq attached \ stopped
          /\ queued \subseteq queued' /\ (dpc = "rearm" => cur' = cur /\ dpc' = dpc)
          /\ UNCHANGED <<call, at>>
          /\ UNCHANGED <<head, sem, daemon>> /\ dpc # "detach"
      BY <1>18 DEF LockRearm, At, Walk, blockVars, flagVars, listVars, daemonVars, dispVars,
         callVars, history
    <2>2. \A x \in Timers : Arming(x) => Arming(x)'
      BY <2>1 DEF Arming, ArmsIt
    <2>3. Woken'
      BY <2>1, DuesParts DEF Woken
    <2> QED BY <2>1, <2>2, <2>3, DuesCalm DEF SchedulerTypes
  <1>19. CASE RetakeExpiry
    <2>1. /\ UNCHANGED <<cmds, seq, left, active, attached, stopped, call, at, head, sem, daemon,
                         cur, cancelled>>
          /\ fires' = [fires EXCEPT ![cur] = 0] /\ queued' = queued \ {cur}
          /\ dpc \in {"take", "retake"} /\ (Rearm => dpc' = "rearm")
      BY <1>19 DEF RetakeExpiry, At, TakeFires, blockVars, flagVars, listVars, daemonVars, dispVars,
         callVars, history
    <2>2. cur \in Timers
      BY <2>1, HeldBlock DEF Holding
    <2>3. fires \in [Timers -> Nat] /\ fires'[cur] = 0 /\ \A x \in Timers : x # cur => fires'[x] = fires[x]
      BY <2>1, <2>2 DEF CountTypes
    <2>4. ASSUME NEW x \in attached' \ stopped' PROVE Due(x)'
      <3>1. Due(x) /\ x \in Timers /\ x \in attached \ stopped /\ x \notin cancelled
        <4>1. x \in attached \ stopped /\ x \in Timers
          BY <2>1 DEF SetTypes
        <4>2. x \notin cancelled
          BY <4>1, BlocksParts DEF Owned
        <4>3. Due(x)
          BY <4>1, DuesParts
        <4> QED BY <4>1, <4>2, <4>3
      <3>2. Coming(x) => Coming(x)'
        BY <2>1 DEF Coming, ArmsIt
      <3>3. x = cur /\ left[x] > 0 /\ fires[x] > 0 => dpc' = "rearm"
        BY <2>1, <3>1 DEF Rearm, Runnable
      <3>4. x # cur => fires'[x] = fires[x]
        BY <2>3, <3>1
      <3>5. dpc # "rearm" /\ cur' = cur /\ left' = left
        BY <2>1
      <3> QED BY <3>1, <3>2, <3>3, <3>4, <3>5 DEF Due
    <2>5. ASSUME NEW i \in 1..Len(cmds') PROVE Followed(i)'
      BY <2>1, DuesParts DEF Followed, Current, Arming, ArmsIt
    <2>6. Counted'
      <3>1. ~(fires'[cur] > 0)
        BY <2>3
      <3> QED BY <2>1, <2>3, <3>1, DuesParts DEF Counted
    <2>7. Woken'
      BY <2>1, DuesParts DEF Woken
    <2> QED BY <2>4, <2>5, <2>6, <2>7, DuesPartsNext
  <1>20. CASE SendRearm
    <2>1. /\ UNCHANGED <<seq, left, fires, active, attached, stopped, queued, head, sem, daemon,
                         call, at>>
          /\ dpc = "rearm" /\ cmds' = Append(cmds, Command("arm", cur, taken))
      BY <1>20 DEF SendRearm, At, blockVars, flagVars, listVars, daemonVars, dispVars, callVars,
         history
    <2>2. cur \in Timers /\ taken \in Nat
      BY <2>1, HeldBlock DEF Holding, CountTypes
    <2>3. PICK m \in AnyCommand : m = Command("arm", cur, taken)
      BY <2>2, CommandTypes
    <2>4. m.op = "arm" /\ m.timer = cur
      BY <2>3, CommandFields
    <2>5. \A x \in Timers : Arming(x) => Arming(x)'
      BY <2>1 DEF Arming, ArmsIt
    <2> QED BY <2>1, <2>3, <2>4, <2>5, DuesAppend DEF SchedulerTypes
  <1>21. CASE UnlockRearm
    <2>1. /\ UNCHANGED <<cmds, seq, left, fires,
                         active>> /\ attached' \ stopped' \subseteq attached \ stopped
          /\ queued \subseteq queued' /\ (dpc = "rearm" => cur' = cur /\ dpc' = dpc)
          /\ UNCHANGED <<call, at>>
          /\ UNCHANGED <<head, sem, daemon>> /\ dpc # "detach"
      BY <1>21 DEF UnlockRearm, At, Walk, blockVars, flagVars, listVars, daemonVars, dispVars,
         callVars, history
    <2>2. \A x \in Timers : Arming(x) => Arming(x)'
      BY <2>1 DEF Arming, ArmsIt
    <2>3. Woken'
      BY <2>1, DuesParts DEF Woken
    <2> QED BY <2>1, <2>2, <2>3, DuesCalm DEF SchedulerTypes
  <1>22. CASE CheckRun
    <2>1. /\ UNCHANGED <<cmds, seq, left, fires,
                         active>> /\ attached' \ stopped' \subseteq attached \ stopped
          /\ queued \subseteq queued' /\ (dpc = "rearm" => cur' = cur /\ dpc' = dpc)
          /\ UNCHANGED <<call, at>>
          /\ UNCHANGED <<head, sem, daemon>> /\ dpc # "detach"
      BY <1>22 DEF CheckRun, At, Walk, blockVars, flagVars, listVars, daemonVars, dispVars,
         callVars, history
    <2>2. \A x \in Timers : Arming(x) => Arming(x)'
      BY <2>1 DEF Arming, ArmsIt
    <2>3. Woken'
      BY <2>1, DuesParts DEF Woken
    <2> QED BY <2>1, <2>2, <2>3, DuesCalm DEF SchedulerTypes
  <1>23. CASE StartTask
    <2>1. /\ UNCHANGED <<cmds, seq, left, fires,
                         active>> /\ attached' \ stopped' \subseteq attached \ stopped
          /\ queued \subseteq queued' /\ (dpc = "rearm" => cur' = cur /\ dpc' = dpc)
          /\ UNCHANGED <<call, at>>
          /\ UNCHANGED <<head, sem, daemon>> /\ dpc # "detach"
      BY <1>23 DEF StartTask, At, Walk, blockVars, flagVars, listVars, daemonVars, dispVars,
         callVars, history
    <2>2. \A x \in Timers : Arming(x) => Arming(x)'
      BY <2>1 DEF Arming, ArmsIt
    <2>3. Woken'
      BY <2>1, DuesParts DEF Woken
    <2> QED BY <2>1, <2>2, <2>3, DuesCalm DEF SchedulerTypes
  <1>24. CASE EndTask
    <2>1. /\ UNCHANGED <<cmds, seq, left, fires,
                         active>> /\ attached' \ stopped' \subseteq attached \ stopped
          /\ queued \subseteq queued' /\ (dpc = "rearm" => cur' = cur /\ dpc' = dpc)
          /\ UNCHANGED <<call, at>>
          /\ UNCHANGED <<head, sem, daemon>> /\ dpc # "detach"
      BY <1>24 DEF EndTask, At, Walk, blockVars, flagVars, listVars, daemonVars, dispVars, callVars,
         history
    <2>2. \A x \in Timers : Arming(x) => Arming(x)'
      BY <2>1 DEF Arming, ArmsIt
    <2>3. Woken'
      BY <2>1, DuesParts DEF Woken
    <2> QED BY <2>1, <2>2, <2>3, DuesCalm DEF SchedulerTypes
  <1>25. CASE Release
    <2>1. /\ UNCHANGED <<cmds, seq, left, fires,
                         active>> /\ attached' \ stopped' \subseteq attached \ stopped
          /\ queued \subseteq queued' /\ (dpc = "rearm" => cur' = cur /\ dpc' = dpc)
          /\ UNCHANGED <<call, at>>
          /\ UNCHANGED <<head, sem, daemon>> /\ dpc # "detach"
      BY <1>25 DEF Release, At, Walk, blockVars, flagVars, listVars, daemonVars, dispVars, callVars,
         history
    <2>2. \A x \in Timers : Arming(x) => Arming(x)'
      BY <2>1 DEF Arming, ArmsIt
    <2>3. Woken'
      BY <2>1, DuesParts DEF Woken
    <2> QED BY <2>1, <2>2, <2>3, DuesCalm DEF SchedulerTypes
  <1>26. CASE DeleteTimer
    <2>1. /\ UNCHANGED <<seq, left, fires, active, attached, stopped, queued, head, sem, daemon,
                         call, at>>
          /\ dpc = "delete" /\ cmds' = Append(cmds, Command("delete", cur, 0))
      BY <1>26 DEF DeleteTimer, At, blockVars, flagVars, listVars, daemonVars, dispVars, callVars,
         history
    <2>2. cur \in Timers
      BY <2>1, HeldBlock DEF Holding
    <2>3. PICK m \in AnyCommand : m = Command("delete", cur, 0)
      BY <2>2, CommandTypes
    <2>4. m.op = "delete"
      BY <2>3, CommandFields
    <2>5. \A x \in Timers : Arming(x) => Arming(x)'
      BY <2>1 DEF Arming, ArmsIt
    <2> QED BY <2>1, <2>3, <2>4, <2>5, DuesAppend DEF SchedulerTypes
  <1>27. CASE FreeBlock
    <2>1. /\ UNCHANGED <<cmds, seq, left, fires,
                         active>> /\ attached' \ stopped' \subseteq attached \ stopped
          /\ queued \subseteq queued' /\ (dpc = "rearm" => cur' = cur /\ dpc' = dpc)
          /\ UNCHANGED <<call, at>>
          /\ UNCHANGED <<head, sem, daemon>> /\ dpc # "detach"
      BY <1>27 DEF FreeBlock, At, Walk, blockVars, flagVars, listVars, daemonVars, dispVars,
         callVars, history
    <2>2. \A x \in Timers : Arming(x) => Arming(x)'
      BY <2>1 DEF Arming, ArmsIt
    <2>3. Woken'
      BY <2>1, DuesParts DEF Woken
    <2> QED BY <2>1, <2>2, <2>3, DuesCalm DEF SchedulerTypes
  <1> QED BY <1>1, <1>2, <1>3, <1>4, <1>5, <1>6, <1>7, <1>8, <1>9, <1>10, <1>11, <1>12, <1>13,
             <1>14, <1>15, <1>16, <1>17, <1>18, <1>19, <1>20, <1>21, <1>22, <1>23, <1>24, <1>25,
             <1>26, <1>27 DEF SchedulerNext, Using, Calling, Daemon, Dispatching

(* The invariant holds at the start,                                       *)
LEMMA SchedulerInvInit == SchedulerInit => SchedulerInv
  <1> SUFFICES ASSUME SchedulerInit PROVE SchedulerInv
    OBVIOUS
  <1> USE DEF SchedulerInit
  <1>1. SetTypes /\ LinkTypes
    BY DEF SetTypes, LinkTypes, TimerOrNull, Dpcs
  <1>2. CountTypes
    BY DEF CountTypes
  <1>3. CallTypes
    <2>1. <<>> \in Seq(AnyCommand)
      OBVIOUS
    <2>2. NoCall \in [op : Ops, timer : TimerOrNull]
      BY DEF NoCall, Ops, TimerOrNull
    <2> QED BY <2>1, <2>2 DEF CallTypes, Places
  <1>4. \A c \in Tasks : at[c] = "idle" /\ call[c] = [op |-> "none", timer |-> NULL]
    BY DEF NoCall
  <1>5. CallsOK
    <2>1. ASSUME NEW c \in Tasks PROVE CallOf(c)
      BY <1>4 DEF CallOf
    <2>2. OneCall
      BY <1>4 DEF OneCall
    <2>3. Turns
      <3>1. Dispatch \in Tasks
        BY DEF Tasks
      <3> QED BY <1>4, <3>1 DEF Turns
    <2> QED BY <2>1, <2>2, <2>3, CallsParts
  <1>6. Blocks
    <2>1. Owned
      BY DEF Owned
    <2>2. InHand
      BY DEF InHand, Claiming, Holding
    <2> QED BY <2>1, <2>2, BlocksParts
  <1>7. Links
    <2>1. Reach(next, NULL) = {}
      BY <1>1, ReachNull DEF LinkTypes, LinkFunctions
    <2>2. BatchOf(next, dpc, cur, nxt) = {} /\ dpc \notin HoldsOne
      BY DEF BatchOf, HoldsOne
    <2> QED BY <2>1, <2>2, LinksParts DEF LinksOf
  <1>8. Len(cmds) = 0 /\ 1..0 = {}
    OBVIOUS
  <1>9. Deletions
    BY <1>8 DEF Deletions, Doomed
  <1>10. Seqs
    <2>1. ~(0 > 0)
      OBVIOUS
    <2> QED BY <1>4, <1>8, <2>1 DEF Seqs, NoStaleExpiry
  <1>11. Dues
    <2>1. \A t \in Timers : ~(fires[t] > 0)
      OBVIOUS
    <2> QED BY <1>4, <1>8, <2>1 DEF Dues
  <1> QED BY <1>1, <1>2, <1>3, <1>5, <1>6, <1>7, <1>9, <1>10, <1>11 DEF SchedulerInv, SchedulerTypes

(* every step keeps it,                                                    *)
LEMMA SchedulerInvNext == SchedulerInv /\ [SchedulerNext]_schedulerVars => SchedulerInv'
  <1> SUFFICES ASSUME SchedulerInv, [SchedulerNext]_schedulerVars PROVE SchedulerInv'
    OBVIOUS
  <1> USE DEF SchedulerInv
  <1>1. CASE SchedulerNext
    <2>1. SchedulerTypes'
      BY <1>1, SetTypesNext, CountTypesNext, LinkTypesNext, CallTypesNext DEF SchedulerTypes
    <2>2. CallsOK' /\ Blocks' /\ Links'
      BY <1>1, CallsNext, BlocksNext, LinksNext
    <2>3. Deletions' /\ Seqs' /\ Dues'
      BY <1>1, DeletionsNext, SeqsNext, DuesNext
    <2> QED BY <2>1, <2>2, <2>3
  <1>2. CASE UNCHANGED schedulerVars
    <2> USE DEF schedulerVars, blockVars, flagVars, listVars, daemonVars, dispVars, callVars,
                history
    <2>1. SchedulerTypes'
      BY <1>2 DEF SchedulerTypes, SetTypes, CountTypes, LinkTypes, CallTypes
    <2>2. CallsOK'
      BY <1>2, CallsStill, CallsParts DEF Turns
    <2>3. Blocks'
      BY <1>2 DEF Blocks, Holding
    <2>4. Links'
      BY <1>2, LinksParts, LinksPartsNext
    <2>5. Deletions'
      BY <1>2 DEF Deletions, Doomed
    <2>6. Seqs'
      BY <1>2, SeqsCalm DEF Sending, SchedulerTypes
    <2>7. Dues'
      <3>1. \A t \in Timers : Arming(t) => Arming(t)'
        BY <1>2 DEF Arming, ArmsIt
      <3>2. Woken'
        BY <1>2, DuesParts DEF Woken
      <3> QED BY <1>2, <3>1, <3>2, DuesCalm
    <2> QED BY <2>1, <2>2, <2>3, <2>4, <2>5, <2>6, <2>7
  <1> QED BY <1>1, <1>2

(* so it always holds.                                                     *)
LEMMA SchedulerInvAlways == SchedulerSpec => []SchedulerInv
  BY SchedulerInvInit, SchedulerInvNext, PTL DEF SchedulerSpec

(* Nobody touches a freed block or a deleted timer: the last owner of a    *)
(* cancelled block frees it, whether osal_scheduler_cancel_task or the     *)
(* end of __dispatch_one, and its delete command is the last one sent.     *)
THEOREM FreedSafety == SchedulerSpec => []NoUseAfterFree
  <1>1. SchedulerInv => NoUseAfterFree
    <2> SUFFICES ASSUME SchedulerInv PROVE NoUseAfterFree
      OBVIOUS
    <2> USE DEF SchedulerInv
    <2>1. Holding => cur \in alloc
      BY BlocksParts DEF InHand
    <2>2. Batch \cup From(head) \cup attached \subseteq alloc
      BY BlocksParts DEF Owned, Links, QueuedIsLinked
    <2>3. ASSUME NEW c \in Tasks, at[c] \in {"lock", "mark"} PROVE call[c].timer \in attached
      <3>1. CallOf(c) /\ call[c].op \in Ops
        BY CallsParts DEF SchedulerTypes, CallTypes
      <3>2. usable \subseteq attached
        BY BlocksParts DEF Owned
      <3> QED BY <2>3, <3>1, <3>2 DEF CallOf, Ops
    <2>4. ASSUME NEW i \in 1..Len(cmds)
          PROVE  /\ cmds[i].timer \notin deleted
                 /\ cmds[i].op = "delete" => \A j \in (i+1)..Len(cmds) : cmds[j].timer # cmds[i].timer
      <3>1. Len(cmds) \in Nat
        BY CommandTimers DEF SchedulerTypes
      <3>2. \A j \in (i+1)..Len(cmds) : j \in 1..Len(cmds) /\ i < j
        BY <3>1
      <3> QED BY <3>2, DeletionsParts DEF SentToLiving, DeleteIsLast
    <2> QED BY <2>1, <2>2, <2>3, <2>4 DEF NoUseAfterFree
  <1> QED BY <1>1, SchedulerInvAlways, PTL

(* An expiry of a delay that osal_scheduler_reset_timer replaced, or       *)
(* osal_scheduler_stop_timer ended, is never left to run: the stop reaches *)
(* the daemon before __publish_reset clears the flag that drops expiries.  *)
THEOREM ExpirySafety == SchedulerSpec => []NoStaleExpiry
  <1>1. SchedulerInv => NoStaleExpiry
    BY SeqsParts DEF SchedulerInv
  <1> QED BY <1>1, SchedulerInvAlways, PTL

(* A timer that nobody stopped is not forgotten: it counts down, its arm   *)
(* command is on its way, or its expiry is in a list that __dispatch_one   *)
(* will visit, and __enqueue_locked never leaves a list without wake-up.   *)
THEOREM DueSafety == SchedulerSpec => []DueNotLost
  <1>1. SchedulerInv => DueNotLost
    <2> SUFFICES ASSUME SchedulerInv PROVE DueNotLost
      OBVIOUS
    <2> USE DEF SchedulerInv
    <2>1. ASSUME NEW t \in attached \ stopped
          PROVE  /\ left[t] > 0 \/ t \in Periodic =>
                      \/ t \in active
                      \/ \E i \in 1..Len(cmds) : cmds[i].op = "arm" /\ cmds[i].timer = t
                      \/ \E c \in Tasks : call[c].timer = t
                      \/ fires[t] > 0
                      \/ cur = t /\ dpc = "rearm"
                 /\ fires[t] > 0 => t \in From(head) \cup Batch
      <3>1. Due(t) /\ t \in Timers
        BY DuesParts DEF SchedulerTypes, SetTypes
      <3>2. Coming(t) => \/ t \in active
                         \/ \E i \in 1..Len(cmds) : cmds[i].op = "arm" /\ cmds[i].timer = t
                         \/ \E c \in Tasks : call[c].timer = t
        BY DEF Coming, ArmsIt
      <3>3. fires[t] > 0 => t \in From(head) \cup Batch
        BY <3>1, DuesParts DEF Counted, Links, QueuedIsLinked
      <3> QED BY <3>1, <3>2, <3>3 DEF Due
    <2>2. head # NULL => sem \/ daemon = "give" \/ dpc = "detach"
      BY DuesParts DEF Woken
    <2> QED BY <2>1, <2>2 DEF DueNotLost
  <1> QED BY <1>1, SchedulerInvAlways, PTL
=============================================================================
