------------------------------ MODULE WorkQueue ------------------------------
(***************************************************************************)
(* The SDK's work queue (esp_rmaker_neo_common/src/work_queue.c): one      *)
(* FIFO of closures drained by one worker task.  Every other part of the   *)
(* firmware runs its deferred work here.                                   *)
(*                                                                         *)
(* The queue handle is created once and never freed, so after a deinit     *)
(* and a new init the same queue serves a new lifecycle.  The model takes  *)
(* one step per atomic access of queue_state and per queue operation,      *)
(* because producers (timers, MQTT callbacks, the application) hold no     *)
(* lock against the lifecycle calls.                                       *)
(***************************************************************************)
EXTENDS Naturals, Sequences

CONSTANTS
    Producers,   \* tasks that call add_task (timer callbacks, MQTT callbacks, application)
    Workers,     \* identities for the worker tasks that start() creates
    App,         \* the task that calls init, start, stop and deinit
    QueueSize,   \* CONFIG_ESP_RMAKER_NEO_WORK_QUEUE_TASK_QUEUE_SIZE
    MaxLife      \* bound: how many lifecycles (init after a deinit) are explored

ASSUME QueueSizeAssumption == QueueSize \in Nat \ {0}
ASSUME MaxLifeAssumption == MaxLife \in Nat \ {0}
ASSUME ThreadsAssumption ==
    /\ Producers \cap Workers = {}
    /\ App \notin Producers \cup Workers

VARIABLES
    queueState,  \* the atomic queue_state
    queue,       \* the entries in the osal queue, oldest first
    pc,          \* where each task is
    item,        \* the entry a task is adding, or a worker is running
    ret,         \* where a task goes on after add_task (stop() calls it)
    life,        \* history: the number of lifecycles begun so far
    owed         \* history: how many of the oldest entries were queued when the stop was requested

vars == <<queueState, queue, pc, item, ret, life, owed>>

Threads == Producers \cup Workers \cup {App}

QueueStates == {"DEINIT", "INIT_DONE", "RUNNING", "STOP_REQUESTED", "PARKED"}

(***************************************************************************)
(* An entry is a closure; of what it does, only whether it calls           *)
(* esp_rmaker_work_queue_stop (as the core's stop task does) matters.      *)
(* Two history stamps are kept: the lifecycle in which add_task passed its *)
(* PARKED gate, and the one in which the entry entered the queue.          *)
(***************************************************************************)
Kinds == {"work", "stop", "empty"}
Entries == [kind : Kinds, gate : 0..MaxLife, sent : 0..MaxLife]
Entry(k, g, s) == [kind |-> k, gate |-> g, sent |-> s]
NoEntry == Entry("empty", 0, 0)

Labels == {"idle", "gate", "send",
           "initReopen", "initFlush",
           "spawn", "storeRunning",
           "stopCas", "deinitWait", "deinitLoad", "deinitFlush", "park",
           "dead", "loop", "receive", "run", "drain", "exit"}

Goto(t, l) == pc' = [pc EXCEPT ![t] = l]

Init ==
    /\ queueState = "DEINIT"
    /\ queue = <<>>
    /\ pc = [t \in Threads |-> IF t \in Workers THEN "dead" ELSE "idle"]
    /\ item = [t \in Threads |-> NoEntry]
    /\ ret = [t \in Threads |-> "idle"]
    /\ life = 0
    /\ owed = 0

-----------------------------------------------------------------------------
(* esp_rmaker_work_queue_add_task                                          *)

(* A producer calls add_task; the handle exists once the first init ran.   *)
AddTask(p) ==
    /\ pc[p] = "idle"
    /\ queueState # "DEINIT"
    /\ \E k \in {"work", "stop"} : item' = [item EXCEPT ![p] = Entry(k, 0, 0)]
    /\ Goto(p, "gate")
    /\ UNCHANGED <<queueState, queue, ret, life, owed>>

(* add_task returns and its locals are gone.                               *)
AddReturn(t) ==
    /\ Goto(t, ret[t])
    /\ ret' = [ret EXCEPT ![t] = "idle"]
    /\ item' = [item EXCEPT ![t] = NoEntry]

(* The check of queue_state: parked rejects.                               *)
AddGate(t) ==
    /\ pc[t] = "gate"
    /\ IF queueState = "PARKED"
       THEN AddReturn(t)
       ELSE /\ Goto(t, "send")
            /\ item' = [item EXCEPT ![t] = Entry(item[t].kind, life, 0)]
            /\ UNCHANGED ret
    /\ UNCHANGED <<queueState, queue, life, owed>>

(* The non-blocking send: a full queue fails.                              *)
AddSend(t) ==
    /\ pc[t] = "send"
    /\ IF Len(queue) < QueueSize
       THEN queue' = Append(queue, Entry(item[t].kind, item[t].gate, life))
       ELSE UNCHANGED queue
    /\ AddReturn(t)
    /\ UNCHANGED <<queueState, life, owed>>

-----------------------------------------------------------------------------
(* esp_rmaker_work_queue_init                                              *)

(* The load of queue_state and the choice it makes.  With the worker       *)
(* running, or when the queue cannot be created, init changes nothing.     *)
InitLoad ==
    /\ pc[App] = "idle"
    /\ \/ queueState \in {"DEINIT", "PARKED"} /\ life < MaxLife /\ Goto(App, "initReopen")
       \/ queueState = "INIT_DONE" /\ Goto(App, "initFlush")
    /\ UNCHANGED <<queueState, queue, item, ret, life, owed>>

(* Mutant of InitReopen: the reopened queue is not flushed.                *)
InitReopenNoFlush ==
    /\ pc[App] = "initReopen"
    /\ queueState' = "INIT_DONE"
    /\ life' = life + 1
    /\ Goto(App, "idle")
    /\ UNCHANGED <<queue, item, ret, owed>>

(* The store of INIT_DONE opens a new lifecycle ...                        *)
InitReopen ==
    /\ pc[App] = "initReopen"
    /\ queueState' = "INIT_DONE"
    /\ life' = life + 1
    /\ Goto(App, "initFlush")
    /\ UNCHANGED <<queue, item, ret, owed>>

(* ... and __flush_work_queue takes one entry at a time until it finds the *)
(* queue empty; add_task calls may come between.                           *)
FlushStep(from, next) ==
    /\ pc[App] = from
    /\ IF queue = <<>> THEN Goto(App, next) /\ UNCHANGED queue
                       ELSE queue' = Tail(queue) /\ UNCHANGED pc
    /\ owed' = 0
    /\ UNCHANGED <<queueState, item, ret, life>>

InitFlush == FlushStep("initFlush", "idle")

-----------------------------------------------------------------------------
(* esp_rmaker_work_queue_start                                             *)

StartLoad ==
    /\ pc[App] = "idle"
    /\ queueState = "INIT_DONE"
    /\ Goto(App, "spawn")
    /\ UNCHANGED <<queueState, queue, item, ret, life, owed>>

(* osal_task_create, which may fail; the new task runs at once, before     *)
(* start() has stored RUNNING.                                             *)
StartSpawn ==
    /\ pc[App] = "spawn"
    /\ \/ \E w \in Workers :
            /\ pc[w] = "dead"
            /\ pc' = [pc EXCEPT ![w] = "loop", ![App] = "storeRunning"]
       \/ Goto(App, "idle")
    /\ UNCHANGED <<queueState, queue, item, ret, life, owed>>

StartStore ==
    /\ pc[App] = "storeRunning"
    /\ queueState' = "RUNNING"
    /\ Goto(App, "idle")
    /\ UNCHANGED <<queue, item, ret, life, owed>>

-----------------------------------------------------------------------------
(* esp_rmaker_work_queue_stop and esp_rmaker_work_queue_deinit             *)

(* Mutant of StopCas: a plain store, whatever the state was.               *)
StopStores(t, after) ==
    /\ queueState' = "STOP_REQUESTED"
    /\ item' = [item EXCEPT ![t] = NoEntry]
    /\ ret' = [ret EXCEPT ![t] = after]
    /\ Goto(t, "gate")
    /\ owed' = Len(queue)
    /\ UNCHANGED <<queue, life>>

(* The compare-and-exchange RUNNING -> STOP_REQUESTED; the winner adds the *)
(* empty task that wakes the worker, then goes on at `after'.              *)
StopCas(t, after) ==
    IF queueState = "RUNNING"
    THEN /\ queueState' = "STOP_REQUESTED"
         /\ item' = [item EXCEPT ![t] = NoEntry]
         /\ ret' = [ret EXCEPT ![t] = after]
         /\ Goto(t, "gate")
         /\ owed' = Len(queue)
         /\ UNCHANGED <<queue, life>>
    ELSE /\ Goto(t, after)
         /\ item' = [item EXCEPT ![t] = NoEntry]
         /\ UNCHANGED <<queueState, queue, ret, life, owed>>

Stop == pc[App] = "idle" /\ StopCas(App, "idle")

(* deinit stops the worker unless that is under way ...                    *)
DeinitLoad ==
    /\ pc[App] = "idle"
    /\ Goto(App, IF queueState = "STOP_REQUESTED" THEN "deinitWait" ELSE "stopCas")
    /\ UNCHANGED <<queueState, queue, item, ret, life, owed>>

DeinitStop == pc[App] = "stopCas" /\ StopCas(App, "deinitWait")

(* ... polls until the state leaves STOP_REQUESTED ...                     *)
DeinitWait ==
    /\ pc[App] = "deinitWait"
    /\ queueState # "STOP_REQUESTED"
    /\ Goto(App, "deinitLoad")
    /\ UNCHANGED <<queueState, queue, item, ret, life, owed>>

(* ... gives up unless the worker is stopped, drains the queue and parks.  *)
DeinitState ==
    /\ pc[App] = "deinitLoad"
    /\ Goto(App, IF queueState = "INIT_DONE" THEN "deinitFlush" ELSE "idle")
    /\ UNCHANGED <<queueState, queue, item, ret, life, owed>>

DeinitFlush == FlushStep("deinitFlush", "park")

DeinitPark ==
    /\ pc[App] = "park"
    /\ queueState' = "PARKED"
    /\ Goto(App, "idle")
    /\ UNCHANGED <<queue, item, ret, life, owed>>

-----------------------------------------------------------------------------
(* The worker task                                                         *)

(* Mutant of WorkerLoop: INIT_DONE is stored before the task is done.      *)
WorkerLoopReleasesEarly(w) ==
    /\ pc[w] = "loop"
    /\ IF queueState = "STOP_REQUESTED"
       THEN queueState' = "INIT_DONE" /\ Goto(w, "exit")
       ELSE UNCHANGED queueState /\ Goto(w, "receive")
    /\ UNCHANGED <<queue, item, ret, life, owed>>

(* The loop condition of esp_rmaker_work_queue_task.                       *)
WorkerLoop(w) ==
    /\ pc[w] = "loop"
    /\ Goto(w, IF queueState = "STOP_REQUESTED" THEN "exit" ELSE "receive")
    /\ UNCHANGED <<queueState, queue, item, ret, life, owed>>

(* esp_rmaker_handle_work_queue: the receive with its 2 s timeout          *)
(* ("receive") and the non-blocking ones that drain the queue ("drain").   *)
(* An empty queue returns to the loop condition.                           *)
WorkerReceive(w) ==
    /\ pc[w] \in {"receive", "drain"}
    /\ IF queue = <<>>
       THEN Goto(w, "loop") /\ UNCHANGED <<queue, item, owed>>
       ELSE /\ item' = [item EXCEPT ![w] = Head(queue)]
            /\ queue' = Tail(queue)
            /\ owed' = IF owed > 0 THEN owed - 1 ELSE 0
            /\ Goto(w, "run")
    /\ UNCHANGED <<queueState, ret, life>>

(* The closure runs; the core's stop task calls stop() from inside it.     *)
WorkerRun(w) ==
    /\ pc[w] = "run"
    /\ IF item[w].kind = "stop"
       THEN StopCas(w, "drain")
       ELSE /\ Goto(w, "drain")
            /\ item' = [item EXCEPT ![w] = NoEntry]
            /\ UNCHANGED <<queueState, queue, ret, life, owed>>

(* The task's last stores.                                                 *)
WorkerExit(w) ==
    /\ pc[w] = "exit"
    /\ queueState' = "INIT_DONE"
    /\ Goto(w, "dead")
    /\ UNCHANGED <<queue, item, ret, life, owed>>

-----------------------------------------------------------------------------
Adding(t) == AddGate(t) \/ AddSend(t)
Working(w) == WorkerLoop(w) \/ WorkerReceive(w) \/ WorkerRun(w) \/ WorkerExit(w) \/ Adding(w)

(* A lifecycle call that has begun goes on.                                *)
AppGoesOn == \/ InitReopen \/ InitFlush \/ StartSpawn \/ StartStore
             \/ DeinitStop \/ DeinitWait \/ DeinitState \/ DeinitFlush \/ DeinitPark
             \/ Adding(App)

AppCalls == InitLoad \/ StartLoad \/ Stop \/ DeinitLoad

Next == \/ AppCalls
        \/ AppGoesOn
        \/ \E p \in Producers : AddTask(p) \/ Adding(p)
        \/ \E w \in Workers : Working(w)

(* A call that has begun is scheduled until it returns, and so is the      *)
(* worker task; nobody is obliged to begin a call.                         *)
Fairness == /\ WF_vars(AppGoesOn)
            /\ \A p \in Producers : WF_vars(Adding(p))
            /\ \A w \in Workers : WF_vars(Working(w))

Spec == Init /\ [][Next]_vars
FairSpec == Spec /\ Fairness

-----------------------------------------------------------------------------
TypeOK ==
    /\ queueState \in QueueStates
    /\ queue \in Seq(Entries)
    /\ Len(queue) <= QueueSize
    /\ pc \in [Threads -> Labels]
    /\ item \in [Threads -> Entries]
    /\ ret \in [Threads -> Labels]
    /\ life \in 0..MaxLife
    /\ owed \in Nat

Alive(w) == pc[w] # "dead"

(* A worker is taking or running an entry.                                 *)
Busy(w) == pc[w] \in {"receive", "run", "drain", "gate", "send"}

(* start() never creates a second worker while one is alive: the entries   *)
(* of the queue run one after the other, which all of the SDK relies on.   *)
AtMostOneWorker ==
    \A v, w \in Workers : Alive(v) /\ Alive(w) => v = w

(* An entry that entered the queue before a deinit is never run after the  *)
(* next init: the flush of init (work_queue.c:140-143) keeps it out of the *)
(* freshly initialised SDK.                                                *)
NoStaleEntryRuns ==
    \A w \in Workers : pc[w] = "run" => item[w].sent = life

(* __flush_work_queue never runs while a worker is alive, the precondition *)
(* its comment states (work_queue.c:98-99).                                *)
FlushAlone ==
    pc[App] \in {"initFlush", "deinitFlush", "park"} => \A w \in Workers : ~Alive(w)

(* The comment at work_queue.c:104-105 says more than NoStaleEntryRuns: a  *)
(* stale task "can never execute against freshly re-initialised state".    *)
(* It counts the producer that passed the gate before the deinit and sends *)
(* after the flush of the next init.                                       *)
NoStaleTaskRuns ==
    \A w \in Workers : pc[w] = "run" => item[w].gate = life

(* The comment on STOP_REQUESTED (work_queue.c:36): entries already queued *)
(* when the worker is asked to exit are executed before it exits.          *)
QueuedWorkRunsBeforeExit ==
    \A w \in Workers : pc[w] = "exit" => owed = 0

(* A stop request is answered, once the producers leave the queue alone:   *)
(* the worker drains it, sees the state and exits.                         *)
StopCompletes ==
    <>[](\A p \in Producers : pc[p] = "idle")
        => (queueState = "STOP_REQUESTED" ~> queueState = "INIT_DONE")
=============================================================================
