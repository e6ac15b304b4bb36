--------------------------- MODULE Reports_proofs ---------------------------
(***************************************************************************)
(* Proofs about the two components that report to the cloud.  First the    *)
(* OTA status manager, for any number of jobs, entries and faults: the     *)
(* types, that a decided final status is kept until the cloud's record has *)
(* ended, and that the manager implements JobReport.  Then the             *)
(* state-report pipeline, for any nodes, parameters and tasks and any      *)
(* bounds.                                                                 *)
(*                                                                         *)
(* The argument for the status manager.  The cache forgets a status only   *)
(* when the answer to an update settles it, or when the state machine,     *)
(* told of such an answer, clears the job.  So NotForgotten needs that an  *)
(* answer which settles comes from a record that has ended (Concluded), of *)
(* the job whose entry its token names: entry numbers are never used twice *)
(* (Named).  The cloud's record ends in what an update says, so the        *)
(* refinement needs that every final status on its way was decided         *)
(* (Decided).                                                              *)
(*                                                                         *)
(* Its proofs go in two stages.  Keeps and AllSteps go through the twenty  *)
(* actions once and say what a step may add; the invariants are then       *)
(* proved from these two alone.                                            *)
(***************************************************************************)
EXTENDS OtaStatus, StateReport, TLAPS

-----------------------------------------------------------------------------
(* The inductive invariant.                                                *)

(* Entry numbers: what is in the cache, on its way or in a task's hands    *)
(* names an entry that was created, and the job it was created for.        *)
Named ==
    /\ \A i \in live : i < nextId /\ entry[i].job \in Jobs
    /\ \A m \in net : m.id < nextId /\ entry[m.id].job = m.job
    /\ \A r \in resp : r.id < nextId /\ entry[r.id].job \in Jobs
    /\ \A c \in Callers : snd[c].pc # "idle" =>
          /\ snd[c].job \in Jobs /\ snd[c].status \in Statuses
          /\ snd[c].id \in Ids /\ snd[c].id < nextId /\ entry[snd[c].id].job = snd[c].job
    /\ retry.pc \in {"publish", "revert"} =>
          /\ retry.job \in Jobs /\ retry.status \in Terminal
          /\ retry.id \in Ids /\ retry.id < nextId /\ entry[retry.id].job = retry.job
    /\ retry.pc \in {"locked", "arm"} => retry.id \in Ids

(* A final status that is cached, to be resent, being sent or on its way   *)
(* was decided by the device for that job.                                 *)
Decided ==
    /\ \A i \in live : entry[i].cached # None => entry[i].cached \in verdicts[entry[i].job]
    /\ \A u \in todo : u.status \in verdicts[u.job]
    /\ \A m \in net : m.status \in Terminal => m.status \in verdicts[m.job]
    /\ \A c \in Callers : snd[c].pc # "idle" /\ snd[c].status \in Terminal =>
          snd[c].status \in verdicts[snd[c].job]
    /\ retry.pc \in {"publish", "revert"} => retry.status \in verdicts[retry.job]

(* An answer that settles a job, and an outcome that was posted to the     *)
(* state machine, are of a job whose record at the cloud has ended.        *)
Concluded ==
    /\ \A r \in resp : Settles(r) => Done(entry[r.id].job)
    /\ \A j \in told : Done(j)

-----------------------------------------------------------------------------
(* Types.                                                                  *)

(* The first version and the first id are within the bounds.               *)
LEMMA BoundFacts == 1 \in Versions /\ 0 \in Versions /\ 1 \in Ids /\ MaxId \in Nat
BY BoundsAssumption DEF Versions, Ids

(* A version that is counted on stays within its bound.                    *)
LEMMA BumpType == ASSUME NEW v \in Versions PROVE Bump(v) \in Versions
BY BoundsAssumption DEF Versions, Bump

(* A caller at rest is a caller of every kind.                             *)
LEMMA IdleType == /\ Idle \in Calls({"idle", "publish", "revert"})
                  /\ Idle \in Calls({"idle", "locked", "publish", "revert", "arm"})
BY BoundFacts DEF Idle, Calls

(* An entry has its fields.                                                *)
LEMMA EntryType ==
    ASSUME TypeOK, NEW i \in Ids, NEW j \in Jobs, IsEntry(i, j)
    PROVE  Entry(i, j) \in EntryRecs
BY BoundFacts DEF TypeOK, EntryRecs, Entry, IsEntry

(* Storing an entry keeps the types of the entries and of the storage.     *)
LEMMA StoreType ==
    ASSUME TypeOK, NEW i \in Ids, NEW j \in Jobs, IsEntry(i, j), NEW e \in EntryRecs, Store(i, e)
    PROVE  live' \subseteq Ids /\ nextId' \in 1..(MaxId + 1) /\ entry' \in [Ids -> EntryRecs]
  <1>1. live' \subseteq Ids /\ entry' \in [Ids -> EntryRecs]
    BY DEF TypeOK, Store
  <1>2. nextId' \in 1..(MaxId + 1)
    <2>1. i \notin live => i = nextId
      BY DEF IsEntry
    <2> QED BY <2>1, BoundsAssumption DEF TypeOK, Store, Ids
  <1> QED BY <1>1, <1>2

(* A fault counts against its bound.                                       *)
LEMMA FaultType == ASSUME TypeOK, Fault PROVE faults' \in 0..MaxFaults
BY BoundsAssumption DEF TypeOK, Fault

(* Removing an entry keeps the types.                                      *)
LEMMA RemoveType ==
    ASSUME TypeOK, NEW i \in Ids, Remove(i)
    PROVE  /\ live' \subseteq Ids /\ nextId' \in 1..(MaxId + 1) /\ armed' \subseteq Ids
           /\ entry' \in [Ids -> EntryRecs]
           /\ \A k \in Ids : entry'[k].job = entry[k].job
           /\ \A k \in Ids \ {i} : entry'[k] = entry[k]
BY BoundFacts DEF TypeOK, Remove, EntryRecs

(* A send under the lock keeps the types, whichever way it ends.           *)
LEMMA SendType ==
    ASSUME TypeOK, NEW c \in Callers, NEW j \in Jobs, NEW s \in Statuses, SendLocked(c, j, s)
    PROVE  /\ live' \subseteq Ids /\ nextId' \in 1..(MaxId + 1) /\ armed' \subseteq Ids
           /\ entry' \in [Ids -> EntryRecs]
           /\ snd' \in [Callers -> Calls({"idle", "publish", "revert"})]
           /\ faults' \in 0..MaxFaults
           /\ verdicts' \in [Jobs -> SUBSET Terminal] /\ unarmed' \subseteq Ids
  <1>1. PICK i \in Ids :
        LET e == Entry(i, j)
            held == [e EXCEPT !.cached = IF Caches(s) THEN s ELSE e.cached] IN
        /\ IsEntry(i, j)
        /\ \/ /\ Store(i, [held EXCEPT !.version = Bump(e.version)])
              /\ armed' = IF Caches(s) THEN armed \cup {i} ELSE armed
              /\ snd' = [snd EXCEPT ![c] = [pc |-> "publish", job |-> j, status |-> s,
                                            ver |-> e.version, id |-> i]]
              /\ verdicts' = [verdicts EXCEPT ![j] = @ \cup ({s} \cap Terminal)]
              /\ UNCHANGED <<unarmed, faults>>
           \/ /\ Caches(s)
              /\ Store(i, e)
              /\ Fault
              /\ UNCHANGED <<armed, snd, verdicts, unarmed>>
           \/ /\ Caches(s) /\ i \notin armed
              /\ Store(i, held)
              /\ verdicts' = [verdicts EXCEPT ![j] = @ \cup ({s} \cap Terminal)]
              /\ unarmed' = unarmed \cup {i}
              /\ Fault
              /\ UNCHANGED <<armed, snd>>
    BY DEF SendLocked
  <1> DEFINE e    == Entry(i, j)
             held == [e EXCEPT !.cached = IF Caches(s) THEN s ELSE e.cached]
             up   == [held EXCEPT !.version = Bump(e.version)]
  <1>2. e \in EntryRecs
    BY <1>1, EntryType
  <1>3. held \in EntryRecs /\ held.version = e.version
    BY <1>2 DEF EntryRecs, Caches
  <1>4. up \in EntryRecs
    BY <1>2, <1>3, BumpType DEF EntryRecs
  <1>5. e.version \in Versions
    BY <1>2 DEF EntryRecs
  <1> HIDE DEF e, held, up
  <1>6. live' \subseteq Ids /\ nextId' \in 1..(MaxId + 1) /\ entry' \in [Ids -> EntryRecs]
    BY <1>1, <1>2, <1>3, <1>4, StoreType DEF e, held, up
  <1>7. armed' \subseteq Ids /\ unarmed' \subseteq Ids /\ faults' \in 0..MaxFaults
    BY <1>1, FaultType DEF TypeOK
  <1>8. verdicts' \in [Jobs -> SUBSET Terminal]
    BY <1>1 DEF TypeOK
  <1>9. snd' \in [Callers -> Calls({"idle", "publish", "revert"})]
    <2>1. [pc |-> "publish", job |-> j, status |-> s, ver |-> e.version, id |-> i]
              \in Calls({"idle", "publish", "revert"})
      BY <1>5 DEF Calls
    <2> QED BY <2>1, <1>1 DEF TypeOK, e
  <1> QED BY <1>6, <1>7, <1>8, <1>9

(* Overwriting the version of an entry keeps the types.                    *)
LEMMA OverwriteType ==
    ASSUME TypeOK, NEW j \in Jobs, NEW v \in Versions, OverwriteVersion(j, v)
    PROVE  live' \subseteq Ids /\ nextId' \in 1..(MaxId + 1) /\ entry' \in [Ids -> EntryRecs]
  <1>1. PICK i \in Ids : IsEntry(i, j) /\ Store(i, [Entry(i, j) EXCEPT !.version = v])
    BY DEF OverwriteVersion
  <1>2. [Entry(i, j) EXCEPT !.version = v] \in EntryRecs
    BY <1>1, EntryType DEF EntryRecs
  <1> QED BY <1>1, <1>2, StoreType

(* An update that is published has its fields.                             *)
LEMMA UpdateType == ASSUME NEW t, t.job \in Jobs, t.status \in Statuses, t.ver \in Versions, t.id \in Ids
                    PROVE  Msg(t) \in Update
BY DEF Msg, Update

(* An answer of the cloud has its fields.                                  *)
LEMMA AnswerType == ASSUME TypeOK, NEW m \in Update, NEW k \in {"accepted", "mismatch", "unrecoverable", "other"}
                    PROVE  /\ Answer(m, k) \in Answers
                           /\ Answer(m, k).id = m.id /\ Answer(m, k).kind = k
                           /\ Answer(m, k).term = (m.status \in Terminal)
  <1>1. m.id \in Ids /\ m.job \in Jobs
    BY DEF Update
  <1>2. ver[m.job] \in Versions
    BY <1>1 DEF TypeOK
  <1>3. (m.status \in Terminal) \in BOOLEAN
    OBVIOUS
  <1> DEFINE v == IF k = "mismatch" THEN ver[m.job] ELSE 0
             t == m.status \in Terminal
  <1>4. v \in Versions
    BY <1>2, BoundFacts
  <1> HIDE DEF v, t
  <1>5. [id |-> m.id, term |-> t, kind |-> k, ver |-> v] \in Answers
    BY <1>1, <1>3, <1>4 DEF Answers, t
  <1> QED BY <1>5 DEF Answer, v, t

(* The initial state is well typed.                                        *)
LEMMA TypeInit == Init => TypeOK
  <1> SUFFICES ASSUME Init PROVE TypeOK
    OBVIOUS
  <1>1. [job |-> None, version |-> 0, cached |-> None] \in EntryRecs
    BY BoundFacts DEF EntryRecs
  <1>2. entry \in [Ids -> EntryRecs]
    BY <1>1 DEF Init
  <1>3. snd \in [Callers -> Calls({"idle", "publish", "revert"})]
    BY IdleType DEF Init
  <1>4. 0 \in 0..MaxSends /\ 0 \in 0..MaxFaults /\ 1 \in 1..(MaxId + 1)
    BY BoundsAssumption
  <1> QED BY <1>2, <1>3, <1>4, IdleType, BoundFacts DEF TypeOK, Init

(* Every step keeps the types.                                             *)
LEMMA TypeStep == TypeOK /\ Named /\ [Next]_vars => TypeOK'
  <1> SUFFICES ASSUME TypeOK, Named, [Next]_vars PROVE TypeOK'
    OBVIOUS
  <1> USE DEF TypeOK
  <1>0. CASE UNCHANGED vars
    BY <1>0 DEF vars, cache, TypeOK
  <1>1. ASSUME NEW j \in Jobs, NEW s \in Statuses, Send(j, s) PROVE TypeOK'
    <2>1. SendLocked("worker", j, s) /\ "worker" \in Callers
      BY <1>1 DEF Send, Callers
    <2>2. sends' \in 0..MaxSends
      BY <1>1, BoundsAssumption DEF Send
    <2> QED BY <1>1, <2>1, <2>2, SendType DEF Send
  <1>2. ASSUME NEW j \in Jobs, SetInitialVersion(j) PROVE TypeOK'
    <2>1. sends' \in 0..MaxSends /\ ver[j] \in Versions
      BY <1>2, BoundsAssumption DEF SetInitialVersion
    <2> QED BY <1>2, <2>1, OverwriteType DEF SetInitialVersion
  <1>3. ASSUME NEW j \in Jobs, ClearJob(j) PROVE TypeOK'
    <2>1. CASE UNCHANGED cache
      BY <1>3, <2>1 DEF ClearJob, cache
    <2>2. ASSUME NEW i \in live, Remove(i) PROVE TypeOK'
      BY <1>3, <2>2, RemoveType DEF ClearJob
    <2> QED BY <1>3, <2>1, <2>2 DEF ClearJob
  <1>4. ASSUME NEW c \in Callers, PublishOk(c) PROVE TypeOK'
    <2>1. snd[c].ver \in Versions
      BY DEF Calls
    <2>2. Msg(snd[c]) \in Update
      BY <1>4, <2>1, UpdateType DEF PublishOk, Named
    <2> QED BY <1>4, <2>2, IdleType DEF PublishOk, cache
  <1>5. ASSUME NEW c \in Callers, PublishFails(c) PROVE TypeOK'
    <2>1. snd' \in [Callers -> Calls({"idle", "publish", "revert"})]
      BY <1>5 DEF PublishFails, Calls
    <2> QED BY <1>5, <2>1, FaultType DEF PublishFails, cache
  <1>6. ASSUME NEW c \in Callers, RevertVersion(c) PROVE TypeOK'
    <2>1. snd[c].ver \in Versions /\ snd[c].job \in Jobs
      BY <1>6 DEF Calls, RevertVersion, Named
    <2> QED BY <1>6, <2>1, OverwriteType, IdleType DEF RevertVersion
  <1>7. CASE Resubscribed
    <2>1. todo' \subseteq [job : Jobs, status : Terminal]
      BY <1>7 DEF Resubscribed, Named, EntryRecs
    <2>2. sends' \in 0..MaxSends
      BY <1>7, BoundsAssumption DEF Resubscribed
    <2> QED BY <1>7, <2>1, <2>2 DEF Resubscribed, cache
  <1>8. ASSUME NEW u \in todo, SendLocked("loop", u.job, u.status), todo' = todo \ {u},
               UNCHANGED <<retry, told, net, resp, exec, ver, sends, crashed>>
        PROVE  TypeOK'
    <2>1. u.job \in Jobs /\ u.status \in Statuses /\ "loop" \in Callers
      BY DEF Statuses, Callers
    <2> QED BY <1>8, <2>1, SendType
  <1>9. ASSUME NEW r \in resp, OnUpdateResponse(r) PROVE TypeOK'
    <2>0. r.id \in Ids /\ r.ver \in Versions /\ entry[r.id].job \in Jobs /\ entry[r.id] \in EntryRecs
      BY DEF Answers, Named
    <2>1. CASE r.id \in live /\ Settles(r) /\ Remove(r.id)
               /\ told' = told \cup {entry[r.id].job} /\ UNCHANGED todo
      BY <1>9, <2>0, <2>1, RemoveType DEF OnUpdateResponse
    <2>2. CASE r.id \in live /\ r.kind = "mismatch"
               /\ entry' = [entry EXCEPT ![r.id].version = VersionAfter(r)]
               /\ todo' = (IF entry[r.id].cached = None THEN {}
                           ELSE {[job |-> entry[r.id].job, status |-> entry[r.id].cached]})
               /\ UNCHANGED <<live, nextId, armed, told>>
      <3>1. entry' \in [Ids -> EntryRecs]
        BY <2>0, <2>2 DEF VersionAfter, EntryRecs
      <3>2. todo' \subseteq [job : Jobs, status : Terminal]
        BY <2>0, <2>2 DEF EntryRecs
      <3> QED BY <1>9, <2>2, <3>1, <3>2 DEF OnUpdateResponse
    <2>3. CASE UNCHANGED <<cache, todo, told>>
      BY <1>9, <2>3 DEF OnUpdateResponse, cache
    <2>4. CASE /\ armed' = (IF entry[r.id].cached = None THEN armed ELSE armed \cup {r.id})
               /\ UNCHANGED <<live, nextId, entry, todo, told>>
      BY <1>9, <2>0, <2>4 DEF OnUpdateResponse
    <2> QED BY <1>9, <2>1, <2>2, <2>3, <2>4 DEF OnUpdateResponse
  <1>10. ASSUME NEW i \in Ids, RetryFires(i) PROVE TypeOK'
    <2>1. [Idle EXCEPT !.pc = "locked", !.id = i] \in Calls({"idle", "locked", "publish", "revert", "arm"})
      BY BoundFacts DEF Idle, Calls
    <2> QED BY <1>10, <2>1 DEF RetryFires
  <1>11. CASE RetryUsesFreed
    BY <1>11 DEF RetryUsesFreed, cache
  <1>12. CASE RetryLocked
    <2> DEFINE e == entry[retry.id]
    <2>0. retry.id \in Ids /\ e \in EntryRecs /\ e.job \in Jobs
      BY <1>12 DEF RetryLocked, Named
    <2>1. CASE e.cached = None
      BY <1>12, <2>1, IdleType DEF RetryLocked
    <2>2. CASE e.cached # None
      <3>1. Bump(e.version) \in Versions /\ e.version \in Versions /\ e.cached \in Terminal
        BY <2>0, <2>2, BumpType DEF EntryRecs
      <3>2. entry' \in [Ids -> EntryRecs]
        BY <1>12, <2>0, <2>2, <3>1 DEF RetryLocked, EntryRecs
      <3>3. retry' \in Calls({"idle", "locked", "publish", "revert", "arm"})
        BY <1>12, <2>0, <2>2, <3>1 DEF RetryLocked, Calls, Statuses
      <3> QED BY <1>12, <3>2, <3>3 DEF RetryLocked
    <2> QED BY <2>1, <2>2
  <1>13. CASE RetryPublish
    <2>1. Msg(retry) \in Update
      BY <1>13, UpdateType DEF RetryPublish, Named, Calls, Statuses
    <2>2. [Idle EXCEPT !.pc = "arm", !.id = retry.id] \in Calls({"idle", "locked", "publish", "revert", "arm"})
      BY BoundFacts DEF Idle, Calls
    <2> QED BY <1>13, <2>1, <2>2 DEF RetryPublish, cache
  <1>14. CASE RetryPublishFails
    <2>1. retry' \in Calls({"idle", "locked", "publish", "revert", "arm"})
      BY <1>14 DEF RetryPublishFails, Calls
    <2> QED BY <1>14, <2>1, FaultType DEF RetryPublishFails, cache
  <1>15. CASE RetryRevert
    <2>1. retry.ver \in Versions /\ retry.job \in Jobs
      BY <1>15 DEF Calls, RetryRevert, Named
    <2>2. [Idle EXCEPT !.pc = "arm", !.id = retry.id] \in Calls({"idle", "locked", "publish", "revert", "arm"})
      BY BoundFacts DEF Idle, Calls
    <2> QED BY <1>15, <2>1, <2>2, OverwriteType DEF RetryRevert
  <1>16. CASE RetryArm
    BY <1>16, IdleType DEF RetryArm
  <1>17. ASSUME NEW m \in net, Accept(m) PROVE TypeOK'
    <2>1. m \in Update /\ Answer(m, "accepted") \in Answers
      BY AnswerType
    <2>2. m.job \in Jobs /\ m.status \in Statuses
      BY DEF Update
    <2>3. exec' \in [Jobs -> Statuses \cup {"QUEUED", "GONE"}]
      BY <1>17, <2>2 DEF Accept
    <2>4. ver' \in [Jobs -> Versions]
      <3>1. ver[m.job] + 1 \in Versions
        BY <1>17, <2>2, BoundsAssumption DEF Accept, Versions
      <3> QED BY <1>17, <2>2, <3>1 DEF Accept
    <2>5. net' \subseteq net
      BY <1>17 DEF Accept
    <2> QED BY <1>17, <2>1, <2>3, <2>4, <2>5 DEF Accept, cache
  <1>18. ASSUME NEW m \in net, NEW k \in {"mismatch", "unrecoverable", "other"}, Reject(m, k)
         PROVE  TypeOK'
    <2>1. m \in Update /\ Answer(m, k) \in Answers
      BY AnswerType
    <2>2. faults' \in 0..MaxFaults
      BY <1>18, FaultType DEF Reject
    <2> QED BY <1>18, <2>1, <2>2 DEF Reject, cache
  <1>19. ASSUME NEW j \in Jobs, Drop(j) PROVE TypeOK'
    BY <1>19 DEF Drop, cache
  <1>20. CASE Lose
    BY <1>20, FaultType DEF Lose, cache
  <1> QED
    BY <1>0, <1>1, <1>2, <1>3, <1>4, <1>5, <1>6, <1>7, <1>8, <1>9, <1>10, <1>11, <1>12, <1>13,
       <1>14, <1>15, <1>16, <1>17, <1>18, <1>19, <1>20
       DEF Next, Worker, Sending, Loop, ResendNext, Retry, Cloud

-----------------------------------------------------------------------------
(* What the operations on the cache preserve.                              *)

(* ota_status_cache_get_or_create_job_entries_locked finds the entry of    *)
(* the job, or makes an empty one under a new number.                      *)
LEMMA EntryJob ==
    ASSUME TypeOK, Named, NEW i \in Ids, NEW j \in Jobs, IsEntry(i, j)
    PROVE  /\ Entry(i, j).job = j
           /\ i \in live => entry[i].job = j /\ Entry(i, j) = entry[i]
           /\ i \notin live => i = nextId /\ Entry(i, j).cached = None
BY DEF TypeOK, Named, IsEntry, Entry, EntryRecs, Ids

(* Storing an entry changes no other, and no entry changes its job.        *)
LEMMA StoreKeeps ==
    ASSUME TypeOK, Named, NEW i \in Ids, NEW j \in Jobs, IsEntry(i, j),
           NEW e \in EntryRecs, e.job = j, Store(i, e)
    PROVE  /\ nextId <= nextId' /\ i < nextId'
           /\ live' = live \cup {i}
           /\ entry'[i] = e
           /\ \A k \in Ids : k < nextId => entry'[k].job = entry[k].job
           /\ \A k \in live \ {i} : entry'[k] = entry[k]
           /\ \A k \in live' : k < nextId' /\ entry'[k].job \in Jobs
  <1>1. i \in live => i < nextId /\ entry[i].job = j
    BY EntryJob DEF Named
  <1>2. i \notin live => i = nextId
    BY EntryJob
  <1>3. entry'[i] = e /\ \A k \in Ids \ {i} : entry'[k] = entry[k]
    BY DEF Store, TypeOK
  <1>4. nextId \in Int /\ nextId' \in Int /\ nextId <= nextId' /\ i < nextId'
    BY <1>1, <1>2, StoreType DEF Store, TypeOK, Ids
  <1>5. \A k \in Ids : k < nextId => entry'[k].job = entry[k].job
    BY <1>1, <1>2, <1>3, <1>4 DEF Ids
  <1>6. live' = live \cup {i}
    BY DEF Store
  <1>7. \A k \in live' : k < nextId' /\ entry'[k].job \in Jobs
    BY <1>3, <1>4, <1>6 DEF Named, TypeOK, Ids
  <1> QED BY <1>3, <1>4, <1>5, <1>6, <1>7 DEF TypeOK

(* What ota_status_send leaves behind, whatever becomes of it.             *)
LEMMA SendEffect ==
    ASSUME TypeOK, Named, NEW c \in Callers, NEW j \in Jobs, NEW s \in Statuses, SendLocked(c, j, s)
    PROVE  \E i \in Ids :
             /\ nextId <= nextId' /\ i < nextId' /\ live' = live \cup {i}
             /\ \A k \in Ids : k < nextId => entry'[k].job = entry[k].job
             /\ \A k \in live \ {i} : entry'[k] = entry[k]
             /\ \A k \in live' : k < nextId' /\ entry'[k].job \in Jobs
             /\ entry'[i].job = j
             /\ \/ entry'[i].cached = s /\ s \in Terminal /\ s \in verdicts'[j]
                \/ i \in live /\ entry'[i].cached = entry[i].cached /\ verdicts' = verdicts
                \/ i \notin live /\ entry'[i].cached = None /\ verdicts' = verdicts
             /\ \A k \in Jobs : verdicts[k] \subseteq verdicts'[k]
             /\ \A k \in Jobs \ {j} : verdicts'[k] = verdicts[k]
             /\ \A k \in Callers \ {c} : snd'[k] = snd[k]
             /\ \/ snd'[c] = snd[c] /\ snd[c].pc = "idle"
                \/ /\ snd'[c].job = j /\ snd'[c].status = s /\ snd'[c].id = i
                   /\ s \in Terminal => s \in verdicts'[j]
  <1>1. PICK i \in Ids :
        LET e == Entry(i, j)
            held == [e EXCEPT !.cached = IF Caches(s) THEN s ELSE e.cached] IN
        /\ IsEntry(i, j)
        /\ \/ /\ Store(i, [held EXCEPT !.version = Bump(e.version)])
              /\ armed' = IF Caches(s) THEN armed \cup {i} ELSE armed
              /\ snd' = [snd EXCEPT ![c] = [pc |-> "publish", job |-> j, status |-> s,
                                            ver |-> e.version, id |-> i]]
              /\ verdicts' = [verdicts EXCEPT ![j] = @ \cup ({s} \cap Terminal)]
              /\ UNCHANGED <<unarmed, faults>>
           \/ /\ Caches(s)
              /\ Store(i, e)
              /\ Fault
              /\ UNCHANGED <<armed, snd, verdicts, unarmed>>
           \/ /\ Caches(s) /\ i \notin armed
              /\ Store(i, held)
              /\ verdicts' = [verdicts EXCEPT ![j] = @ \cup ({s} \cap Terminal)]
              /\ unarmed' = unarmed \cup {i}
              /\ Fault
              /\ UNCHANGED <<armed, snd>>
    BY DEF SendLocked
  <1> DEFINE e    == Entry(i, j)
             held == [e EXCEPT !.cached = IF Caches(s) THEN s ELSE e.cached]
             up   == [held EXCEPT !.version = Bump(e.version)]
  <1>2. e \in EntryRecs /\ e.job = j
    BY <1>1, EntryType, EntryJob
  <1>3. /\ held \in EntryRecs /\ held.job = j
        /\ held.cached = IF Caches(s) THEN s ELSE e.cached
    BY <1>2 DEF EntryRecs, Caches
  <1>4. up \in EntryRecs /\ up.job = j /\ up.cached = held.cached
    BY <1>2, <1>3, BumpType DEF EntryRecs
  <1>5. /\ i \in live => e.cached = entry[i].cached
        /\ i \notin live => e.cached = None
    BY <1>1, EntryJob
  <1>a. /\ IsEntry(i, j)
        /\ \/ /\ Store(i, up)
              /\ snd' = [snd EXCEPT ![c] = [pc |-> "publish", job |-> j, status |-> s,
                                            ver |-> e.version, id |-> i]]
              /\ verdicts' = [verdicts EXCEPT ![j] = @ \cup ({s} \cap Terminal)]
           \/ Store(i, e) /\ snd' = snd /\ verdicts' = verdicts
           \/ /\ Store(i, held) /\ Caches(s) /\ snd' = snd
              /\ verdicts' = [verdicts EXCEPT ![j] = @ \cup ({s} \cap Terminal)]
    BY <1>1
  <1> DEFINE new == entry'[i]
  <1> HIDE DEF e, held, up
  <1>6. /\ nextId <= nextId' /\ i < nextId' /\ live' = live \cup {i}
        /\ \A k \in Ids : k < nextId => entry'[k].job = entry[k].job
        /\ \A k \in live \ {i} : entry'[k] = entry[k]
        /\ \A k \in live' : k < nextId' /\ entry'[k].job \in Jobs
        /\ new \in {e, held, up}
    <2>1. CASE Store(i, up)
      BY <1>a, <1>4, <2>1, StoreKeeps
    <2>2. CASE Store(i, e)
      BY <1>a, <1>2, <2>2, StoreKeeps
    <2>3. CASE Store(i, held)
      BY <1>a, <1>3, <2>3, StoreKeeps
    <2> QED BY <1>a, <2>1, <2>2, <2>3
  <1>7. new.job = j
    BY <1>2, <1>3, <1>4, <1>6
  <1>8. /\ \/ verdicts' = verdicts
           \/ verdicts' = [verdicts EXCEPT ![j] = @ \cup ({s} \cap Terminal)]
        /\ \A k \in Jobs : verdicts[k] \subseteq verdicts'[k]
        /\ \A k \in Jobs \ {j} : verdicts'[k] = verdicts[k]
    BY <1>a DEF TypeOK
  <1>9. \/ new.cached = s /\ s \in Terminal /\ s \in verdicts'[j]
        \/ new.cached = e.cached /\ verdicts' = verdicts
    <2>1. CASE Store(i, up) /\ verdicts' = [verdicts EXCEPT ![j] = @ \cup ({s} \cap Terminal)]
      <3>1. new = up
        BY <1>a, <1>4, <2>1, StoreKeeps
      <3>2. CASE s \in Terminal
        BY <1>3, <1>4, <2>1, <3>1, <3>2 DEF Caches, TypeOK
      <3>3. CASE s \notin Terminal
        <4>1. verdicts' = verdicts
          BY <2>1, <3>3 DEF TypeOK
        <4> QED BY <1>3, <1>4, <3>1, <3>3, <4>1 DEF Caches
      <3> QED BY <3>2, <3>3
    <2>2. CASE Store(i, e) /\ verdicts' = verdicts
      BY <1>a, <1>2, <2>2, StoreKeeps
    <2>3. CASE Caches(s) /\ Store(i, held) /\ verdicts' = [verdicts EXCEPT ![j] = @ \cup ({s} \cap Terminal)]
      <3>1. new = held
        BY <1>a, <1>3, <2>3, StoreKeeps
      <3> QED BY <1>3, <2>3, <3>1 DEF Caches, TypeOK
    <2> QED BY <1>a, <2>1, <2>2, <2>3
  <1>10. /\ \A k \in Callers \ {c} : snd'[k] = snd[k]
         /\ \/ snd'[c] = snd[c] /\ snd[c].pc = "idle"
            \/ /\ snd'[c].job = j /\ snd'[c].status = s /\ snd'[c].id = i
               /\ s \in Terminal => s \in verdicts'[j]
    <2>1. snd[c].pc = "idle"
      BY DEF SendLocked
    <2>2. CASE snd' = snd
      BY <2>1, <2>2
    <2>3. CASE /\ snd' = [snd EXCEPT ![c] = [pc |-> "publish", job |-> j, status |-> s,
                                             ver |-> e.version, id |-> i]]
               /\ verdicts' = [verdicts EXCEPT ![j] = @ \cup ({s} \cap Terminal)]
      BY <2>3 DEF TypeOK
    <2> QED BY <1>a, <2>2, <2>3
  <1> HIDE DEF new
  <1> QED BY <1>5, <1>6, <1>7, <1>8, <1>9, <1>10 DEF new

(* A new version number leaves every cached status alone.                  *)
LEMMA OverwriteEffect ==
    ASSUME TypeOK, Named, NEW j \in Jobs, NEW v \in Versions, OverwriteVersion(j, v)
    PROVE  /\ nextId <= nextId'
           /\ \A k \in Ids : k < nextId => entry'[k].job = entry[k].job
           /\ live \subseteq live'
           /\ \A k \in live' : k < nextId' /\ entry'[k].job \in Jobs
           /\ \A k \in live : entry'[k].job = entry[k].job /\ entry'[k].cached = entry[k].cached
           /\ \A k \in live' \ live : entry'[k].cached = None
  <1>1. PICK i \in Ids : IsEntry(i, j) /\ Store(i, [Entry(i, j) EXCEPT !.version = v])
    BY DEF OverwriteVersion
  <1> DEFINE e == [Entry(i, j) EXCEPT !.version = v]
  <1>2. e \in EntryRecs /\ e.job = j /\ e.cached = Entry(i, j).cached
    BY <1>1, EntryType, EntryJob DEF EntryRecs
  <1>3. /\ i \in live => Entry(i, j) = entry[i] /\ entry[i].job = j
        /\ i \notin live => Entry(i, j).cached = None
    BY <1>1, EntryJob
  <1>4. Store(i, e)
    BY <1>1
  <1> HIDE DEF e
  <1> QED BY <1>1, <1>2, <1>3, <1>4, StoreKeeps

(* The job of an entry number, a decision and the end of a record at the   *)
(* cloud are for ever.                                                     *)
LEMMA Keeps ==
    ASSUME TypeOK, Named, [Next]_vars
    PROVE  /\ nextId <= nextId'
           /\ \A k \in Ids : k < nextId => entry'[k].job = entry[k].job
           /\ \A k \in live' : k < nextId' /\ entry'[k].job \in Jobs
           /\ \A k \in Jobs : verdicts[k] \subseteq verdicts'[k]
           /\ \A k \in Jobs : Done(k) => Done(k)'
  <1> DEFINE Goal == /\ nextId <= nextId'
                     /\ \A k \in Ids : k < nextId => entry'[k].job = entry[k].job
                     /\ \A k \in live' : k < nextId' /\ entry'[k].job \in Jobs
                     /\ \A k \in Jobs : verdicts[k] \subseteq verdicts'[k]
                     /\ \A k \in Jobs : Done(k) => Done(k)'
  <1>a. nextId \in Int
    BY DEF TypeOK
  <1>b. \A k \in Jobs : exec' = exec => (Done(k) => Done(k)')
    BY DEF Done
  <1>c. ASSUME UNCHANGED <<live, nextId, entry, verdicts>>, \A k \in Jobs : Done(k) => Done(k)'
        PROVE  Goal
    BY <1>a, <1>c DEF Named
  <1>d. ASSUME UNCHANGED <<cache, verdicts, exec>> PROVE Goal
    BY <1>b, <1>c, <1>d DEF cache
  <1>0. CASE UNCHANGED vars
    BY <1>0, <1>d DEF vars
  <1>1. ASSUME NEW j \in Jobs, NEW s \in Statuses, Send(j, s) PROVE Goal
    <2>1. SendLocked("worker", j, s) /\ "worker" \in Callers /\ exec' = exec
      BY <1>1 DEF Send, Callers
    <2> QED BY <1>b, <2>1, SendEffect
  <1>2. ASSUME NEW j \in Jobs, SetInitialVersion(j) PROVE Goal
    <2>1. ver[j] \in Versions
      BY DEF TypeOK
    <2> QED BY <1>b, <1>2, <2>1, OverwriteEffect DEF SetInitialVersion
  <1>e. ASSUME NEW i \in Ids, Remove(i), UNCHANGED <<verdicts, exec>> PROVE Goal
    <2>1. nextId' = nextId /\ live' \subseteq live /\ \A k \in Ids : entry'[k].job = entry[k].job
      BY <1>e, RemoveType DEF Remove
    <2>2. live \subseteq Ids
      BY DEF TypeOK
    <2> QED BY <1>a, <1>b, <1>e, <2>1, <2>2 DEF Named
  <1>3. ASSUME NEW j \in Jobs, ClearJob(j) PROVE Goal
    BY <1>3, <1>d, <1>e DEF ClearJob, TypeOK
  <1>4. ASSUME NEW c \in Callers, PublishOk(c) PROVE Goal
    BY <1>4, <1>d DEF PublishOk
  <1>5. ASSUME NEW c \in Callers, PublishFails(c) PROVE Goal
    BY <1>5, <1>d DEF PublishFails
  <1>6. ASSUME NEW c \in Callers, RevertVersion(c) PROVE Goal
    <2>1. snd[c].ver \in Versions /\ snd[c].job \in Jobs
      BY <1>6 DEF Calls, RevertVersion, Named, TypeOK
    <2> QED BY <1>b, <1>6, <2>1, OverwriteEffect DEF RevertVersion
  <1>7. CASE Resubscribed
    BY <1>7, <1>d DEF Resubscribed
  <1>8. ASSUME NEW u \in todo, SendLocked("loop", u.job, u.status),
               UNCHANGED <<retry, told, net, resp, exec, ver, sends, crashed>>
        PROVE  Goal
    <2>1. u.job \in Jobs /\ u.status \in Statuses /\ "loop" \in Callers
      BY DEF Statuses, Callers, TypeOK
    <2> QED BY <1>b, <1>8, <2>1, SendEffect
  <1>9. ASSUME NEW r \in resp, OnUpdateResponse(r) PROVE Goal
    <2>0. r.id \in Ids
      BY DEF Answers, TypeOK
    <2>1. CASE Remove(r.id)
      BY <1>9, <2>0, <2>1, <1>e DEF OnUpdateResponse
    <2>2. CASE entry' = [entry EXCEPT ![r.id].version = VersionAfter(r)] /\ UNCHANGED <<live, nextId>>
      <3>1. \A k \in Ids : entry'[k].job = entry[k].job
        BY <2>0, <2>2 DEF TypeOK, EntryRecs
      <3> QED BY <1>9, <1>a, <1>b, <2>2, <3>1 DEF OnUpdateResponse, Named, TypeOK
    <2>3. CASE UNCHANGED <<live, nextId, entry>>
      BY <1>9, <1>b, <1>c, <2>3 DEF OnUpdateResponse
    <2> QED BY <1>9, <2>1, <2>2, <2>3 DEF OnUpdateResponse, cache
  <1>10. ASSUME NEW i \in Ids, RetryFires(i) PROVE Goal
    BY <1>10, <1>b, <1>c DEF RetryFires
  <1>11. CASE RetryUsesFreed
    BY <1>11, <1>d DEF RetryUsesFreed
  <1>12. CASE RetryLocked
    <2>0. retry.id \in Ids
      BY <1>12 DEF RetryLocked, TypeOK
    <2>1. \A k \in Ids : entry'[k].job = entry[k].job
      BY <1>12, <2>0 DEF RetryLocked, TypeOK, EntryRecs
    <2> QED BY <1>12, <1>a, <1>b, <2>1 DEF RetryLocked, Named, TypeOK
  <1>13. CASE RetryPublish
    BY <1>13, <1>d DEF RetryPublish
  <1>14. CASE RetryPublishFails
    BY <1>14, <1>d DEF RetryPublishFails
  <1>15. CASE RetryRevert
    <2>1. retry.ver \in Versions /\ retry.job \in Jobs
      BY <1>15 DEF Calls, RetryRevert, Named, TypeOK
    <2> QED BY <1>b, <1>15, <2>1, OverwriteEffect DEF RetryRevert
  <1>16. CASE RetryArm
    BY <1>16, <1>b, <1>c DEF RetryArm
  <1>17. ASSUME NEW m \in net, Accept(m) PROVE Goal
    <2>1. m.job \in Jobs
      BY DEF TypeOK, Update
    <2>2. \A k \in Jobs : Done(k) => Done(k)'
      BY <1>17, <2>1 DEF Accept, Done, TypeOK
    <2> QED BY <1>17, <1>c, <2>2 DEF Accept, cache
  <1>18. ASSUME NEW m \in net, NEW k \in {"mismatch", "unrecoverable", "other"}, Reject(m, k)
         PROVE  Goal
    BY <1>18, <1>d DEF Reject
  <1>19. ASSUME NEW j \in Jobs, Drop(j) PROVE Goal
    <2>2. \A k \in Jobs : Done(k) => Done(k)'
      BY <1>19 DEF Drop, Done, TypeOK
    <2> QED BY <1>19, <1>c, <2>2 DEF Drop, cache
  <1>20. CASE Lose
    BY <1>20, <1>d DEF Lose
  <1> QED
    BY <1>0, <1>1, <1>2, <1>3, <1>4, <1>5, <1>6, <1>7, <1>8, <1>9, <1>10, <1>11, <1>12, <1>13,
       <1>14, <1>15, <1>16, <1>17, <1>18, <1>19, <1>20
       DEF Next, Worker, Sending, Loop, ResendNext, Retry, Cloud

-----------------------------------------------------------------------------
(* What a step may add to the updates and answers on their way, ...        *)
NewUpdates == \A m \in net' : \/ m \in net
                              \/ \E c \in Callers : snd[c].pc = "publish" /\ m = Msg(snd[c])
                              \/ retry.pc = "publish" /\ m = Msg(retry)

NewAnswers == \A r \in resp' : \/ r \in resp
                               \/ \E m \in net, k \in {"accepted", "mismatch", "unrecoverable", "other"} :
                                     /\ r = Answer(m, k)
                                     /\ k = "accepted" /\ m.status \in Terminal => Done(m.job)'
                                     /\ k = "unrecoverable" => Done(m.job)

(* ... to the calls of the tasks, ...                                      *)
Same(t, u) == t.job = u.job /\ t.status = u.status /\ t.id = u.id

NewCall(t) == /\ t.job \in Jobs /\ t.status \in Statuses /\ t.id \in Ids /\ t.id < nextId'
              /\ entry'[t.id].job = t.job
              /\ t.status \in Terminal => t.status \in verdicts'[t.job]

NewCalls ==
    /\ \A c \in Callers : \/ snd'[c].pc = "idle"
                          \/ snd[c].pc # "idle" /\ Same(snd'[c], snd[c])
                          \/ NewCall(snd'[c])
    /\ retry'.pc \in {"publish", "revert"} =>
          \/ retry.pc \in {"publish", "revert"} /\ Same(retry', retry)
          \/ NewCall(retry') /\ retry'.status \in Terminal
    /\ retry'.pc \in {"locked", "arm"} => retry'.id \in Ids

(* ... to what is to be resent and what was reported, ...                  *)
NewResends == \A u \in todo' : \/ u \in todo
                               \/ \E i \in live : /\ entry[i].cached # None
                                                  /\ u = [job |-> entry[i].job, status |-> entry[i].cached]

NewOutcomes == \A j \in told' : j \in told \/ \E r \in resp : Settles(r) /\ j = entry[r.id].job

(* ... and what it may do to the cached statuses.                          *)
NewCache ==
    /\ \A i \in live' : entry'[i].cached # None =>
          \/ i \in live /\ entry'[i].cached = entry[i].cached
          \/ entry'[i].cached \in verdicts'[entry'[i].job]
    /\ \A i \in live : \/ i \in live' /\ (entry[i].cached # None => entry'[i].cached # None)
                       \/ \E r \in resp : Settles(r) /\ r.id = i
                       \/ entry[i].job \in told
    /\ \A j \in Jobs : verdicts'[j] = verdicts[j] \/ CachedEntry(j)'

(* Everything a step may add.                                              *)
Step == NewUpdates /\ NewAnswers /\ NewCalls /\ NewResends /\ NewOutcomes /\ NewCache

(* ota_status_send, by the worker or the event loop, adds no more.         *)
LEMMA SendStep ==
    ASSUME TypeOK, Named, NEW c \in Callers, NEW j \in Jobs, NEW s \in Statuses, SendLocked(c, j, s),
           UNCHANGED <<retry, told, net, resp, exec>>, todo' \subseteq todo
    PROVE  Step
  <1>1. PICK i \in Ids :
             /\ nextId <= nextId' /\ i < nextId' /\ live' = live \cup {i}
             /\ \A k \in Ids : k < nextId => entry'[k].job = entry[k].job
             /\ \A k \in live \ {i} : entry'[k] = entry[k]
             /\ \A k \in live' : k < nextId' /\ entry'[k].job \in Jobs
             /\ entry'[i].job = j
             /\ \/ entry'[i].cached = s /\ s \in Terminal /\ s \in verdicts'[j]
                \/ i \in live /\ entry'[i].cached = entry[i].cached /\ verdicts' = verdicts
                \/ i \notin live /\ entry'[i].cached = None /\ verdicts' = verdicts
             /\ \A k \in Jobs : verdicts[k] \subseteq verdicts'[k]
             /\ \A k \in Jobs \ {j} : verdicts'[k] = verdicts[k]
             /\ \A k \in Callers \ {c} : snd'[k] = snd[k]
             /\ \/ snd'[c] = snd[c] /\ snd[c].pc = "idle"
                \/ /\ snd'[c].job = j /\ snd'[c].status = s /\ snd'[c].id = i
                   /\ s \in Terminal => s \in verdicts'[j]
    BY SendEffect
  <1>2. NewUpdates /\ NewAnswers /\ NewResends /\ NewOutcomes
    BY DEF NewUpdates, NewAnswers, NewResends, NewOutcomes
  <1>3. NewCalls
    <2>1. \A k \in Callers : \/ snd'[k].pc = "idle"
                             \/ snd[k].pc # "idle" /\ Same(snd'[k], snd[k])
                             \/ NewCall(snd'[k])
      BY <1>1 DEF Same, NewCall
    <2> QED BY <2>1 DEF NewCalls, Same, TypeOK, Calls, Named
  <1>4. NewCache
    <2>1. ASSUME NEW k \in live', entry'[k].cached # None
          PROVE  \/ k \in live /\ entry'[k].cached = entry[k].cached
                 \/ entry'[k].cached \in verdicts'[entry'[k].job]
      BY <1>1, <2>1
    <2>2. ASSUME NEW k \in live
          PROVE  k \in live' /\ (entry[k].cached # None => entry'[k].cached # None)
      BY <1>1, StatusAssumption
    <2>3. ASSUME NEW k \in Jobs PROVE verdicts'[k] = verdicts[k] \/ CachedEntry(k)'
      BY <1>1, StatusAssumption DEF CachedEntry
    <2> QED BY <2>1, <2>2, <2>3 DEF NewCache
  <1> QED BY <1>2, <1>3, <1>4 DEF Step

(* Nor does ota_status_cache_overwrite_version ...                         *)
LEMMA OverwriteStep ==
    ASSUME TypeOK, Named, NEW j \in Jobs, NEW v \in Versions, OverwriteVersion(j, v),
           UNCHANGED <<told, todo, net, resp, exec, verdicts>>
    PROVE  NewUpdates /\ NewAnswers /\ NewResends /\ NewOutcomes /\ NewCache
  <1>1. NewUpdates /\ NewAnswers /\ NewResends /\ NewOutcomes
    BY DEF NewUpdates, NewAnswers, NewResends, NewOutcomes
  <1>2. NewCache
    BY OverwriteEffect DEF NewCache
  <1> QED BY <1>1, <1>2

(* ... and what a step leaves alone needs no argument.                     *)
LEMMA Stays ==
    ASSUME TypeOK, Named
    PROVE  /\ UNCHANGED net => NewUpdates
           /\ UNCHANGED resp => NewAnswers
           /\ UNCHANGED <<snd, retry>> => NewCalls
           /\ UNCHANGED retry =>
                (/\ retry'.pc \in {"publish", "revert"} =>
                       \/ retry.pc \in {"publish", "revert"} /\ Same(retry', retry)
                       \/ NewCall(retry') /\ retry'.status \in Terminal
                 /\ retry'.pc \in {"locked", "arm"} => retry'.id \in Ids)
           /\ UNCHANGED snd =>
                \A c \in Callers : \/ snd'[c].pc = "idle"
                                   \/ snd[c].pc # "idle" /\ Same(snd'[c], snd[c])
                                   \/ NewCall(snd'[c])
           /\ UNCHANGED todo => NewResends
           /\ UNCHANGED told => NewOutcomes
           /\ UNCHANGED <<live, entry, verdicts>> => NewCache
BY DEF NewUpdates, NewAnswers, NewCalls, NewResends, NewOutcomes, NewCache, Same, Named

(* Every step of the five tasks is such a step.                            *)
LEMMA AllSteps == ASSUME TypeOK, Named, Decided, [Next]_vars PROVE Step
  <1>s. USE Stays DEF Step
  <1>0. CASE UNCHANGED vars
    BY <1>0 DEF vars, cache
  <1>1. ASSUME NEW j \in Jobs, NEW s \in Statuses, Send(j, s) PROVE Step
    BY <1>1, SendStep DEF Send, Callers
  <1>2. ASSUME NEW j \in Jobs, SetInitialVersion(j) PROVE Step
    <2>1. ver[j] \in Versions
      BY DEF TypeOK
    <2> QED BY <1>2, <2>1, OverwriteStep DEF SetInitialVersion
  <1>3. ASSUME NEW j \in Jobs, ClearJob(j) PROVE Step
    <2>1. CASE UNCHANGED cache
      BY <1>3, <2>1 DEF ClearJob, cache, NewOutcomes
    <2>2. ASSUME NEW i \in live, Remove(i), entry[i].job = j PROVE Step
      <3>1. NewCache
        BY <1>3, <2>2, RemoveType DEF ClearJob, NewCache, Remove, TypeOK
      <3> QED BY <1>3, <3>1 DEF ClearJob, NewOutcomes
    <2> QED BY <1>3, <2>1, <2>2 DEF ClearJob
  <1>4. ASSUME NEW c \in Callers, PublishOk(c) PROVE Step
    <2>1. NewUpdates
      BY <1>4 DEF PublishOk, NewUpdates
    <2>2. NewCalls
      BY <1>4 DEF PublishOk, NewCalls, Idle, TypeOK, Same
    <2> QED BY <1>4, <2>1, <2>2 DEF PublishOk, cache
  <1>5. ASSUME NEW c \in Callers, PublishFails(c) PROVE Step
    <2>2. NewCalls
      BY <1>5 DEF PublishFails, NewCalls, TypeOK, Calls, Same
    <2> QED BY <1>5, <2>2 DEF PublishFails, cache
  <1>6. ASSUME NEW c \in Callers, RevertVersion(c) PROVE Step
    <2>1. snd[c].ver \in Versions /\ snd[c].job \in Jobs
      BY <1>6 DEF Calls, RevertVersion, Named, TypeOK
    <2>2. NewCalls
      BY <1>6 DEF RevertVersion, NewCalls, Idle, TypeOK, Same
    <2> QED BY <1>6, <2>1, <2>2, OverwriteStep DEF RevertVersion
  <1>7. CASE Resubscribed
    <2>1. NewResends
      BY <1>7 DEF Resubscribed, NewResends
    <2> QED BY <1>7, <2>1 DEF Resubscribed, cache
  <1>8. ASSUME NEW u \in todo, SendLocked("loop", u.job, u.status), todo' = todo \ {u},
               UNCHANGED <<retry, told, net, resp, exec, ver, sends, crashed>>
        PROVE  Step
    <2>1. u.job \in Jobs /\ u.status \in Statuses /\ "loop" \in Callers
      BY DEF Statuses, Callers, TypeOK
    <2> QED BY <1>8, <2>1, SendStep
  <1>9. ASSUME NEW r \in resp, OnUpdateResponse(r) PROVE Step
    <2>0. r.id \in Ids
      BY DEF Answers, TypeOK
    <2>1. NewAnswers /\ NewUpdates /\ NewCalls
      BY <1>9 DEF OnUpdateResponse, NewAnswers
    <2>2. NewResends
      BY <1>9 DEF OnUpdateResponse, NewResends
    <2>3. NewOutcomes
      BY <1>9 DEF OnUpdateResponse, NewOutcomes
    <2>4. NewCache
      <3>1. CASE Remove(r.id) /\ Settles(r)
        BY <1>9, <2>0, <3>1, RemoveType DEF OnUpdateResponse, NewCache, Remove, TypeOK
      <3>2. CASE entry' = [entry EXCEPT ![r.id].version = VersionAfter(r)] /\ UNCHANGED live
        <4>1. \A k \in Ids : entry'[k].cached = entry[k].cached
          BY <2>0, <3>2 DEF TypeOK, EntryRecs
        <4> QED BY <1>9, <3>2, <4>1 DEF OnUpdateResponse, NewCache, TypeOK
      <3>3. CASE UNCHANGED <<live, entry>>
        BY <1>9, <3>3 DEF OnUpdateResponse
      <3> QED BY <1>9, <3>1, <3>2, <3>3 DEF OnUpdateResponse, cache
    <2> QED BY <2>1, <2>2, <2>3, <2>4
  <1>10. ASSUME NEW i \in Ids, RetryFires(i) PROVE Step
    <2>1. NewCalls
      BY <1>10 DEF RetryFires, NewCalls, Idle
    <2> QED BY <1>10, <2>1 DEF RetryFires
  <1>11. CASE RetryUsesFreed
    BY <1>11 DEF RetryUsesFreed, cache
  <1>12. CASE RetryLocked
    <2> DEFINE e == entry[retry.id]
    <2>0. retry.id \in Ids /\ retry.id \in live /\ e \in EntryRecs /\ e.job \in Jobs
      BY <1>12 DEF RetryLocked, TypeOK, Named
    <2>1. CASE e.cached = None
      <3>1. NewCalls
        BY <1>12, <2>1 DEF RetryLocked, NewCalls, Idle
      <3> QED BY <1>12, <2>1, <3>1 DEF RetryLocked
    <2>2. CASE e.cached # None
      <3>1. \A k \in Ids : entry'[k].job = entry[k].job /\ entry'[k].cached = entry[k].cached
        BY <1>12, <2>0, <2>2 DEF RetryLocked, TypeOK, EntryRecs
      <3>2. NewCache
        BY <1>12, <3>1 DEF RetryLocked, NewCache, TypeOK
      <3>3. NewCalls
        <4>1. e.cached \in Terminal /\ retry.id < nextId /\ e.cached \in verdicts[e.job]
          BY <2>0, <2>2 DEF EntryRecs, Named, Decided
        <4> QED BY <1>12, <2>0, <2>2, <3>1, <4>1 DEF RetryLocked, NewCalls, NewCall, Statuses
      <3> QED BY <1>12, <3>2, <3>3 DEF RetryLocked
    <2> QED BY <2>1, <2>2
  <1>13. CASE RetryPublish
    <2>1. NewUpdates
      BY <1>13 DEF RetryPublish, NewUpdates
    <2>2. NewCalls
      BY <1>13 DEF RetryPublish, NewCalls, Idle, Named
    <2> QED BY <1>13, <2>1, <2>2 DEF RetryPublish, cache
  <1>14. CASE RetryPublishFails
    <2>1. NewCalls
      BY <1>14 DEF RetryPublishFails, NewCalls, Same, TypeOK, Calls
    <2> QED BY <1>14, <2>1 DEF RetryPublishFails, cache
  <1>15. CASE RetryRevert
    <2>1. retry.ver \in Versions /\ retry.job \in Jobs
      BY <1>15 DEF Calls, RetryRevert, Named, TypeOK
    <2>2. NewCalls
      BY <1>15 DEF RetryRevert, NewCalls, Idle, Named
    <2> QED BY <1>15, <2>1, <2>2, OverwriteStep DEF RetryRevert
  <1>16. CASE RetryArm
    <2>1. NewCalls
      BY <1>16 DEF RetryArm, NewCalls, Idle
    <2> QED BY <1>16, <2>1 DEF RetryArm
  <1>17. ASSUME NEW m \in net, Accept(m) PROVE Step
    <2>1. m.job \in Jobs
      BY DEF TypeOK, Update
    <2>2. NewAnswers
      BY <1>17, <2>1 DEF Accept, NewAnswers, Done, TypeOK
    <2>3. NewUpdates
      BY <1>17 DEF Accept, NewUpdates
    <2> QED BY <1>17, <2>2, <2>3 DEF Accept, cache
  <1>18. ASSUME NEW m \in net, NEW k \in {"mismatch", "unrecoverable", "other"}, Reject(m, k)
         PROVE  Step
    <2>2. NewAnswers
      BY <1>18 DEF Reject, NewAnswers
    <2>3. NewUpdates
      BY <1>18 DEF Reject, NewUpdates
    <2> QED BY <1>18, <2>2, <2>3 DEF Reject, cache
  <1>19. ASSUME NEW j \in Jobs, Drop(j) PROVE Step
    BY <1>19 DEF Drop, cache
  <1>20. CASE Lose
    <2>2. NewAnswers /\ NewUpdates
      BY <1>20 DEF Lose, NewAnswers, NewUpdates
    <2> QED BY <1>20, <2>2 DEF Lose, cache
  <1> QED
    BY <1>0, <1>1, <1>2, <1>3, <1>4, <1>5, <1>6, <1>7, <1>8, <1>9, <1>10, <1>11, <1>12, <1>13,
       <1>14, <1>15, <1>16, <1>17, <1>18, <1>19, <1>20
       DEF Next, Worker, Sending, Loop, ResendNext, Retry, Cloud

-----------------------------------------------------------------------------
(* The invariants.                                                         *)

(* The initial state satisfies the three invariants and the property.      *)
LEMMA InvInit == ASSUME Init PROVE Named /\ Decided /\ Concluded /\ NotForgotten
  <1>1. \A c \in Callers : snd[c].pc = "idle"
    BY DEF Init, Idle
  <1>2. retry.pc = "idle"
    BY DEF Init, Idle
  <1>3. live = {} /\ net = {} /\ resp = {} /\ todo = {} /\ told = {}
        /\ verdicts = [j \in Jobs |-> {}]
    BY DEF Init
  <1> QED BY <1>1, <1>2, <1>3 DEF Named, Decided, Concluded, NotForgotten

(* Numbers stay true: new updates and answers name the entry of the call   *)
(* or the update they come from.                                           *)
LEMMA NamedStep == ASSUME TypeOK, Named, Decided, [Next]_vars PROVE Named'
  <1>k. /\ nextId \in Int /\ nextId' \in Int /\ nextId <= nextId'
        /\ \A k \in Ids : k < nextId => k < nextId' /\ entry'[k].job = entry[k].job
        /\ \A k \in live' : k < nextId' /\ entry'[k].job \in Jobs
    BY Keeps, TypeStep DEF TypeOK, Ids
  <1>s. Step
    BY AllSteps
  <1>1. ASSUME NEW m \in net' PROVE m.id < nextId' /\ entry'[m.id].job = m.job
    <2>1. CASE m \in net
      BY <1>k, <2>1 DEF Named, TypeOK, Update
    <2>2. ASSUME NEW t, m = Msg(t), t.id \in Ids, t.id < nextId, entry[t.id].job = t.job
          PROVE  m.id < nextId' /\ entry'[m.id].job = m.job
      BY <1>k, <2>2 DEF Msg
    <2> QED BY <1>s, <2>1, <2>2 DEF Step, NewUpdates, Named
  <1>2. ASSUME NEW r \in resp' PROVE r.id < nextId' /\ entry'[r.id].job \in Jobs
    <2>1. CASE r \in resp
      BY <1>k, <2>1 DEF Named, TypeOK, Answers
    <2>2. ASSUME NEW m \in net, r.id = m.id
          PROVE  r.id < nextId' /\ entry'[r.id].job \in Jobs
      BY <1>k, <2>2 DEF Named, TypeOK, Update
    <2>3. ASSUME NEW m \in net, NEW k \in {"accepted", "mismatch", "unrecoverable", "other"}, r = Answer(m, k)
          PROVE  r.id = m.id
      BY <2>3, AnswerType DEF TypeOK
    <2> QED BY <1>s, <2>1, <2>2, <2>3 DEF Step, NewAnswers
  <1>3. ASSUME NEW c \in Callers, snd'[c].pc # "idle"
        PROVE  /\ snd'[c].job \in Jobs /\ snd'[c].status \in Statuses
               /\ snd'[c].id \in Ids /\ snd'[c].id < nextId' /\ entry'[snd'[c].id].job = snd'[c].job
    <2>1. CASE snd[c].pc # "idle" /\ Same(snd'[c], snd[c])
      BY <1>k, <2>1 DEF Named, Same
    <2>2. CASE NewCall(snd'[c])
      BY <2>2 DEF NewCall
    <2> QED BY <1>s, <1>3, <2>1, <2>2 DEF Step, NewCalls
  <1>4. ASSUME retry'.pc \in {"publish", "revert"}
        PROVE  /\ retry'.job \in Jobs /\ retry'.status \in Terminal
               /\ retry'.id \in Ids /\ retry'.id < nextId' /\ entry'[retry'.id].job = retry'.job
    <2>1. CASE retry.pc \in {"publish", "revert"} /\ Same(retry', retry)
      BY <1>k, <2>1 DEF Named, Same
    <2>2. CASE NewCall(retry') /\ retry'.status \in Terminal
      BY <2>2 DEF NewCall
    <2> QED BY <1>s, <1>4, <2>1, <2>2 DEF Step, NewCalls
  <1>5. retry'.pc \in {"locked", "arm"} => retry'.id \in Ids
    BY <1>s DEF Step, NewCalls
  <1> QED BY <1>k, <1>1, <1>2, <1>3, <1>4, <1>5 DEF Named

(* No final status appears that was not decided.                           *)
LEMMA DecidedStep == ASSUME TypeOK, Named, Decided, [Next]_vars PROVE Decided'
  <1>k. \A j \in Jobs : verdicts[j] \subseteq verdicts'[j]
    BY Keeps
  <1>j. /\ \A k \in live : k \in Ids /\ entry'[k].job = entry[k].job /\ entry[k].job \in Jobs
        /\ \A k \in live' : entry'[k].job \in Jobs
    BY Keeps DEF Named, TypeOK
  <1>s. Step
    BY AllSteps
  <1>1. ASSUME NEW i \in live', entry'[i].cached # None
        PROVE  entry'[i].cached \in verdicts'[entry'[i].job]
    <2>1. CASE i \in live /\ entry'[i].cached = entry[i].cached
      BY <1>k, <1>j, <1>1, <2>1 DEF Decided
    <2> QED BY <1>s, <1>1, <2>1 DEF Step, NewCache
  <1>2. ASSUME NEW u \in todo' PROVE u.status \in verdicts'[u.job]
    <2>1. CASE u \in todo
      BY <1>k, <2>1 DEF Decided, TypeOK
    <2>2. ASSUME NEW i \in live, entry[i].cached # None,
                 u = [job |-> entry[i].job, status |-> entry[i].cached]
          PROVE  u.status \in verdicts'[u.job]
      BY <1>k, <1>j, <2>2 DEF Decided
    <2> QED BY <1>s, <2>1, <2>2 DEF Step, NewResends
  <1>3. ASSUME NEW m \in net', m.status \in Terminal PROVE m.status \in verdicts'[m.job]
    <2>1. CASE m \in net
      BY <1>k, <1>3, <2>1 DEF Decided, TypeOK, Update
    <2>2. ASSUME NEW c \in Callers, snd[c].pc = "publish", m = Msg(snd[c])
          PROVE  m.status \in verdicts'[m.job]
      BY <1>k, <1>3, <2>2 DEF Decided, Named, Msg
    <2>3. CASE retry.pc = "publish" /\ m = Msg(retry)
      BY <1>k, <1>3, <2>3 DEF Decided, Named, Msg
    <2> QED BY <1>s, <2>1, <2>2, <2>3 DEF Step, NewUpdates
  <1>4. ASSUME NEW c \in Callers, snd'[c].pc # "idle", snd'[c].status \in Terminal
        PROVE  snd'[c].status \in verdicts'[snd'[c].job]
    <2>1. CASE snd[c].pc # "idle" /\ Same(snd'[c], snd[c])
      BY <1>k, <1>4, <2>1 DEF Named, Decided, Same
    <2>2. CASE NewCall(snd'[c])
      BY <1>4, <2>2 DEF NewCall
    <2> QED BY <1>s, <1>4, <2>1, <2>2 DEF Step, NewCalls
  <1>5. ASSUME retry'.pc \in {"publish", "revert"} PROVE retry'.status \in verdicts'[retry'.job]
    <2>1. CASE retry.pc \in {"publish", "revert"} /\ Same(retry', retry)
      BY <1>k, <2>1 DEF Named, Decided, Same
    <2>2. CASE NewCall(retry') /\ retry'.status \in Terminal
      BY <2>2 DEF NewCall
    <2> QED BY <1>s, <1>5, <2>1, <2>2 DEF Step, NewCalls
  <1> QED BY <1>1, <1>2, <1>3, <1>4, <1>5 DEF Decided

(* The cloud answers with an acceptance of a final status, or with a       *)
(* rejection no retry can overcome, once the record has ended.             *)
LEMMA ConcludedStep == ASSUME TypeOK, Named, Decided, Concluded, [Next]_vars PROVE Concluded'
  <1>k. /\ \A j \in Jobs : Done(j) => Done(j)'
        /\ \A k \in Ids : k < nextId => entry'[k].job = entry[k].job
    BY Keeps
  <1>s. Step
    BY AllSteps
  <1>1. ASSUME NEW r \in resp', Settles(r) PROVE exec'[entry'[r.id].job] \in Terminal \cup {"GONE"}
    <2>1. CASE r \in resp
      <3>1. r.id \in Ids /\ r.id < nextId /\ entry[r.id].job \in Jobs /\ Done(entry[r.id].job)
        BY <1>1, <2>1 DEF TypeOK, Answers, Named, Concluded
      <3> QED BY <1>k, <3>1 DEF Done
    <2>2. ASSUME NEW m \in net, NEW k \in {"accepted", "mismatch", "unrecoverable", "other"},
                 r = Answer(m, k), k = "accepted" /\ m.status \in Terminal => Done(m.job)',
                 k = "unrecoverable" => Done(m.job)
          PROVE  exec'[entry'[r.id].job] \in Terminal \cup {"GONE"}
      <3>1. /\ m.id \in Ids /\ m.job \in Jobs /\ m.id < nextId /\ entry[m.id].job = m.job
            /\ m \in Update
        BY DEF TypeOK, Update, Named
      <3>2. r.id = m.id /\ r.kind = k /\ r.term = (m.status \in Terminal)
        BY <2>2, <3>1, AnswerType
      <3>3. Done(m.job)'
        BY <1>k, <1>1, <2>2, <3>1, <3>2 DEF Settles
      <3>4. entry'[r.id].job = m.job
        BY <1>k, <3>1, <3>2
      <3> QED BY <3>3, <3>4 DEF Done
    <2> QED BY <1>s, <2>1, <2>2 DEF Step, NewAnswers
  <1>2. ASSUME NEW j \in told' PROVE Done(j)'
    <2>1. CASE j \in told
      BY <1>k, <2>1 DEF Concluded, TypeOK
    <2>2. ASSUME NEW r \in resp, Settles(r), j = entry[r.id].job PROVE Done(j)'
      BY <1>k, <2>2 DEF Concluded, Named
    <2> QED BY <1>s, <2>1, <2>2 DEF Step, NewOutcomes
  <1> QED BY <1>1, <1>2 DEF Concluded, Done, Settles

(* A cached status goes away only with a settling answer or a told job.    *)
LEMMA NotForgottenStep ==
    ASSUME TypeOK, Named, Decided, Concluded, NotForgotten, [Next]_vars
    PROVE  NotForgotten'
  <1>s. NewCache
    BY AllSteps DEF Step
  <1>k. /\ \A j \in Jobs : Done(j) => Done(j)'
        /\ \A k \in live : entry'[k].job = entry[k].job
    BY Keeps DEF Named, TypeOK
  <1> SUFFICES ASSUME NEW j \in Jobs, verdicts'[j] # {} PROVE Done(j)' \/ CachedEntry(j)'
    BY DEF NotForgotten
  <1>1. CASE verdicts'[j] # verdicts[j]
    BY <1>s, <1>1 DEF NewCache
  <1>2. CASE Done(j)
    BY <1>k, <1>2
  <1>3. ASSUME NEW i \in live, entry[i].job = j, entry[i].cached # None
        PROVE  Done(j)' \/ CachedEntry(j)'
    <2>1. CASE i \in live' /\ entry'[i].cached # None
      BY <1>k, <1>3, <2>1 DEF CachedEntry
    <2>2. ASSUME NEW r \in resp, Settles(r), r.id = i PROVE Done(j)'
      BY <1>k, <1>3, <2>2 DEF Concluded
    <2>3. CASE j \in told
      BY <1>k, <2>3 DEF Concluded
    <2> QED BY <1>s, <1>3, <2>1, <2>2, <2>3 DEF NewCache
  <1> QED BY <1>1, <1>2, <1>3 DEF NotForgotten, CachedEntry

-----------------------------------------------------------------------------
(* Every variable keeps its type: the cache of ota_status.c, its callers,  *)
(* the retry task, the messages and the cloud's record.                    *)
THEOREM TypeCorrect == Spec => []TypeOK
  <1> DEFINE Inv == TypeOK /\ Named /\ Decided
  <1>1. Init => Inv
    BY TypeInit, InvInit
  <1>2. Inv /\ [Next]_vars => Inv'
    BY TypeStep, NamedStep, DecidedStep
  <1>3. Inv => TypeOK
    OBVIOUS
  <1> QED BY <1>1, <1>2, <1>3, PTL DEF Spec

(* A final status that ota_status_send cached stays in the cache until the *)
(* cloud's record of the job has ended, whatever is lost, duplicated,      *)
(* refused or interleaved.                                                 *)
THEOREM StatusKept == Spec => []NotForgotten
  <1> DEFINE Inv == TypeOK /\ Named /\ Decided /\ Concluded /\ NotForgotten
  <1>1. Init => Inv
    BY TypeInit, InvInit
  <1>2. Inv /\ [Next]_vars => Inv'
    BY TypeStep, NamedStep, DecidedStep, ConcludedStep, NotForgottenStep
  <1>3. Inv => NotForgotten
    OBVIOUS
  <1> QED BY <1>1, <1>2, <1>3, PTL DEF Spec

(* A call of ota_status_send decides a status, or is invisible.            *)
LEMMA SendReports ==
    ASSUME TypeOK, NEW c \in Callers, NEW j \in Jobs, NEW s \in Statuses, SendLocked(c, j, s),
           UNCHANGED exec
    PROVE  [Report!Next]_(Report!vars)
  <1>1. \/ verdicts' = verdicts
        \/ verdicts' = [verdicts EXCEPT ![j] = @ \cup ({s} \cap Terminal)]
    BY DEF SendLocked
  <1>2. CASE verdicts' = verdicts
    BY <1>2 DEF Report!vars
  <1>3. CASE verdicts' = [verdicts EXCEPT ![j] = @ \cup ({s} \cap Terminal)] /\ s \in Terminal
    <2>1. verdicts' = [verdicts EXCEPT ![j] = @ \cup {s}]
      BY <1>3
    <2> QED BY <1>3, <2>1 DEF Report!Next, Report!Decide
  <1>4. CASE verdicts' = [verdicts EXCEPT ![j] = @ \cup ({s} \cap Terminal)] /\ s \notin Terminal
    <2>1. verdicts' = verdicts
      BY <1>4 DEF TypeOK
    <2> QED BY <2>1 DEF Report!vars
  <1> QED BY <1>1, <1>2, <1>3, <1>4

(* Every step is a step of JobReport or changes nothing it sees.           *)
LEMMA ReportStep == ASSUME TypeOK, Named, Decided, [Next]_vars PROVE [Report!Next]_(Report!vars)
  <1>u. UNCHANGED <<verdicts, exec>> => [Report!Next]_(Report!vars)
    BY DEF Report!vars
  <1>1. ASSUME NEW j \in Jobs, NEW s \in Statuses, Send(j, s) PROVE [Report!Next]_(Report!vars)
    BY <1>1, SendReports DEF Send, Callers
  <1>2. ASSUME NEW u \in todo, SendLocked("loop", u.job, u.status), UNCHANGED exec
        PROVE  [Report!Next]_(Report!vars)
    <2>1. u.job \in Jobs /\ u.status \in Statuses /\ "loop" \in Callers
      BY DEF Statuses, Callers, TypeOK
    <2> QED BY <1>2, <2>1, SendReports
  <1>3. ASSUME NEW m \in net, Accept(m) PROVE [Report!Next]_(Report!vars)
    <2>1. m.job \in Jobs /\ m.status \in Statuses /\ ~Report!Ended(m.job)
      BY <1>3 DEF TypeOK, Update, Accept, Done, Report!Ended
    <2>2. exec' = [exec EXCEPT ![m.job] = m.status] /\ UNCHANGED verdicts
      BY <1>3 DEF Accept
    <2>3. CASE m.status \in Terminal
      BY <2>1, <2>2, <2>3 DEF Decided, Report!Next, Report!Conclude
    <2>4. CASE m.status = "IN_PROGRESS"
      BY <2>1, <2>2, <2>4 DEF Report!Next, Report!Progress
    <2> QED BY <2>1, <2>3, <2>4 DEF Statuses
  <1>4. ASSUME NEW j \in Jobs, Drop(j) PROVE [Report!Next]_(Report!vars)
    BY <1>4 DEF Drop, Done, Report!Ended, Report!Next, Report!Drop
  <1>5. CASE UNCHANGED vars
    BY <1>5, <1>u DEF vars
  <1>6. ASSUME NEW j \in Jobs, SetInitialVersion(j) \/ ClearJob(j) PROVE UNCHANGED <<verdicts, exec>>
    BY <1>6 DEF SetInitialVersion, ClearJob
  <1>7. CASE Sending
    BY <1>7, <1>u DEF Sending, PublishOk, PublishFails, RevertVersion
  <1>8. CASE Resubscribed \/ \E r \in resp : OnUpdateResponse(r)
    BY <1>8, <1>u DEF Resubscribed, OnUpdateResponse
  <1>9. CASE Retry
    BY <1>9, <1>u DEF Retry, RetryFires, RetryUsesFreed, RetryLocked, RetryPublish,
                      RetryPublishFails, RetryRevert, RetryArm
  <1>10. ASSUME NEW m \in net, NEW k \in {"mismatch", "unrecoverable", "other"}, Reject(m, k)
         PROVE  UNCHANGED <<verdicts, exec>>
    BY <1>10 DEF Reject
  <1>11. CASE Lose
    BY <1>11, <1>u DEF Lose
  <1> QED
    BY <1>u, <1>1, <1>2, <1>3, <1>4, <1>5, <1>6, <1>7, <1>8, <1>9, <1>10, <1>11
       DEF Next, Worker, Loop, ResendNext, Cloud

(* ota_status.c with its retries, resends and version numbers implements   *)
(* JobReport: the cloud's record of a job ends only in a status the device *)
(* decided for that job, and never changes after that.                     *)
THEOREM ReportImplemented == Spec => ImplementsReport
  <1> DEFINE Inv == TypeOK /\ Named /\ Decided
  <1>1. Init => Inv /\ Report!Init
    BY TypeInit, InvInit DEF Init, Report!Init
  <1>2. Inv /\ [Next]_vars => Inv'
    BY TypeStep, NamedStep, DecidedStep
  <1>3. Inv /\ [Next]_vars => [Report!Next]_(Report!vars)
    BY ReportStep
  <1> QED BY <1>1, <1>2, <1>3, PTL DEF Spec, ImplementsReport, Report!Spec

-----------------------------------------------------------------------------
(* The state-report pipeline.                                              *)

USE NodesAssumption, OwnerAssumption, TasksAssumption, PipelineBounds

(* What the call in progress is about fits where it is.                    *)
TargetOK ==
    /\ \A t \in Tasks : /\ pc[t] = "insert" => target[t] \in Params
                        /\ pc[t] = "populate" => target[t] \in Nodes
    /\ pc[Handler] \in {"idle", "populate", "fire"}
    /\ target[Handler] = Self

(* Publishes reach the broker in the order of the values they carry: a     *)
(* message never takes a shadow back to an older value.                    *)
Carries(i, s, p) == wire[i].shadow = s /\ p \in wire[i].items
Ordered ==
    \A s \in Shadows, p \in Params :
        /\ cloud[s][p] <= value[p]
        /\ \A i \in 1..Len(wire) : Carries(i, s, p) =>
              /\ cloud[s][p] <= wire[i].vals[p]
              /\ wire[i].vals[p] <= value[p]
        /\ \A i, j \in 1..Len(wire) :
              i < j /\ Carries(i, s, p) /\ Carries(j, s, p) => wire[i].vals[p] <= wire[j].vals[p]

ReportInv == PipelineTypeOK /\ TargetOK /\ Ordered /\ NoOwnUpdateForgotten

-----------------------------------------------------------------------------
(* Taking the oldest message off the wire shifts the others down.          *)
LEMMA TailWire ==
    ASSUME NEW S, NEW q \in Seq(S), q # <<>>
    PROVE  /\ Tail(q) \in Seq(S) /\ Head(q) \in S /\ Head(q) = q[1]
           /\ Len(q) \in Nat /\ Len(q) >= 1 /\ Len(Tail(q)) = Len(q) - 1
           /\ \A i \in 1..Len(Tail(q)) : Tail(q)[i] = q[i + 1]
  OBVIOUS

(* Putting one on the wire keeps the others in place.                      *)
LEMMA AppendWire ==
    ASSUME NEW S, NEW q \in Seq(S), NEW e \in S
    PROVE  /\ Append(q, e) \in Seq(S)
           /\ Len(q) \in Nat /\ Len(Append(q, e)) = Len(q) + 1
           /\ \A i \in 1..Len(q) : Append(q, e)[i] = q[i]
           /\ Append(q, e)[Len(q) + 1] = e
  OBVIOUS

(* A message built by the report task is a message, and carries the        *)
(* current values.                                                         *)
LEMMA MessageType ==
    ASSUME PipelineTypeOK, NEW s \in Shadows, NEW n \in Nodes, NEW S \in SUBSET Params,
           NEW tag \in TagVersions \cup {NoTag}
    PROVE  /\ Message(s, n, S, tag) \in Messages
           /\ Message(s, n, S, tag).shadow = s
           /\ Message(s, n, S, tag).items = S
           /\ \A p \in S : Message(s, n, S, tag).vals[p] = value[p]
  BY DEF Message, Messages, PipelineTypeOK, Shadows

(* The two messages of a visit.                                            *)
LEMMA VisitMessages ==
    ASSUME PipelineTypeOK, NEW n \in Nodes
    PROVE  /\ NamedMsg(n) \in Messages /\ IndexedMsg(n) \in Messages
           /\ NamedMsg(n).shadow = "named" /\ IndexedMsg(n).shadow = "indexed"
           /\ NamedMsg(n).items = ListOf(n) /\ IndexedMsg(n).items = ListOf(n) \cap Indexed
           /\ \A p \in ListOf(n) : NamedMsg(n).vals[p] = value[p]
           /\ \A p \in ListOf(n) \cap Indexed : IndexedMsg(n).vals[p] = value[p]
  <1> DEFINE tg == IF TagsChanged(n) THEN tags[n] ELSE NoTag
  <1>1. ListOf(n) \in SUBSET Params /\ (ListOf(n) \cap Indexed) \in SUBSET Params
    BY DEF ListOf, PipelineTypeOK
  <1>2. tg \in TagVersions \cup {NoTag}
    BY DEF PipelineTypeOK
  <1>3. "named" \in Shadows /\ "indexed" \in Shadows /\ NoTag \in TagVersions \cup {NoTag}
    BY DEF Shadows
  <1> HIDE DEF tg
  <1>4. IndexedMsg(n) = Message("indexed", n, ListOf(n) \cap Indexed, tg)
    BY DEF IndexedMsg, tg
  <1>5. NamedMsg(n) = Message("named", n, ListOf(n), NoTag)
    BY DEF NamedMsg
  <1>6. /\ NamedMsg(n) \in Messages /\ NamedMsg(n).shadow = "named" /\ NamedMsg(n).items = ListOf(n)
        /\ \A p \in ListOf(n) : NamedMsg(n).vals[p] = value[p]
    <2> HIDE DEF NoTag, TagVersions
    <2> QED BY <1>1, <1>3, <1>5, MessageType
  <1>7. /\ IndexedMsg(n) \in Messages /\ IndexedMsg(n).shadow = "indexed"
        /\ IndexedMsg(n).items = ListOf(n) \cap Indexed
        /\ \A p \in ListOf(n) \cap Indexed : IndexedMsg(n).vals[p] = value[p]
    <2> DEFINE I == ListOf(n) \cap Indexed
    <2>1. IndexedMsg(n) = Message("indexed", n, I, tg)
      BY <1>4
    <2>3. I \in SUBSET Params
      BY <1>1
    <2>4. "indexed" \in Shadows
      BY <1>3
    <2> HIDE DEF I
    <2>2. /\ Message("indexed", n, I, tg) \in Messages
          /\ Message("indexed", n, I, tg).shadow = "indexed"
          /\ Message("indexed", n, I, tg).items = I
          /\ \A p \in I : Message("indexed", n, I, tg).vals[p] = value[p]
      BY ONLY PipelineTypeOK, n \in Nodes, <1>2, <2>3, <2>4, MessageType
    <2> QED BY <2>1, <2>2 DEF I
  <1> QED
    BY <1>6, <1>7

(* The initial state satisfies the invariant.                              *)
LEMMA ReportInvInit == PipelineInit => ReportInv
  <1> SUFFICES ASSUME PipelineInit PROVE ReportInv
    OBVIOUS
  <1>1. PipelineTypeOK
    <2>1. wire \in Seq(Messages)
      BY DEF PipelineInit
    <2>2. acks \in [AckKinds -> Nat] /\ cloud \in [Shadows -> [Params -> 0..MaxVal]]
      BY DEF PipelineInit
    <2>3. /\ tags \in [Nodes -> TagVersions]
          /\ committed \in [Nodes -> TagVersions \cup {NoTag}]
          /\ stored \in [Nodes -> TagVersions \cup {NoTag}]
          /\ snapshot \in [Nodes -> TagVersions \cup {NoTag}]
          /\ cloudTags \in [Nodes -> TagVersions \cup {NoTag}]
      BY DEF PipelineInit, TagVersions
    <2>4. /\ value \in [Params -> 0..MaxVal] /\ queued \in 0..MaxQueued
          /\ inFlight \in Int /\ inFlight <= MaxInFlight /\ fails \in 0..MaxFail
      BY DEF PipelineInit
    <2>5. /\ pc \in [Tasks -> {"idle", "insert", "populate", "fire", "now"}]
          /\ target \in [Tasks -> Params \cup Nodes]
      BY DEF PipelineInit
    <2> QED
      BY <2>1, <2>2, <2>3, <2>4, <2>5 DEF PipelineInit, PipelineTypeOK
  <1>2. TargetOK
    BY DEF PipelineInit, TargetOK, Tasks
  <1>3. Ordered
    BY DEF PipelineInit, Ordered, Carries
  <1>4. NoOwnUpdateForgotten
    BY DEF PipelineInit, NoOwnUpdateForgotten, Accounted, ParamsOf, Shadows
  <1> QED
    BY <1>1, <1>2, <1>3, <1>4 DEF ReportInv

(* A completion is counted under its kind.                                 *)
LEMMA AckStep ==
    ASSUME acks \in [AckKinds -> Nat], NEW m \in Messages, NEW ok \in BOOLEAN, AddAck(m, ok)
    PROVE  /\ acks' \in [AckKinds -> Nat]
           /\ \A k \in AckKinds : acks[k] > 0 => acks'[k] > 0
           /\ \E k \in AckKinds : k.ok = ok /\ acks'[k] > 0
  <1> DEFINE a == [shadow |-> m.shadow, ok |-> ok]
  <1>1. a \in AckKinds /\ a.ok = ok
    BY DEF AckKinds, Messages
  <1>2. acks' = [acks EXCEPT ![a] = @ + 1]
    BY DEF AddAck
  <1> HIDE DEF a
  <1> QED
    BY <1>1, <1>2

(* Every step keeps the variables in their types.                          *)
LEMMA TypeNext == PipelineTypeOK /\ TargetOK /\ [PipelineNext]_pipelineVars => (PipelineTypeOK' /\ TargetOK')
  <1> SUFFICES ASSUME PipelineTypeOK /\ TargetOK, [PipelineNext]_pipelineVars PROVE (PipelineTypeOK' /\ TargetOK')
    OBVIOUS
  <1> USE DEF Goto, pipelineVars, listVars, tagVars, sendVars, workVars, taskVars, cloudVars
  <1>1. ASSUME NEW u \in Updaters, NEW p \in Params, SetParam(u, p) PROVE (PipelineTypeOK' /\ TargetOK')
    BY <1>1 DEF SetParam, PipelineTypeOK, TargetOK, Tasks
  <1>2. ASSUME NEW u \in Updaters, NEW n \in Nodes, AddTag(u, n) PROVE (PipelineTypeOK' /\ TargetOK')
    <2>1. tags' \in [Nodes -> TagVersions]
      BY <1>2 DEF AddTag, PipelineTypeOK, TagVersions
    <2>2. /\ pc' \in [Tasks -> {"idle", "insert", "populate", "fire", "now"}]
          /\ TargetOK'
      BY <1>2 DEF AddTag, PipelineTypeOK, TargetOK, Tasks
    <2> QED
      BY <1>2, <2>1, <2>2 DEF AddTag, PipelineTypeOK
  <1>3. ASSUME NEW u \in Updaters, NEW n \in Nodes, RequestFull(u, n) PROVE (PipelineTypeOK' /\ TargetOK')
    BY <1>3 DEF RequestFull, PipelineTypeOK, TargetOK, Tasks
  <1>4. ASSUME NEW t \in Tasks, Insert(t) PROVE (PipelineTypeOK' /\ TargetOK')
    BY <1>4 DEF Insert, PipelineTypeOK, TargetOK, Tasks
  <1>5. ASSUME NEW t \in Tasks, InsertFails(t) PROVE (PipelineTypeOK' /\ TargetOK')
    BY <1>5 DEF InsertFails, PipelineTypeOK, TargetOK, Tasks
  <1>6. ASSUME NEW t \in Tasks, Populate(t) PROVE (PipelineTypeOK' /\ TargetOK')
    BY <1>6 DEF Populate, ParamsOf, PipelineTypeOK, TargetOK, Tasks
  <1>7. ASSUME NEW t \in Tasks, PopulateFails(t) PROVE (PipelineTypeOK' /\ TargetOK')
    BY <1>7 DEF PopulateFails, ParamsOf, PipelineTypeOK, TargetOK, Tasks
  <1>8. ASSUME NEW t \in Tasks, Fire(t) PROVE (PipelineTypeOK' /\ TargetOK')
    BY <1>8 DEF Fire, PipelineTypeOK, TargetOK, Tasks
  <1>9. ASSUME NEW t \in Tasks, ReportNow(t) PROVE (PipelineTypeOK' /\ TargetOK')
    <2>1. queued' \in 0..MaxQueued /\ fails' \in 0..MaxFail
      BY <1>9 DEF ReportNow, EnqueueReport, PipelineTypeOK
    <2>2. /\ pc' \in [Tasks -> {"idle", "insert", "populate", "fire", "now"}]
          /\ TargetOK'
      BY <1>9 DEF ReportNow, PipelineTypeOK, TargetOK, Tasks
    <2> QED
      BY <1>9, <2>1, <2>2 DEF ReportNow, PipelineTypeOK
  <1>10. ASSUME TimerFires PROVE (PipelineTypeOK' /\ TargetOK')
    <2>1. queued' \in 0..MaxQueued /\ fails' \in 0..MaxFail
      BY <1>10 DEF TimerFires, EnqueueReport, PipelineTypeOK
    <2> QED
      BY <1>10, <2>1 DEF TimerFires, PipelineTypeOK, TargetOK
  <1>11. ASSUME BeginReport PROVE (PipelineTypeOK' /\ TargetOK')
    <2>1. queued' \in 0..MaxQueued
      BY <1>11 DEF BeginReport, PipelineTypeOK
    <2> QED
      BY <1>11, <2>1 DEF BeginReport, PipelineTypeOK, TargetOK
  <1>12. ASSUME NEW n \in Nodes, SkipNode(n) PROVE (PipelineTypeOK' /\ TargetOK')
    BY <1>12 DEF SkipNode, NextNode, Leave, PipelineTypeOK, TargetOK, Tasks
  <1>13. ASSUME NEW n \in Nodes, PublishNode(n) PROVE (PipelineTypeOK' /\ TargetOK')
    <2>1. CachedTag(n) \in TagVersions \cup {NoTag}
      BY DEF PipelineTypeOK, CachedTag
    <2>2. committed' \in [Nodes -> TagVersions \cup {NoTag}]
      BY <1>13, <2>1 DEF PublishNode, PipelineTypeOK
    <2>3. /\ wpc' \in {"idle", "visit", "end"} /\ visit' \subseteq Nodes
      BY <1>13 DEF PublishNode, NextNode, Leave, PipelineTypeOK
    <2>4. wire' \in Seq(Messages)
      <3> DEFINE w == Append(wire, NamedMsg(n))
      <3>1. w \in Seq(Messages)
        BY VisitMessages, AppendWire DEF PipelineTypeOK
      <3>2. Append(w, IndexedMsg(n)) \in Seq(Messages)
        <4> HIDE DEF w
        <4> QED BY <3>1, VisitMessages, AppendWire
      <3> QED BY <1>13, <3>1, <3>2 DEF PublishNode
    <2>5. snapshot' \in [Nodes -> TagVersions \cup {NoTag}]
      BY <1>13 DEF PublishNode, PipelineTypeOK
    <2>6. inFlight' \in Int /\ inFlight' <= MaxInFlight
      BY <1>13 DEF PublishNode, PipelineTypeOK
    <2> QED
      BY <1>13, <2>2, <2>3, <2>4, <2>5, <2>6 DEF PublishNode, PipelineTypeOK, TargetOK
  <1>14. ASSUME NEW n \in Nodes, NamedFails(n) PROVE (PipelineTypeOK' /\ TargetOK')
    <2>1. CachedTag(n) \in TagVersions \cup {NoTag}
      BY DEF PipelineTypeOK, CachedTag
    <2>2. committed' \in [Nodes -> TagVersions \cup {NoTag}]
      BY <1>14, <2>1 DEF NamedFails, PipelineTypeOK
    <2>3. /\ wpc' \in {"idle", "visit", "end"} /\ visit' \subseteq Nodes
      BY <1>14 DEF NamedFails, NextNode, Leave, PipelineTypeOK
    <2> QED
      BY <1>14, <2>2, <2>3 DEF NamedFails, PipelineTypeOK, TargetOK
  <1>15. ASSUME NEW n \in Nodes, IndexedFails(n) PROVE (PipelineTypeOK' /\ TargetOK')
    <2>1. CachedTag(n) \in TagVersions \cup {NoTag}
      BY DEF PipelineTypeOK, CachedTag
    <2>2. committed' \in [Nodes -> TagVersions \cup {NoTag}]
      BY <1>15, <2>1 DEF IndexedFails, PipelineTypeOK
    <2>3. /\ wpc' \in {"idle", "visit", "end"} /\ visit' \subseteq Nodes
      BY <1>15 DEF IndexedFails, NextNode, Leave, PipelineTypeOK
    <2>4. wire' \in Seq(Messages)
      BY <1>15, VisitMessages, AppendWire DEF IndexedFails, PipelineTypeOK
    <2>5. snapshot' \in [Nodes -> TagVersions \cup {NoTag}]
      BY <1>15 DEF IndexedFails, PipelineTypeOK
    <2>6. inFlight' \in Int /\ inFlight' <= MaxInFlight /\ fails' \in 0..MaxFail
      BY <1>15 DEF IndexedFails, PipelineTypeOK
    <2> QED
      BY <1>15, <2>2, <2>3, <2>4, <2>5, <2>6 DEF IndexedFails, PipelineTypeOK, TargetOK
  <1>16. ASSUME NEW n \in Nodes, NoMemory(n) PROVE (PipelineTypeOK' /\ TargetOK')
    <2>1. CachedTag(n) \in TagVersions \cup {NoTag}
      BY DEF PipelineTypeOK, CachedTag
    <2>2. committed' \in [Nodes -> TagVersions \cup {NoTag}]
      BY <1>16, <2>1 DEF NoMemory, PipelineTypeOK
    <2>3. /\ wpc' \in {"idle", "visit", "end"} /\ visit' \subseteq Nodes
      BY <1>16 DEF NoMemory, NextNode, Leave, PipelineTypeOK
    <2> QED
      BY <1>16, <2>2, <2>3 DEF NoMemory, PipelineTypeOK, TargetOK
  <1>17. ASSUME EndReport PROVE (PipelineTypeOK' /\ TargetOK')
    BY <1>17 DEF EndReport, PipelineTypeOK, TargetOK, Tasks
  <1>18. ASSUME BrokerApplies PROVE (PipelineTypeOK' /\ TargetOK')
    <2> DEFINE m == Head(wire)
    <2>1. m \in Messages /\ Tail(wire) \in Seq(Messages)
      BY <1>18, TailWire DEF BrokerApplies, PipelineTypeOK
    <2>2. m.vals \in [Params -> 0..MaxVal] /\ m.node \in Nodes /\ m.shadow \in Shadows
          /\ m.tag \in TagVersions \cup {NoTag}
      BY <2>1 DEF Messages
    <2>3. cloud' \in [Shadows -> [Params -> 0..MaxVal]]
      BY <1>18, <2>2 DEF BrokerApplies, PipelineTypeOK
    <2>4. cloudTags' \in [Nodes -> TagVersions \cup {NoTag}]
      BY <1>18, <2>2 DEF BrokerApplies, PipelineTypeOK
    <2>5. acks' \in [AckKinds -> Nat] /\ fails' \in 0..MaxFail
      <3>1. PICK ok \in BOOLEAN : AddAck(m, ok)
        BY <1>18 DEF BrokerApplies
      <3>2. acks' \in [AckKinds -> Nat]
        <4> HIDE DEF m
        <4> QED BY <2>1, <3>1, AckStep DEF PipelineTypeOK
      <3>3. fails' = fails \/ (fails < MaxFail /\ fails' = fails + 1)
        BY <1>18 DEF BrokerApplies
      <3> QED BY <3>2, <3>3 DEF PipelineTypeOK
    <2> QED
      BY <1>18, <2>1, <2>3, <2>4, <2>5 DEF BrokerApplies, PipelineTypeOK, TargetOK
  <1>19. ASSUME WireLoses PROVE (PipelineTypeOK' /\ TargetOK')
    <2>1. Head(wire) \in Messages /\ Tail(wire) \in Seq(Messages)
      BY <1>19, TailWire DEF WireLoses, PipelineTypeOK
    <2>2. acks' \in [AckKinds -> Nat] /\ fails' \in 0..MaxFail
      <3> DEFINE m == Head(wire)
      <3>1. AddAck(m, FALSE)
        BY <1>19 DEF WireLoses
      <3>2. acks' \in [AckKinds -> Nat]
        <4>1. m \in Messages
          BY <2>1
        <4> HIDE DEF m
        <4> QED BY <4>1, <3>1, AckStep DEF PipelineTypeOK
      <3> QED BY <1>19, <3>2 DEF WireLoses, PipelineTypeOK
    <2> QED
      BY <1>19, <2>1, <2>2 DEF WireLoses, PipelineTypeOK, TargetOK
  <1>20. ASSUME NEW k \in AckKinds, HandleAck(k) PROVE (PipelineTypeOK' /\ TargetOK')
    <2>1. acks' \in [AckKinds -> Nat] /\ inFlight' \in Int /\ inFlight' <= MaxInFlight
      BY <1>20 DEF HandleAck, PipelineTypeOK
    <2>2. /\ committed' \in [Nodes -> TagVersions \cup {NoTag}]
          /\ stored' \in [Nodes -> TagVersions \cup {NoTag}]
          /\ snapshot' \in [Nodes -> TagVersions \cup {NoTag}]
      BY <1>20 DEF HandleAck, CommitTags, PipelineTypeOK
    <2>3. /\ pc' \in [Tasks -> {"idle", "insert", "populate", "fire", "now"}]
          /\ target' \in [Tasks -> Params \cup Nodes]
      BY <1>20 DEF HandleAck, PipelineTypeOK
    <2>4. TargetOK'
      BY <1>20 DEF HandleAck, PipelineTypeOK, TargetOK, Tasks
    <2> QED
      BY <1>20, <2>1, <2>2, <2>3, <2>4 DEF HandleAck, PipelineTypeOK
  <1>21. ASSUME UNCHANGED pipelineVars PROVE (PipelineTypeOK' /\ TargetOK')
    BY <1>21 DEF PipelineTypeOK, TargetOK
  <1> QED
    BY <1>1, <1>2, <1>3, <1>4, <1>5, <1>6, <1>7, <1>8, <1>9, <1>10, <1>11, <1>12, <1>13, <1>14,
       <1>15, <1>16, <1>17, <1>18, <1>19, <1>20, <1>21
       DEF PipelineNext, Updating, Progress, Reporting, Delivering, Handling

(* A step that touches neither values, wire nor shadows keeps their order. *)
LEMMA OrderedQuiet == Ordered /\ UNCHANGED <<value, wire, cloud>> => Ordered'
  BY DEF Ordered, Carries

(* A message is a record of these values.                                  *)
LEMMA WireValues ==
    ASSUME PipelineTypeOK, NEW i \in 1..Len(wire), NEW p \in Params
    PROVE  wire[i] \in Messages /\ wire[i].vals[p] \in Nat
  <1>1. wire[i] \in Messages
    BY DEF PipelineTypeOK
  <1>2. wire[i].vals \in [Params -> 0..MaxVal]
    BY <1>1 DEF Messages
  <1> QED BY <1>1, <1>2

(* The wire keeps what it has, and gains messages with current values.     *)
WireGrows ==
    /\ Len(wire) \in Nat /\ Len(wire') \in Nat /\ Len(wire) <= Len(wire')
    /\ \A i \in 1..Len(wire) : wire'[i] = wire[i]
    /\ \A i \in 1..Len(wire') : i > Len(wire) => \A p \in wire'[i].items : wire'[i].vals[p] = value[p]

(* Messages with the current values keep the order when they are appended. *)
LEMMA OrderedGrow ==
    ASSUME PipelineTypeOK, Ordered, WireGrows, value' = value, cloud' = cloud
    PROVE  Ordered'
  <1> SUFFICES ASSUME NEW s \in Shadows, NEW p \in Params
               PROVE  /\ cloud[s][p] <= value[p]
                      /\ \A i \in 1..Len(wire') : Carries(i, s, p)' =>
                            cloud[s][p] <= wire'[i].vals[p] /\ wire'[i].vals[p] <= value[p]
                      /\ \A i, j \in 1..Len(wire') : i < j /\ Carries(i, s, p)' /\ Carries(j, s, p)'
                            => wire'[i].vals[p] <= wire'[j].vals[p]
    BY DEF Ordered
  <1>1. value[p] \in Nat /\ cloud[s][p] \in Nat
    BY DEF PipelineTypeOK
  <1>2. cloud[s][p] <= value[p]
    BY DEF Ordered
  <1>3. ASSUME NEW i \in 1..Len(wire'), Carries(i, s, p)'
        PROVE  cloud[s][p] <= wire'[i].vals[p] /\ wire'[i].vals[p] <= value[p]
    <2>1. CASE i > Len(wire)
      BY <1>1, <1>2, <1>3, <2>1 DEF Carries, WireGrows
    <2>2. CASE ~(i > Len(wire))
      BY <1>3, <2>2 DEF Carries, Ordered, WireGrows
    <2> QED BY <2>1, <2>2
  <1>4. ASSUME NEW i \in 1..Len(wire'), NEW j \in 1..Len(wire'), i < j,
               Carries(i, s, p)', Carries(j, s, p)'
        PROVE  wire'[i].vals[p] <= wire'[j].vals[p]
    <2>1. CASE j > Len(wire)
      BY <1>3, <1>4, <2>1 DEF Carries, WireGrows
    <2>2. CASE ~(j > Len(wire))
      <3>1. i \in 1..Len(wire) /\ j \in 1..Len(wire)
        BY <1>4, <2>2 DEF WireGrows
      <3> QED BY <1>4, <3>1 DEF Carries, Ordered, WireGrows
    <2> QED BY <2>1, <2>2
  <1> QED BY <1>2, <1>3, <1>4

(* What one visit to node n puts on the wire.                              *)
LEMMA VisitGrows ==
    ASSUME PipelineTypeOK, NEW n \in Nodes, PublishNode(n) \/ IndexedFails(n)
    PROVE  /\ WireGrows
           /\ PublishNode(n) => \E i \in 1..Len(wire') :
                 /\ wire'[i].shadow = "named" /\ wire'[i].items = ListOf(n)
                 /\ \A p \in ListOf(n) : wire'[i].vals[p] = value[p]
           /\ PublishNode(n) /\ HasIndexed(n) => \E i \in 1..Len(wire') :
                 /\ wire'[i].shadow = "indexed" /\ wire'[i].items = ListOf(n) \cap Indexed
                 /\ \A p \in ListOf(n) \cap Indexed : wire'[i].vals[p] = value[p]
  <1> DEFINE a == NamedMsg(n)
             b == IndexedMsg(n)
             w == Append(wire, a)
  <1>1. /\ a \in Messages /\ b \in Messages
        /\ a.shadow = "named" /\ b.shadow = "indexed"
        /\ a.items = ListOf(n) /\ b.items = ListOf(n) \cap Indexed
        /\ \A p \in ListOf(n) : a.vals[p] = value[p]
        /\ \A p \in ListOf(n) \cap Indexed : b.vals[p] = value[p]
    BY VisitMessages
  <1>2. \/ wire' = w /\ (PublishNode(n) => ~HasIndexed(n))
        \/ wire' = Append(w, b)
    BY DEF PublishNode, IndexedFails
  <1> HIDE DEF a, b
  <1>3. /\ w \in Seq(Messages) /\ Len(wire) \in Nat /\ Len(w) = Len(wire) + 1
        /\ \A i \in 1..Len(wire) : w[i] = wire[i]
        /\ w[Len(wire) + 1] = a
    BY <1>1, AppendWire DEF PipelineTypeOK
  <1> HIDE DEF w
  <1>4. /\ Append(w, b) \in Seq(Messages) /\ Len(Append(w, b)) = Len(w) + 1
        /\ \A i \in 1..Len(w) : Append(w, b)[i] = w[i]
        /\ Append(w, b)[Len(w) + 1] = b
    BY <1>1, <1>3, AppendWire
  <1>5. CASE wire' = w /\ (PublishNode(n) => ~HasIndexed(n))
    <2>1. WireGrows
      BY <1>1, <1>3, <1>5 DEF WireGrows
    <2>2. Len(wire') \in 1..Len(wire') /\ wire'[Len(wire')] = a
      BY <1>3, <1>5
    <2> QED BY <1>1, <1>5, <2>1, <2>2
  <1>6. CASE wire' = Append(w, b)
    <2>1. WireGrows
      BY <1>1, <1>3, <1>4, <1>6 DEF WireGrows
    <2>2. /\ Len(w) \in 1..Len(wire') /\ wire'[Len(w)] = a
          /\ Len(wire') \in 1..Len(wire') /\ wire'[Len(wire')] = b
      BY <1>3, <1>4, <1>6
    <2> QED BY <1>1, <2>1, <2>2
  <1> QED BY <1>2, <1>5, <1>6

(* Applying the oldest message brings the shadow to its values, which the  *)
(* later messages are not behind.                                          *)
LEMMA OrderedPop ==
    ASSUME PipelineTypeOK, Ordered, value' = value,
           Len(wire) \in Nat, Len(wire) >= 1, Len(wire') = Len(wire) - 1,
           \A i \in 1..Len(wire') : wire'[i] = wire[i + 1],
           cloud' = [s \in Shadows |-> [p \in Params |->
                       IF s = wire[1].shadow /\ p \in wire[1].items
                       THEN wire[1].vals[p] ELSE cloud[s][p]]]
    PROVE  Ordered'
  <1> SUFFICES ASSUME NEW s \in Shadows, NEW p \in Params
               PROVE  /\ cloud'[s][p] <= value[p]
                      /\ \A i \in 1..Len(wire') : Carries(i, s, p)' =>
                            cloud'[s][p] <= wire'[i].vals[p] /\ wire'[i].vals[p] <= value[p]
                      /\ \A i, j \in 1..Len(wire') : i < j /\ Carries(i, s, p)' /\ Carries(j, s, p)'
                            => wire'[i].vals[p] <= wire'[j].vals[p]
    BY DEF Ordered
  <1>1. \A i \in 1..Len(wire') : /\ i + 1 \in 1..Len(wire) /\ 1 < i + 1 /\ wire'[i] = wire[i + 1]
    OBVIOUS
  <1>2. \A i, j \in 1..Len(wire') : i < j => i + 1 < j + 1
    OBVIOUS
  <1>3. 1 \in 1..Len(wire)
    OBVIOUS
  <1>4. cloud'[s][p] = IF Carries(1, s, p) THEN wire[1].vals[p] ELSE cloud[s][p]
    BY DEF Carries
  <1>5. cloud'[s][p] <= value[p]
    BY <1>3, <1>4 DEF Ordered
  <1>6. ASSUME NEW i \in 1..Len(wire'), Carries(i, s, p)'
        PROVE  cloud'[s][p] <= wire'[i].vals[p] /\ wire'[i].vals[p] <= value[p]
    <2>1. Carries(i + 1, s, p)
      BY <1>1, <1>6 DEF Carries
    <2> QED BY <1>1, <1>3, <1>4, <2>1 DEF Ordered
  <1>7. ASSUME NEW i \in 1..Len(wire'), NEW j \in 1..Len(wire'), i < j,
               Carries(i, s, p)', Carries(j, s, p)'
        PROVE  wire'[i].vals[p] <= wire'[j].vals[p]
    <2>1. Carries(i + 1, s, p) /\ Carries(j + 1, s, p)
      BY <1>1, <1>7 DEF Carries
    <2> QED BY <1>1, <1>2, <1>7, <2>1 DEF Ordered
  <1> QED BY <1>5, <1>6, <1>7

(* Every step keeps the publishes in order.                                *)
LEMMA OrderedNext == PipelineTypeOK /\ Ordered /\ [PipelineNext]_pipelineVars => Ordered'
  <1> SUFFICES ASSUME PipelineTypeOK /\ Ordered, [PipelineNext]_pipelineVars PROVE Ordered'
    OBVIOUS
  <1> USE DEF Goto, pipelineVars, listVars, tagVars, sendVars, workVars, taskVars, cloudVars
  <1>1. ASSUME NEW u \in Updaters, NEW p \in Params, SetParam(u, p) PROVE Ordered'
    <2>1. value' \in [Params -> Nat] /\ \A q \in Params : value[q] \in Nat /\ value[q] <= value'[q]
      BY <1>1 DEF SetParam, PipelineTypeOK
    <2>2. UNCHANGED <<wire, cloud>>
      BY <1>1 DEF SetParam
    <2>3. ASSUME NEW s \in Shadows, NEW q \in Params
          PROVE  /\ cloud[s][q] <= value'[q]
                 /\ \A i \in 1..Len(wire) : Carries(i, s, q) =>
                       cloud[s][q] <= wire[i].vals[q] /\ wire[i].vals[q] <= value'[q]
      <3>1. cloud[s][q] \in Nat /\ cloud[s][q] <= value[q]
        BY DEF PipelineTypeOK, Ordered
      <3>2. cloud[s][q] <= value'[q]
        BY <2>1, <3>1
      <3>3. ASSUME NEW i \in 1..Len(wire), Carries(i, s, q)
            PROVE cloud[s][q] <= wire[i].vals[q] /\ wire[i].vals[q] <= value'[q]
        <4>1. wire[i].vals[q] \in Nat
          BY WireValues
        <4>2. cloud[s][q] <= wire[i].vals[q] /\ wire[i].vals[q] <= value[q]
          BY <3>3 DEF Ordered
        <4> QED BY <2>1, <4>1, <4>2
      <3> QED BY <3>2, <3>3
    <2> QED BY <2>2, <2>3 DEF Ordered, Carries
  <1>2. ASSUME NEW u \in Updaters, NEW n \in Nodes, AddTag(u, n) PROVE Ordered'
    BY <1>2, OrderedQuiet DEF AddTag
  <1>3. ASSUME NEW u \in Updaters, NEW n \in Nodes, RequestFull(u, n) PROVE Ordered'
    BY <1>3, OrderedQuiet DEF RequestFull
  <1>4. ASSUME NEW t \in Tasks, Insert(t) PROVE Ordered'
    BY <1>4, OrderedQuiet DEF Insert
  <1>5. ASSUME NEW t \in Tasks, InsertFails(t) PROVE Ordered'
    BY <1>5, OrderedQuiet DEF InsertFails
  <1>6. ASSUME NEW t \in Tasks, Populate(t) PROVE Ordered'
    BY <1>6, OrderedQuiet DEF Populate, ParamsOf
  <1>7. ASSUME NEW t \in Tasks, PopulateFails(t) PROVE Ordered'
    BY <1>7, OrderedQuiet DEF PopulateFails, ParamsOf
  <1>8. ASSUME NEW t \in Tasks, Fire(t) PROVE Ordered'
    BY <1>8, OrderedQuiet DEF Fire
  <1>9. ASSUME NEW t \in Tasks, ReportNow(t) PROVE Ordered'
    BY <1>9, OrderedQuiet DEF ReportNow, EnqueueReport
  <1>10. ASSUME TimerFires PROVE Ordered'
    BY <1>10, OrderedQuiet DEF TimerFires, EnqueueReport
  <1>11. ASSUME BeginReport PROVE Ordered'
    BY <1>11, OrderedQuiet DEF BeginReport
  <1>12. ASSUME NEW n \in Nodes, SkipNode(n) PROVE Ordered'
    BY <1>12, OrderedQuiet DEF SkipNode, NextNode, Leave
  <1>13. ASSUME NEW n \in Nodes, PublishNode(n) PROVE Ordered'
    BY <1>13, VisitGrows, OrderedGrow DEF PublishNode
  <1>14. ASSUME NEW n \in Nodes, NamedFails(n) PROVE Ordered'
    BY <1>14, OrderedQuiet DEF NamedFails, NextNode, Leave
  <1>15. ASSUME NEW n \in Nodes, IndexedFails(n) PROVE Ordered'
    BY <1>15, VisitGrows, OrderedGrow DEF IndexedFails
  <1>16. ASSUME NEW n \in Nodes, NoMemory(n) PROVE Ordered'
    BY <1>16, OrderedQuiet DEF NoMemory, NextNode, Leave
  <1>17. ASSUME EndReport PROVE Ordered'
    BY <1>17, OrderedQuiet DEF EndReport
  <1>18. ASSUME BrokerApplies PROVE Ordered'
    <2> DEFINE m == Head(wire)
    <2>1. value' = value /\ wire' = Tail(wire)
          /\ cloud' = [s \in Shadows |-> [p \in Params |->
                         IF s = m.shadow /\ p \in m.items THEN m.vals[p] ELSE cloud[s][p]]]
      BY <1>18 DEF BrokerApplies
    <2>2. /\ m = wire[1] /\ Len(wire) \in Nat /\ Len(wire) >= 1 /\ Len(wire') = Len(wire) - 1
          /\ \A i \in 1..Len(wire') : wire'[i] = wire[i + 1]
      BY <1>18, <2>1, TailWire DEF BrokerApplies, PipelineTypeOK
    <2> HIDE DEF m
    <2> QED BY <2>1, <2>2, OrderedPop
  <1>19. ASSUME WireLoses PROVE Ordered'
    <2>1. value' = value /\ cloud' = cloud /\ wire' = Tail(wire)
      BY <1>19 DEF WireLoses
    <2>2. /\ Len(wire) \in Nat /\ Len(wire') = Len(wire) - 1
          /\ \A i \in 1..Len(wire') : wire'[i] = wire[i + 1]
      BY <1>19, <2>1, TailWire DEF WireLoses, PipelineTypeOK
    <2>3. \A i \in 1..Len(wire') : i + 1 \in 1..Len(wire) /\ wire'[i] = wire[i + 1]
      BY <2>2
    <2>4. \A i, j \in 1..Len(wire') : i < j => i + 1 < j + 1
      BY <2>2
    <2> QED BY <2>1, <2>3, <2>4 DEF Ordered, Carries
  <1>20. ASSUME NEW k \in AckKinds, HandleAck(k) PROVE Ordered'
    BY <1>20, OrderedQuiet DEF HandleAck
  <1>21. ASSUME UNCHANGED pipelineVars PROVE Ordered'
    BY <1>21, OrderedQuiet
  <1> QED
    BY <1>1, <1>2, <1>3, <1>4, <1>5, <1>6, <1>7, <1>8, <1>9, <1>10, <1>11, <1>12, <1>13, <1>14,
       <1>15, <1>16, <1>17, <1>18, <1>19, <1>20, <1>21
       DEF PipelineNext, Updating, Progress, Reporting, Delivering, Handling

-----------------------------------------------------------------------------
(* A step that leaves values, wire and shadows alone and drops nothing     *)
(* from the lists.                                                         *)
Quiet ==
    /\ UNCHANGED <<value, wire, cloud>>
    /\ pending \cup refused \subseteq (pending \cup refused)'
    /\ FailureKnown => FailureKnown' \/ ParamsOf(Self) \subseteq (pending \cup refused)'
    /\ \A p \in Params : AboutToInsert(p) => AboutToInsert(p)' \/ p \in (pending \cup refused)'

(* Such a step forgets nothing.                                            *)
LEMMA ForgottenQuiet == NoOwnUpdateForgotten /\ Quiet => NoOwnUpdateForgotten'
  <1> SUFFICES ASSUME NoOwnUpdateForgotten, Quiet, NEW p \in ParamsOf(Self)
               PROVE  /\ (Accounted("named", p) \/ FailureKnown)'
                      /\ p \in Indexed => (Accounted("indexed", p) \/ FailureKnown)'
    BY DEF NoOwnUpdateForgotten, ParamsOf
  <1>1. p \in Params
    BY DEF ParamsOf
  <1>2. ASSUME NEW s, Accounted(s, p) \/ FailureKnown
        PROVE  (Accounted(s, p) \/ FailureKnown)'
    <2>1. OnWire(s, p) => OnWire(s, p)'
      BY DEF Quiet, OnWire
    <2> QED BY <1>1, <1>2, <2>1 DEF Quiet, Accounted
  <1> QED
    BY <1>2 DEF NoOwnUpdateForgotten

(* Every step keeps every own update accounted for.                        *)
LEMMA ForgottenNext == PipelineTypeOK /\ TargetOK /\ Ordered /\ NoOwnUpdateForgotten /\ [PipelineNext]_pipelineVars => NoOwnUpdateForgotten'
  <1> SUFFICES ASSUME PipelineTypeOK /\ TargetOK /\ Ordered /\ NoOwnUpdateForgotten, [PipelineNext]_pipelineVars PROVE NoOwnUpdateForgotten'
    OBVIOUS
  <1> USE DEF Goto, pipelineVars, listVars, tagVars, sendVars, workVars, taskVars, cloudVars
  <1>1. ASSUME NEW u \in Updaters, NEW p \in Params, SetParam(u, p) PROVE NoOwnUpdateForgotten'
    <2> SUFFICES ASSUME NEW q \in ParamsOf(Self), NEW s \in Shadows,
                        s = "indexed" => q \in Indexed,
                        Accounted(s, q) \/ FailureKnown
                 PROVE  (Accounted(s, q) \/ FailureKnown)'
      BY DEF NoOwnUpdateForgotten, ParamsOf, Shadows
    <2>0. q \in Params
      BY DEF ParamsOf
    <2>1. pc'[u] = "insert" /\ target'[u] = p
      BY <1>1 DEF SetParam, PipelineTypeOK, Tasks
    <2>2. CASE q = p
      BY <2>1, <2>2 DEF Accounted, AboutToInsert
    <2>3. CASE q # p
      <3>1. value'[q] = value[q] /\ UNCHANGED <<wire, cloud, pending, refused, acks>>
        BY <1>1, <2>0, <2>3 DEF SetParam, PipelineTypeOK
      <3>2. OnWire(s, q) => OnWire(s, q)'
        BY <3>1 DEF OnWire
      <3>3. AboutToInsert(q) => AboutToInsert(q)'
        BY <1>1, <2>3 DEF SetParam, AboutToInsert, PipelineTypeOK, Tasks
      <3>4. FailureKnown => FailureKnown'
        BY <1>1 DEF SetParam, FailureKnown, PipelineTypeOK, Tasks
      <3> QED BY <3>1, <3>2, <3>3, <3>4 DEF Accounted
    <2> QED BY <2>2, <2>3
  <1>2. ASSUME NEW u \in Updaters, NEW n \in Nodes, AddTag(u, n) PROVE NoOwnUpdateForgotten'
    <2>1. Quiet
      BY <1>2 DEF AddTag, Quiet, FailureKnown, AboutToInsert, PipelineTypeOK, TargetOK, Tasks
    <2> QED BY <2>1, ForgottenQuiet
  <1>3. ASSUME NEW u \in Updaters, NEW n \in Nodes, RequestFull(u, n) PROVE NoOwnUpdateForgotten'
    <2>1. Quiet
      BY <1>3 DEF RequestFull, Quiet, FailureKnown, AboutToInsert, PipelineTypeOK, TargetOK, Tasks
    <2> QED BY <2>1, ForgottenQuiet
  <1>4. ASSUME NEW t \in Tasks, Insert(t) PROVE NoOwnUpdateForgotten'
    <2>1. Quiet
      BY <1>4 DEF Insert, Quiet, FailureKnown, AboutToInsert, PipelineTypeOK, TargetOK, Tasks
    <2> QED BY <2>1, ForgottenQuiet
  <1>5. ASSUME NEW t \in Tasks, InsertFails(t) PROVE NoOwnUpdateForgotten'
    <2>1. Quiet
      BY <1>5 DEF InsertFails, Quiet, FailureKnown, AboutToInsert, PipelineTypeOK, TargetOK, Tasks
    <2> QED BY <2>1, ForgottenQuiet
  <1>6. ASSUME NEW t \in Tasks, Populate(t) PROVE NoOwnUpdateForgotten'
    <2>1. Quiet
      BY <1>6 DEF Populate, ParamsOf, Quiet, FailureKnown, AboutToInsert, PipelineTypeOK, TargetOK, Tasks
    <2> QED BY <2>1, ForgottenQuiet
  <1>7. ASSUME NEW t \in Tasks, PopulateFails(t) PROVE NoOwnUpdateForgotten'
    <2>1. Quiet
      BY <1>7 DEF PopulateFails, ParamsOf, Quiet, FailureKnown, AboutToInsert, PipelineTypeOK, TargetOK,
         Tasks
    <2> QED BY <2>1, ForgottenQuiet
  <1>8. ASSUME NEW t \in Tasks, Fire(t) PROVE NoOwnUpdateForgotten'
    <2>1. Quiet
      BY <1>8 DEF Fire, Quiet, FailureKnown, AboutToInsert, PipelineTypeOK, TargetOK, Tasks
    <2> QED BY <2>1, ForgottenQuiet
  <1>9. ASSUME NEW t \in Tasks, ReportNow(t) PROVE NoOwnUpdateForgotten'
    <2>1. Quiet
      BY <1>9 DEF ReportNow, EnqueueReport, Quiet, FailureKnown, AboutToInsert, PipelineTypeOK, TargetOK,
         Tasks
    <2> QED BY <2>1, ForgottenQuiet
  <1>10. ASSUME TimerFires PROVE NoOwnUpdateForgotten'
    <2>1. Quiet
      BY <1>10 DEF TimerFires, EnqueueReport, Quiet, FailureKnown, AboutToInsert, PipelineTypeOK, TargetOK,
         Tasks
    <2> QED BY <2>1, ForgottenQuiet
  <1>11. ASSUME BeginReport PROVE NoOwnUpdateForgotten'
    <2>1. Quiet
      BY <1>11 DEF BeginReport, Quiet, FailureKnown, AboutToInsert, PipelineTypeOK, TargetOK, Tasks
    <2> QED BY <2>1, ForgottenQuiet
  <1>12. ASSUME NEW n \in Nodes, SkipNode(n) PROVE NoOwnUpdateForgotten'
    <2>1. Quiet
      BY <1>12 DEF SkipNode, NextNode, Leave, Quiet, FailureKnown, AboutToInsert, PipelineTypeOK, TargetOK,
         Tasks
    <2> QED BY <2>1, ForgottenQuiet
  <1>13. ASSUME NEW n \in Nodes, PublishNode(n) PROVE NoOwnUpdateForgotten'
    <2> SUFFICES ASSUME NEW p \in ParamsOf(Self), NEW s \in Shadows,
                        s = "indexed" => p \in Indexed,
                        Accounted(s, p) \/ FailureKnown
                 PROVE  (Accounted(s, p) \/ FailureKnown)'
      BY DEF NoOwnUpdateForgotten, ParamsOf, Shadows
    <2>0. p \in Params
      BY DEF ParamsOf
    <2>1. /\ UNCHANGED <<value, refused, cloud, acks, pc, target>>
          /\ pending' = pending \ ListOf(n)
      BY <1>13 DEF PublishNode
    <2>2. OnWire(s, p) => OnWire(s, p)'
      BY <1>13, <2>1, VisitGrows DEF WireGrows, OnWire
    <2>3. p \in ListOf(n) => OnWire(s, p)'
      <3>1. CASE s = "named"
        BY <1>13, <2>1, <3>1, VisitGrows DEF OnWire
      <3>2. CASE s = "indexed"
        BY <1>13, <2>1, <3>2, VisitGrows DEF OnWire, HasIndexed
      <3> QED BY <3>1, <3>2 DEF Shadows
    <2>4. AboutToInsert(p) => AboutToInsert(p)'
      BY <2>1 DEF AboutToInsert
    <2>5. FailureKnown => FailureKnown'
      BY <2>1 DEF FailureKnown
    <2> QED BY <2>1, <2>2, <2>3, <2>4, <2>5 DEF Accounted
  <1>14. ASSUME NEW n \in Nodes, NamedFails(n) PROVE NoOwnUpdateForgotten'
    <2>1. Quiet
      BY <1>14 DEF NamedFails, NextNode, Leave, Quiet, FailureKnown, AboutToInsert, PipelineTypeOK,
         TargetOK, Tasks
    <2> QED BY <2>1, ForgottenQuiet
  <1>15. ASSUME NEW n \in Nodes, IndexedFails(n) PROVE NoOwnUpdateForgotten'
    <2> SUFFICES ASSUME NEW p \in ParamsOf(Self), NEW s \in Shadows,
                        s = "indexed" => p \in Indexed,
                        Accounted(s, p) \/ FailureKnown
                 PROVE  (Accounted(s, p) \/ FailureKnown)'
      BY DEF NoOwnUpdateForgotten, ParamsOf, Shadows
    <2>0. p \in Params
      BY DEF ParamsOf
    <2>1. UNCHANGED <<value, refused, cloud, acks, pc, target, pending>>
      BY <1>15 DEF IndexedFails
    <2>2. OnWire(s, p) => OnWire(s, p)'
      BY <1>15, <2>1, VisitGrows DEF WireGrows, OnWire
    <2>3. AboutToInsert(p) => AboutToInsert(p)'
      BY <2>1 DEF AboutToInsert
    <2>4. FailureKnown => FailureKnown'
      BY <2>1 DEF FailureKnown
    <2> QED BY <2>1, <2>2, <2>3, <2>4 DEF Accounted
  <1>16. ASSUME NEW n \in Nodes, NoMemory(n) PROVE NoOwnUpdateForgotten'
    <2>1. Quiet
      BY <1>16 DEF NoMemory, NextNode, Leave, Quiet, FailureKnown, AboutToInsert, PipelineTypeOK, TargetOK,
         Tasks
    <2> QED BY <2>1, ForgottenQuiet
  <1>17. ASSUME EndReport PROVE NoOwnUpdateForgotten'
    <2>1. Quiet
      BY <1>17 DEF EndReport, Quiet, FailureKnown, AboutToInsert, PipelineTypeOK, TargetOK, Tasks
    <2> QED BY <2>1, ForgottenQuiet
  <1>18. ASSUME BrokerApplies PROVE NoOwnUpdateForgotten'
    <2> SUFFICES ASSUME NEW p \in ParamsOf(Self), NEW s \in Shadows,
                        s = "indexed" => p \in Indexed,
                        Accounted(s, p) \/ FailureKnown
                 PROVE  (Accounted(s, p) \/ FailureKnown)'
      BY DEF NoOwnUpdateForgotten, ParamsOf, Shadows
    <2>0. p \in Params
      BY DEF ParamsOf
    <2> DEFINE m == Head(wire)
    <2>1. /\ UNCHANGED <<value, pending, refused, pc, target>> /\ wire' = Tail(wire)
          /\ cloud'[s][p] = IF s = m.shadow /\ p \in m.items THEN m.vals[p] ELSE cloud[s][p]
      BY <1>18, <2>0 DEF BrokerApplies
    <2>2. /\ m = wire[1] /\ m \in Messages
          /\ Len(wire) \in Nat /\ Len(wire) >= 1 /\ Len(wire') = Len(wire) - 1
          /\ \A i \in 1..Len(wire') : wire'[i] = wire[i + 1]
      BY <1>18, <2>1, TailWire DEF BrokerApplies, PipelineTypeOK
    <2>3. PICK ok \in BOOLEAN : AddAck(m, ok)
      BY <1>18 DEF BrokerApplies
    <2> HIDE DEF m
    <2>4. FailureKnown => FailureKnown'
      BY <2>1, <2>2, <2>3, AckStep DEF FailureKnown, PipelineTypeOK
    <2>5. AboutToInsert(p) => AboutToInsert(p)'
      BY <2>1 DEF AboutToInsert
    <2>6. cloud[s][p] = value[p] => cloud'[s][p] = value[p]
      <3>1. CASE Carries(1, s, p)
        <4>1. cloud[s][p] <= wire[1].vals[p] /\ wire[1].vals[p] <= value[p]
          BY <2>0, <2>2, <3>1 DEF Ordered
        <4>2. wire[1].vals[p] \in Nat /\ value[p] \in Nat
          BY <2>0, <2>2, WireValues DEF PipelineTypeOK
        <4> QED BY <2>1, <2>2, <3>1, <4>1, <4>2 DEF Carries
      <3>2. CASE ~Carries(1, s, p)
        BY <2>1, <2>2, <3>2 DEF Carries
      <3> QED BY <3>1, <3>2
    <2>7. OnWire(s, p) => OnWire(s, p)' \/ cloud'[s][p] = value[p]
      <3> SUFFICES ASSUME NEW i \in 1..Len(wire), wire[i].shadow = s, p \in wire[i].items,
                          wire[i].vals[p] = value[p]
                   PROVE  OnWire(s, p)' \/ cloud'[s][p] = value[p]
        BY DEF OnWire
      <3>1. CASE i = 1
        BY <2>1, <2>2, <3>1
      <3>2. CASE i # 1
        <4>1. i - 1 \in 1..Len(wire') /\ wire'[i - 1] = wire[i]
          BY <2>2, <3>2
        <4> QED BY <2>1, <4>1 DEF OnWire
      <3> QED BY <3>1, <3>2
    <2> QED BY <2>1, <2>4, <2>5, <2>6, <2>7 DEF Accounted
  <1>19. ASSUME WireLoses PROVE NoOwnUpdateForgotten'
    <2> DEFINE m == Head(wire)
    <2>1. m \in Messages /\ AddAck(m, FALSE)
      BY <1>19, TailWire DEF WireLoses, PipelineTypeOK
    <2>2. FailureKnown'
      <3> HIDE DEF m
      <3>1. \E k \in AckKinds : k.ok = FALSE /\ acks'[k] > 0
        BY <2>1, AckStep DEF PipelineTypeOK
      <3> QED BY <3>1 DEF FailureKnown
    <2> QED BY <2>2 DEF NoOwnUpdateForgotten, ParamsOf
  <1>20. ASSUME NEW k \in AckKinds, HandleAck(k) PROVE NoOwnUpdateForgotten'
    <2>1. UNCHANGED <<value, wire, cloud, pending, refused>>
      BY <1>20 DEF HandleAck
    <2>2. FailureKnown => FailureKnown'
      <3>1. CASE k.ok
        <4>1. \A a \in AckKinds : ~a.ok => acks'[a] = acks[a]
          BY <1>20, <3>1 DEF HandleAck, PipelineTypeOK
        <4> QED BY <1>20, <4>1 DEF HandleAck, FailureKnown
      <3>2. CASE ~k.ok
        BY <1>20, <3>2 DEF HandleAck, FailureKnown, PipelineTypeOK, Tasks
      <3> QED BY <3>1, <3>2
    <2>3. \A p \in Params : AboutToInsert(p) => AboutToInsert(p)'
      BY <1>20 DEF HandleAck, AboutToInsert, PipelineTypeOK, Tasks
    <2> QED BY <2>1, <2>2, <2>3, ForgottenQuiet DEF Quiet
  <1>21. ASSUME UNCHANGED pipelineVars PROVE NoOwnUpdateForgotten'
    BY <1>21 DEF NoOwnUpdateForgotten, Accounted, OnWire, AboutToInsert, FailureKnown
  <1> QED
    BY <1>1, <1>2, <1>3, <1>4, <1>5, <1>6, <1>7, <1>8, <1>9, <1>10, <1>11, <1>12, <1>13, <1>14,
       <1>15, <1>16, <1>17, <1>18, <1>19, <1>20, <1>21
       DEF PipelineNext, Updating, Progress, Reporting, Delivering, Handling

(* No change of one of the node's own parameters is ever forgotten by the  *)
(* pipeline, however many tasks change parameters while reports run and    *)
(* whatever publishes fail or are lost after __publish_node_locked cleared *)
(* the list.                                                               *)
THEOREM OwnUpdatesSafe == PipelineSpec => [](PipelineTypeOK /\ NoOwnUpdateForgotten)
  <1>1. PipelineInit => ReportInv
    BY ReportInvInit
  <1>2. ReportInv /\ [PipelineNext]_pipelineVars => ReportInv'
    BY TypeNext, OrderedNext, ForgottenNext DEF ReportInv
  <1>3. ReportInv => PipelineTypeOK /\ NoOwnUpdateForgotten
    BY DEF ReportInv
  <1> QED
    BY <1>1, <1>2, <1>3, PTL DEF PipelineSpec

=============================================================================
