----------------------------- MODULE OtaStatus -----------------------------
(***************************************************************************)
(* The OTA status manager (esp_rmaker_neo_ota/src/ota_status.c): one cache *)
(* entry per job, the version number the next update of the job expects at *)
(* the cloud, and the final status that is kept, and sent again, until the *)
(* cloud has answered.                                                     *)
(*                                                                         *)
(* Three tasks use the cache: the work-queue worker sends updates and      *)
(* clears jobs, the event loop handles answers and resends after a new     *)
(* subscription, and the scheduler's dispatch task runs the retry of an    *)
(* entry.  One step is one section under the cache mutex, or one publish.  *)
(* Cancelling a retry that is already running does not stop it             *)
(* (scheduler_freertos.c): the retry task goes on with the entry it was    *)
(* given, and crashed records that it met one that had been freed.         *)
(*                                                                         *)
(* The AWS IoT Jobs service and the network are external.  Updates and     *)
(* answers may be lost and reordered, updates of a final status (QoS 1)    *)
(* duplicated.  Delays are left out: a retry fires any time it is armed.   *)
(***************************************************************************)
EXTENDS Integers, FiniteSets

CONSTANTS
    Jobs,       \* job ids
    Terminal,   \* Succeeded, Failed, Rejected: the final statuses
    None,       \* no status, no entry
    MaxId,      \* bound: entries ever created
    MaxVer,     \* bound: version numbers, above every version the cloud reaches
    MaxSends,   \* bound: updates the state machine sends, and new subscriptions
    MaxFaults,  \* bound: lost messages, failed publishes and allocations, transient rejections
    MaxNet      \* bound: updates on their way when a retry is published, and unread answers

ASSUME StatusAssumption == /\ "QUEUED" \notin Terminal /\ "IN_PROGRESS" \notin Terminal
                           /\ "GONE" \notin Terminal /\ None \notin Terminal
ASSUME BoundsAssumption == /\ MaxId \in Nat \ {0} /\ MaxVer \in Nat /\ MaxSends \in Nat
                           /\ MaxVer > MaxSends + 1 /\ MaxNet \in Nat \ {0} /\ MaxFaults \in Nat

VARIABLES
    live,       \* ids (job_id_int) of the entries in the cache
    nextId,     \* next_job_id_int
    entry,      \* entry[i]: job, version, and the cached final status
    armed,      \* entries whose retry timer counts down
    snd,        \* snd[c]: the call of ota_status_send() of task c
    todo,       \* updates the event loop still has to resend
    retry,      \* the retry task: where it is and what it holds
    told,       \* jobs whose outcome was posted to the state machine
    net, resp,  \* updates and answers on their way
    exec, ver,  \* the cloud: status and version of every job execution
    sends,      \* updates sent by the state machine, and new subscriptions
    faults,     \* faults so far
    verdicts,   \* history: final statuses the device decided for a job
    unarmed,    \* history: entries cached without a timer, for lack of one
    crashed     \* history: a freed entry was used

cache == <<live, nextId, entry, armed>>
vars == <<cache, snd, todo, retry, told, net, resp, exec, ver, sends, faults, verdicts, unarmed,
          crashed>>

Callers  == {"worker", "loop"}
Ids      == 1..MaxId
Versions == 0..MaxVer
Statuses == Terminal \cup {"IN_PROGRESS"}
Update   == [job : Jobs, status : Statuses, ver : Versions, id : Ids]
Answers  == [id : Ids, term : BOOLEAN, ver : Versions,
             kind : {"accepted", "mismatch", "unrecoverable", "other"}]
EntryRecs == [job : Jobs \cup {None}, version : Versions, cached : Terminal \cup {None}]
Calls(pcs) == [pc : pcs, job : Jobs \cup {None}, status : Statuses \cup {None}, ver : Versions,
               id : Ids \cup {0}]
Idle     == [pc |-> "idle", job |-> None, status |-> None, ver |-> 0, id |-> 0]

Init ==
    /\ live = {} /\ nextId = 1 /\ armed = {}
    /\ entry = [i \in Ids |-> [job |-> None, version |-> 0, cached |-> None]]
    /\ snd = [c \in Callers |-> Idle] /\ retry = Idle /\ todo = {} /\ told = {}
    /\ net = {} /\ resp = {}
    /\ exec = [j \in Jobs |-> "QUEUED"] /\ ver = [j \in Jobs |-> 1]
    /\ sends = 0 /\ faults = 0 /\ verdicts = [j \in Jobs |-> {}] /\ unarmed = {} /\ crashed = FALSE

(* A version at the bound differs from every version of the cloud.         *)
Bump(v) == IF v < MaxVer THEN v + 1 ELSE v

-----------------------------------------------------------------------------
(* The cache.                                                              *)

(* ota_status_cache_get_or_create_job_entries_locked returns entry i.      *)
IsEntry(i, j) == IF \E k \in live : entry[k].job = j THEN i \in live /\ entry[i].job = j
                 ELSE i = nextId
Entry(i, j) == IF i \in live THEN entry[i] ELSE [job |-> j, version |-> 1, cached |-> None]
Store(i, e) == /\ live' = live \cup {i}
               /\ nextId' = IF i \in live THEN nextId ELSE nextId + 1
               /\ entry' = [entry EXCEPT ![i] = e]

(* ota_status_cache_remove_job_entries_locked; nothing reads a freed entry *)
(* but the retry task, and that crashes.                                   *)
Remove(i) == /\ live' = live \ {i}
             /\ armed' = armed \ {i}
             /\ entry' = [entry EXCEPT ![i].version = 0, ![i].cached = None]
             /\ UNCHANGED nextId

Fault == faults < MaxFaults /\ faults' = faults + 1

-----------------------------------------------------------------------------
(* ota_status_send: the locked part, the publish, and the reversal of the  *)
(* version when the publish failed.                                        *)

(* ota_status_is_terminal                                                  *)
Caches(s) == s \in Terminal

SendLocked(c, j, s) ==
    /\ ~crashed /\ snd[c].pc = "idle"
    /\ \E i \in Ids :
        LET e == Entry(i, j)
            held == [e EXCEPT !.cached = IF Caches(s) THEN s ELSE e.cached] IN
        /\ IsEntry(i, j)
        /\ \/ /\ Store(i, [held EXCEPT !.version = Bump(e.version)])
              /\ armed' = IF Caches(s) THEN armed \cup {i} ELSE armed
              /\ snd' = [snd EXCEPT ![c] = [pc |-> "publish", job |-> j, status |-> s,
                                            ver |-> e.version, id |-> i]]
              /\ verdicts' = [verdicts EXCEPT ![j] = @ \cup ({s} \cap Terminal)]
              /\ UNCHANGED <<unarmed, faults>>
           \/ \* no memory for a copy of the details: nothing is cached or sent
              /\ Caches(s)
              /\ Store(i, e)
              /\ Fault
              /\ UNCHANGED <<armed, snd, verdicts, unarmed>>
           \/ \* no timer: the status is cached, but neither armed nor sent
              /\ Caches(s) /\ i \notin armed
              /\ Store(i, held)
              /\ verdicts' = [verdicts EXCEPT ![j] = @ \cup ({s} \cap Terminal)]
              /\ unarmed' = unarmed \cup {i}
              /\ Fault
              /\ UNCHANGED <<armed, snd>>

(* Mutant of Msg: every update says the job succeeded.                     *)
MsgSuccess(t) == [job |-> t.job, status |-> "SUCCEEDED", ver |-> t.ver, id |-> t.id]

(* The payload of an update.                                               *)
Msg(t) == [job |-> t.job, status |-> t.status, ver |-> t.ver, id |-> t.id]

(* ota_status_publish_update                                               *)
PublishOk(c) ==
    /\ ~crashed /\ snd[c].pc = "publish"
    /\ net' = net \cup {Msg(snd[c])}
    /\ snd' = [snd EXCEPT ![c] = Idle]
    /\ UNCHANGED <<cache, todo, retry, told, resp, exec, ver, sends, verdicts, faults, unarmed, crashed>>

PublishFails(c) ==
    /\ ~crashed /\ snd[c].pc = "publish"
    /\ snd' = [snd EXCEPT ![c].pc = "revert"]
    /\ Fault
    /\ UNCHANGED <<cache, todo, retry, told, net, resp, exec, ver, sends, verdicts, unarmed, crashed>>

(* ota_status_cache_overwrite_version; it creates the entry again if the   *)
(* answer to another copy of the update has removed it.                    *)
OverwriteVersion(j, v) ==
    \E i \in Ids : IsEntry(i, j) /\ Store(i, [Entry(i, j) EXCEPT !.version = v])

RevertVersion(c) ==
    /\ ~crashed /\ snd[c].pc = "revert"
    /\ OverwriteVersion(snd[c].job, snd[c].ver)
    /\ snd' = [snd EXCEPT ![c] = Idle]
    /\ UNCHANGED <<armed, todo, retry, told, net, resp, exec, ver, sends, verdicts, faults, unarmed, crashed>>

(* The state machine reports a status.                                     *)
Send(j, s) ==
    /\ sends < MaxSends
    /\ SendLocked("worker", j, s)
    /\ sends' = sends + 1
    /\ UNCHANGED <<todo, retry, told, net, resp, exec, ver, crashed>>

(* ota_status_set_initial_expected_version, from the job document          *)
SetInitialVersion(j) ==
    /\ ~crashed /\ snd["worker"].pc = "idle" /\ sends < MaxSends
    /\ OverwriteVersion(j, ver[j])
    /\ sends' = sends + 1
    /\ UNCHANGED <<armed, snd, todo, retry, told, net, resp, exec, ver, verdicts, faults, unarmed, crashed>>

(* ota_status_clear_job_entries, once the state machine has seen the       *)
(* outcome of the final status.                                            *)
ClearJob(j) ==
    /\ ~crashed /\ snd["worker"].pc = "idle" /\ j \in told
    /\ told' = told \ {j}
    /\ IF \E i \in live : entry[i].job = j
       THEN \E i \in live : entry[i].job = j /\ Remove(i)
       ELSE UNCHANGED cache
    /\ UNCHANGED <<snd, todo, retry, net, resp, exec, ver, sends, verdicts, faults, unarmed, crashed>>

-----------------------------------------------------------------------------
(* The event loop.                                                         *)

LoopFree == ~crashed /\ snd["loop"].pc = "idle" /\ todo = {}

(* ota_status_resend_pending_terminals: a snapshot under the lock, sent    *)
(* one by one after it.                                                    *)
Resubscribed ==
    /\ LoopFree /\ sends < MaxSends
    /\ sends' = sends + 1
    /\ todo' = {[job |-> entry[i].job, status |-> entry[i].cached] :
                    i \in {k \in live : entry[k].cached # None}}
    /\ todo' # {}
    /\ UNCHANGED <<cache, snd, retry, told, net, resp, exec, ver, verdicts, faults, unarmed, crashed>>

ResendNext ==
    \E u \in todo :
        /\ SendLocked("loop", u.job, u.status)
        /\ todo' = todo \ {u}
        /\ UNCHANGED <<retry, told, net, resp, exec, ver, sends, crashed>>

(* Mutant of Settles: any accepted update settles the job.                 *)
SettlesAny(r) == r.kind \in {"accepted", "unrecoverable"}

(* An accepted final status, or a rejection no retry can overcome          *)
(* (ota_status_reject_is_unrecoverable), ends the entry.                   *)
Settles(r) == (r.kind = "accepted" /\ r.term) \/ r.kind = "unrecoverable"

(* Mutant of VersionAfter: the device goes on counting by itself.          *)
CountsAlone(r) == entry[r.id].version

(* The version of the cloud's execution state replaces the device's own.   *)
VersionAfter(r) == r.ver

(* ota_status_on_update_response.  The token names the entry; an answer    *)
(* whose entry is gone is dropped.                                         *)
OnUpdateResponse(r) ==
    /\ LoopFree /\ r \in resp
    /\ resp' = resp \ {r}
    /\ \/ /\ r.id \notin live
          /\ UNCHANGED <<cache, todo, told>>
       \/ /\ r.id \in live /\ Settles(r)
          /\ Remove(r.id)
          /\ told' = told \cup {entry[r.id].job}
          /\ UNCHANGED todo
       \/ /\ r.id \in live /\ r.kind = "accepted" /\ ~Settles(r)
          /\ UNCHANGED <<cache, todo, told>>
       \/ /\ r.id \in live /\ r.kind = "mismatch"
          /\ entry' = [entry EXCEPT ![r.id].version = VersionAfter(r)]
          /\ todo' = IF entry[r.id].cached = None THEN {}
                     ELSE {[job |-> entry[r.id].job, status |-> entry[r.id].cached]}
          /\ UNCHANGED <<live, nextId, armed, told>>
       \/ /\ r.id \in live /\ r.kind = "other"
          /\ armed' = IF entry[r.id].cached = None THEN armed ELSE armed \cup {r.id}
          /\ UNCHANGED <<live, nextId, entry, todo, told>>
    /\ UNCHANGED <<snd, retry, net, exec, ver, sends, verdicts, faults, unarmed, crashed>>

-----------------------------------------------------------------------------
(* ota_status_retry_task, on the dispatch task.  The entry is an argument  *)
(* of the task, read under the lock, at the publish and at the re-arming.  *)

RetryFires(i) ==
    /\ ~crashed /\ retry.pc = "idle" /\ i \in armed
    /\ armed' = armed \ {i}
    /\ retry' = [Idle EXCEPT !.pc = "locked", !.id = i]
    /\ UNCHANGED <<live, nextId, entry, snd, todo, told, net, resp, exec, ver, sends, verdicts,
                   faults, unarmed, crashed>>

RetryUsesFreed ==
    /\ ~crashed /\ retry.pc \in {"locked", "publish", "arm"} /\ retry.id \notin live
    /\ crashed' = TRUE
    /\ UNCHANGED <<cache, snd, todo, retry, told, net, resp, exec, ver, sends, verdicts, faults, unarmed>>

RetryLocked ==
    /\ ~crashed /\ retry.pc = "locked" /\ retry.id \in live
    /\ LET e == entry[retry.id] IN
       IF e.cached = None THEN retry' = Idle /\ UNCHANGED entry
       ELSE /\ retry' = [pc |-> "publish", job |-> e.job, status |-> e.cached,
                         ver |-> e.version, id |-> retry.id]
            /\ entry' = [entry EXCEPT ![retry.id].version = Bump(e.version)]
    /\ UNCHANGED <<live, nextId, armed, snd, todo, told, net, resp, exec, ver, sends, verdicts,
                   faults, unarmed, crashed>>

RetryPublish ==
    /\ ~crashed /\ retry.pc = "publish" /\ retry.id \in live
    /\ Cardinality(net) < MaxNet /\ net' = net \cup {Msg(retry)}
    /\ retry' = [Idle EXCEPT !.pc = "arm", !.id = retry.id]
    /\ UNCHANGED <<cache, snd, todo, told, resp, exec, ver, sends, verdicts, faults, unarmed, crashed>>

RetryPublishFails ==
    /\ ~crashed /\ retry.pc = "publish" /\ retry.id \in live
    /\ retry' = [retry EXCEPT !.pc = "revert"]
    /\ Fault
    /\ UNCHANGED <<cache, snd, todo, told, net, resp, exec, ver, sends, verdicts, unarmed, crashed>>

RetryRevert ==
    /\ ~crashed /\ retry.pc = "revert"
    /\ OverwriteVersion(retry.job, retry.ver)
    /\ retry' = [Idle EXCEPT !.pc = "arm", !.id = retry.id]
    /\ UNCHANGED <<armed, snd, todo, told, net, resp, exec, ver, sends, verdicts, faults, unarmed, crashed>>

RetryArm ==
    /\ ~crashed /\ retry.pc = "arm" /\ retry.id \in live
    /\ armed' = armed \cup {retry.id}
    /\ retry' = Idle
    /\ UNCHANGED <<live, nextId, entry, snd, todo, told, net, resp, exec, ver, sends, verdicts,
                   faults, unarmed, crashed>>

-----------------------------------------------------------------------------
(* The cloud and the network (external).                                   *)

Done(j) == exec[j] \in Terminal \cup {"GONE"}
Answer(m, k) == [id |-> m.id, term |-> m.status \in Terminal, kind |-> k,
                 ver |-> IF k = "mismatch" THEN ver[m.job] ELSE 0]

(* UpdateJobExecution                                                      *)
Accept(m) ==
    /\ m \in net /\ Cardinality(resp) < MaxNet
    /\ ~Done(m.job) /\ m.ver = ver[m.job] /\ ver[m.job] + 1 < MaxVer
    /\ exec' = [exec EXCEPT ![m.job] = m.status]
    /\ ver' = [ver EXCEPT ![m.job] = @ + 1]
    /\ resp' = resp \cup {Answer(m, "accepted")}
    /\ net' \in {net \ {m}} \cup (IF m.status \in Terminal THEN {net} ELSE {})
    /\ UNCHANGED <<cache, snd, todo, retry, told, sends, verdicts, faults, unarmed, crashed>>

Reject(m, k) ==
    /\ m \in net /\ Cardinality(resp) < MaxNet
    /\ k = "mismatch" => m.ver # ver[m.job] /\ exec[m.job] # "GONE"
    /\ k = "unrecoverable" => Done(m.job)
    /\ resp' = resp \cup {Answer(m, k)}
    /\ net' = net \ {m}
    /\ IF k = "other" THEN Fault ELSE UNCHANGED faults
    /\ UNCHANGED <<cache, snd, todo, retry, told, exec, ver, sends, verdicts, unarmed, crashed>>

Drop(j) ==
    /\ ~Done(j)
    /\ exec' = [exec EXCEPT ![j] = "GONE"]
    /\ UNCHANGED <<cache, snd, todo, retry, told, net, resp, ver, sends, verdicts, faults, unarmed, crashed>>

Lose ==
    /\ \/ \E m \in net : net' = net \ {m} /\ UNCHANGED resp
       \/ \E r \in resp : resp' = resp \ {r} /\ UNCHANGED net
    /\ Fault
    /\ UNCHANGED <<cache, snd, todo, retry, told, exec, ver, sends, verdicts, unarmed, crashed>>

-----------------------------------------------------------------------------
Worker == \E j \in Jobs : (\E s \in Statuses : Send(j, s)) \/ SetInitialVersion(j) \/ ClearJob(j)
Sending == \E c \in Callers : PublishOk(c) \/ PublishFails(c) \/ RevertVersion(c)
Loop == Resubscribed \/ ResendNext \/ \E r \in resp : OnUpdateResponse(r)
Retry == \/ \E i \in Ids : RetryFires(i)
         \/ RetryLocked \/ RetryPublish \/ RetryPublishFails \/ RetryRevert \/ RetryArm
         \/ RetryUsesFreed
Cloud == \/ \E m \in net : Accept(m) \/ \E k \in {"mismatch", "unrecoverable", "other"} : Reject(m, k)
         \/ \E j \in Jobs : Drop(j)
         \/ Lose
Next == Worker \/ Sending \/ Loop \/ Retry \/ Cloud

Spec == Init /\ [][Next]_vars

-----------------------------------------------------------------------------
(* Properties.                                                             *)

TypeOK ==
    /\ live \subseteq Ids /\ nextId \in 1..(MaxId + 1) /\ armed \subseteq Ids
    /\ entry \in [Ids -> EntryRecs]
    /\ snd \in [Callers -> Calls({"idle", "publish", "revert"})]
    /\ retry \in Calls({"idle", "locked", "publish", "revert", "arm"})
    /\ todo \subseteq [job : Jobs, status : Terminal]
    /\ told \subseteq Jobs
    /\ net \subseteq Update /\ resp \subseteq Answers
    /\ exec \in [Jobs -> Statuses \cup {"QUEUED", "GONE"}] /\ ver \in [Jobs -> Versions]
    /\ sends \in 0..MaxSends /\ faults \in 0..MaxFaults
    /\ verdicts \in [Jobs -> SUBSET Terminal] /\ unarmed \subseteq Ids /\ crashed \in BOOLEAN

CachedEntry(j) == \E i \in live : entry[i].job = j /\ entry[i].cached # None

(* A final status the device has decided on is held in the cache until the *)
(* cloud's record has ended: no answer that is late, duplicated or meant   *)
(* for another update, and no interleaving of the worker, the event loop   *)
(* and the retry task, makes ota_status.c drop it before.                  *)
NotForgotten ==
    \A j \in Jobs : verdicts[j] # {} =>
        Done(j) \/ CachedEntry(j)

(* The retry task never uses an entry that was freed: removal stops and    *)
(* cancels the timer first (ota_status.c, ota_status_clear_job_entries).   *)
NoFreedEntryUsed == ~crashed

Report == INSTANCE JobReport WITH verdicts <- verdicts, exec <- exec

(* The cloud's record ends only in a status the device decided for that    *)
(* job, and never changes after that, whatever is resent or duplicated:    *)
(* the status manager implements JobReport.                                *)
ImplementsReport == Report!Spec

-----------------------------------------------------------------------------
(* Fairness: the three tasks run, an armed timer fires, and the cloud and  *)
(* the network serve what is neither lost nor refused (faults are finite), *)
(* an update that can end the job and the answer that settles it included. *)

Fairness ==
    /\ WF_vars(PublishOk("worker") \/ RevertVersion("worker"))
    /\ WF_vars(\/ ResendNext \/ PublishOk("loop") \/ RevertVersion("loop")
               \/ \E r \in resp : OnUpdateResponse(r))
    /\ \A i \in Ids : SF_vars(RetryFires(i))
    /\ WF_vars(RetryLocked \/ RetryPublish \/ RetryRevert \/ RetryArm \/ RetryUsesFreed)
    /\ WF_vars(\E m \in net : Accept(m) \/ Reject(m, "unrecoverable") \/ Reject(m, "mismatch"))
    /\ SF_vars(\E m \in net : m.status \in Terminal /\ (Accept(m) \/ Reject(m, "unrecoverable")))

FairSpec == Spec /\ Fairness

(* Every final status the device caches is settled at last, although       *)
(* updates and answers are lost, versions diverge and publishes fail.      *)
ReportSettled ==
    \A j \in Jobs : CachedEntry(j) ~> (Done(j) /\ ~CachedEntry(j)) \/ crashed \/ unarmed # {}
=============================================================================
