------------------------------ MODULE OtaJobs ------------------------------
(***************************************************************************)
(* The OTA job state machine (esp_rmaker_neo_ota/src/ota_jobs.c) with what *)
(* survives a restart: the job that awaits verification (ota_nvs.c) and    *)
(* the boot slots (esp_rmaker_ota.c, the bootloader).                      *)
(*                                                                         *)
(* The worker handles one event of the queue q at a time, so one action is *)
(* one case of one handle_state_*() function.  Events are posted by the    *)
(* event loop (answers of the cloud), by timers, by the download and by    *)
(* the application, in any order.  Names of states and events are those of *)
(* ota_job_state_t and ota_job_event_t, shortened.                         *)
(*                                                                         *)
(* Abstracted: payloads; the version numbers and the resending of final    *)
(* statuses (module OtaStatus: a cached final status is settled at last);  *)
(* the download (module OtaImage), which ends in success, failure or       *)
(* timeout; the order of the jobs in a list.  The AWS IoT Jobs service,    *)
(* the broker, the bootloader and the application are external.            *)
(***************************************************************************)
EXTENDS Integers, Sequences, FiniteSets

CONSTANTS
    Jobs,       \* job ids
    Main,       \* the default file type, the application's own firmware
    Types,      \* Main and the custom file types
    Handlers,   \* the file types the device has a handler for
    None,       \* no job, type, status or handler
    Docs,       \* job documents: functions from Jobs to [kind, type, fw]
    MaxFaults,  \* bound, per documents: failures, late timeouts, power losses, unexpected calls
    MaxQ        \* bound: events in the queue when another task posts one

Final == {"SUCCEEDED", "FAILED", "REJECTED"}
Open  == {"QUEUED", "IN_PROGRESS"}     \* executions the cloud lists as pending
Kinds == {"none",       \* the job is never created
          "image",      \* a complete document
          "windowed",   \* one with a download window: ignored while it is closed
          "bad",        \* refused after its handler was found: reference or signature
          "custom"}     \* not a document of this format: for the custom job callback
MaxProg == 2            \* bound: in-progress updates of a job that await an answer

ASSUME JobsAssumption == /\ Main \in Handlers /\ Handlers \subseteq Types
                         /\ None \notin Types \cup Jobs \cup Final
                         /\ Docs \subseteq [Jobs -> [kind : Kinds, type : Types, fw : Nat]]
ASSUME FaultsAssumption == MaxFaults \in [Docs -> Nat] /\ MaxQ \in Nat

VARIABLES
    phase,      \* off, enabled (esp_rmaker_ota_enable), ready (ota_job_state_init)
    st, q,      \* the state, and the events queued for the worker
    rec,        \* recovery: the state and the event that leave ERROR
    backoff,    \* the retry of an error is scheduled
    job, ids,   \* current_job, and the ids whose documents are still to fetch
    armed,      \* the response timer counts down
    firing,     \* its callback has begun: stopping the timer does not stop it
    sub,        \* subscription to the job topics: none, requested, live, down
    dl, stash,  \* the download (job and handler); the terminal event of one to post again
    cached,     \* the final status the status manager reports for each job
    prog,       \* in-progress updates of each job (QoS 0) that await an answer
    ask, note,  \* requests to the cloud, and a jobs/notify, on their way
    nvs,        \* flash: the job to verify after a reboot, and the verdict
    boot,       \* flash: image of the next boot, running, previous; on trial; rolled back
    exec,       \* the cloud: status of every job execution
    app,        \* the jobs whose outcome the application still has to report
    doc,        \* the documents
    good,       \* history: jobs whose image ran and was found valid
    faults,     \* faults so far
    holes       \* history: failures met from which this code does not recover by itself

ctl  == <<st, q, rec, backoff, faults, holes>>
work == <<job, ids>>
time == <<armed, firing>>
down == <<dl, stash>>
stat == <<cached, prog>>
net  == <<sub, ask, note, exec>>
disk == <<nvs, boot, good>>
vars == <<phase, ctl, work, time, down, stat, net, disk, app, doc>>

Ev(e) == [ev |-> e]
NoRecovery == [state |-> "UNINIT", event |-> "ERROR"]
Refetch    == [state |-> "IDLE", event |-> "FETCH"]
NoJob == [id |-> None, ft |-> Main, handler |-> None, active |-> FALSE, pending |-> FALSE, fw |-> 0,
          reboot |-> FALSE, reported |-> FALSE, queued |-> None, status |-> None]
NoDownload == [job |-> None, by |-> None, told |-> FALSE]
NoReport  == [final |-> None, custom |-> None]
NoPending == [job |-> None, ft |-> Main, checked |-> FALSE, passed |-> FALSE]

Done(j)    == exec[j] \notin Open \cup {"NONE"}
Version(i) == IF i = None THEN 0 ELSE doc[i].fw
Quiet      == [j \in Jobs |-> 0]
Unreported == [j \in Jobs |-> None]

Init ==
    /\ doc \in Docs
    /\ phase = "off" /\ st = "UNINIT" /\ q = <<>> /\ rec = NoRecovery /\ backoff = FALSE
    /\ job = NoJob /\ ids = {} /\ armed = FALSE /\ firing = FALSE /\ sub = "none"
    /\ dl = NoDownload /\ stash = <<>> /\ cached = Unreported /\ prog = Quiet
    /\ ask = {} /\ note = FALSE /\ nvs = NoPending
    /\ boot = [slot |-> None, run |-> [t \in Types |-> None], prev |-> None, trial |-> FALSE, rolled |-> FALSE]
    /\ exec = [j \in Jobs |-> "NONE"]
    /\ app = NoReport /\ good = {} /\ faults = 0 /\ holes = {}

-----------------------------------------------------------------------------
(* What a handler does to the machine itself.                              *)

Fault == faults < MaxFaults[doc] /\ faults' = faults + 1

On(s, e) == phase = "ready" /\ st = s /\ q # <<>> /\ Head(q).ev = e

Leave(s, h) == st' = s /\ q' = Tail(q) /\ holes' = holes \cup h /\ UNCHANGED <<rec, faults>>
Go(s) == Leave(s, {})

(* post_error_event: the ERROR event may be refused by the full queue.     *)
PostError == \/ q' = Append(Tail(q), Ev("ERROR")) /\ UNCHANGED holes
             \/ q' = Tail(q) /\ holes' = holes \cup {"queue"}

(* enter_error_state: OTA_ERROR_RETRY_WITH_BACKOFF schedules the recovery, *)
(* the other errors wait for esp_rmaker_ota_request_recovery().            *)
Retry(s) == st' = s /\ rec' = Refetch /\ backoff' = TRUE /\ PostError
Stop(r, h) == /\ st' = "ERROR" /\ rec' = r /\ q' = Append(Tail(q), Ev("ERROR")) /\ backoff' = FALSE
              /\ holes' = holes \cup h

(* enter_error_state_custom leaves ERROR_OCCURRED as the recovery event,   *)
(* which ota_job_state_recover() refuses: the machine stays in ERROR.      *)
RetryHere(s, h) == /\ Fault /\ st' = "ERROR" /\ rec' = [state |-> s, event |-> "ERROR"]
                   /\ q' = Append(Tail(q), Ev("ERROR")) /\ backoff' = TRUE
                   /\ holes' = holes \cup {"report"} \cup h

(* Enqueue event e and go to s; a refused event is an error.               *)
GoPost(s, e) == \/ st' = s /\ q' = Append(Tail(q), e) /\ UNCHANGED <<rec, backoff, faults, holes>>
                \/ Fault /\ Retry("ERROR")
ResetPost(s, e, h) == \/ /\ st' = s /\ q' = Append(Tail(q), e) /\ backoff' = FALSE
                         /\ holes' = holes \cup h /\ UNCHANGED <<rec, faults>>
                      \/ Fault /\ Retry("ERROR")

(* ota_job_state_post_event from another task.                             *)
DeliverBut(e, h) == /\ phase # "off"
                    /\ \/ Len(q) < MaxQ /\ q' = Append(q, e) /\ holes' = holes \cup h /\ UNCHANGED faults
                       \/ Fault /\ holes' = holes \cup {"queue"} /\ UNCHANGED q
Deliver(e) == DeliverBut(e, {})

(* ota_status_send of an in-progress update, and of a final status.        *)
Progress(j) == prog' = [prog EXCEPT ![j] = IF @ < MaxProg THEN @ + 1 ELSE @]
Report(j, s) == cached' = [cached EXCEPT ![j] = s]
CacheEmpty == cached = Unreported

(* Only the verdict on an image says that a job of the default type has    *)
(* succeeded: a final status that says so was meant for another job.       *)
Unfounded(s) == IF s = "SUCCEEDED" /\ job.ft = Main THEN {"mixed"} ELSE {}

-----------------------------------------------------------------------------
(* NETWORK_INIT and REBOOT_CHECK.                                          *)

NetworkInit ==
    /\ On("NETWORK_INIT", "TRANSITION")
    /\ \/ \* no job to verify
          /\ sub' = IF sub = "none" THEN "requested" ELSE sub
          /\ nvs.job = None
          /\ st' = "IDLE" /\ q' = Append(Tail(q), Ev("TRANSITION"))
          /\ UNCHANGED <<rec, backoff, faults, holes, job, nvs>>
       \/ /\ sub' = IF sub = "none" THEN "requested" ELSE sub
          /\ nvs.job # None
          /\ Go("REBOOT_CHECK")
          /\ job' = [job EXCEPT !.id = nvs.job, !.ft = nvs.ft]
          /\ UNCHANGED <<backoff, nvs>>
       \/ \* no memory for the status entry: the verdict is given up
          /\ sub' = IF sub = "none" THEN "requested" ELSE sub
          /\ nvs.job # None
          /\ Fault /\ holes' = holes \cup {"memory"}
          /\ nvs' \in {NoPending, nvs}
          /\ st' = "IDLE" /\ q' = Append(Tail(q), Ev("TRANSITION"))
          /\ UNCHANGED <<rec, backoff, job>>
       \/ \* the subscribe call fails; sub_intended stays set
          /\ sub = "none"
          /\ sub' = "down"
          /\ Fault
          /\ st' = "ERROR" /\ rec' = [state |-> "NETWORK_INIT", event |-> "TRANSITION"]
          /\ q' = Append(Tail(q), Ev("ERROR"))
          /\ holes' = holes \cup {"subscribe"}
          /\ UNCHANGED <<backoff, job, nvs>>
    /\ UNCHANGED <<phase, ids, time, down, stat, ask, note, exec, boot, good, app, doc>>

(* mqtt_publish_final_status: only a lack of memory makes it fail.         *)
RebootCheckFinal ==
    /\ On("REBOOT_CHECK", "FINAL")
    /\ \/ /\ Report(job.id, Head(q).res)
          /\ job' = [job EXCEPT !.status = Head(q).res]
          /\ Leave("REBOOT_CHECK", Unfounded(Head(q).res)) /\ UNCHANGED backoff
       \/ RetryHere("REBOOT_CHECK", {}) /\ UNCHANGED <<cached, job>>
    /\ UNCHANGED <<phase, ids, time, down, prog, net, disk, app, doc>>

(* The verdict in the flash is reported; a custom type reports itself.     *)
(* Flags that cannot be read count as a failure.                           *)
RebootCheck ==
    /\ On("REBOOT_CHECK", "REBOOT_CHECK")
    /\ \/ /\ IF job.ft = Main /\ nvs.checked
             THEN LET s == IF nvs.passed THEN "SUCCEEDED" ELSE "FAILED" IN
                  Report(job.id, s) /\ job' = [job EXCEPT !.status = s]
             ELSE UNCHANGED <<cached, job>>
          /\ Go("REBOOT_CHECK") /\ UNCHANGED backoff
       \/ /\ job.ft = Main /\ Fault
          /\ Report(job.id, "FAILED") /\ job' = [job EXCEPT !.status = "FAILED"]
          /\ q' = Tail(q) /\ UNCHANGED <<st, rec, backoff, holes>>
       \/ job.ft = Main /\ RetryHere("REBOOT_CHECK", {}) /\ UNCHANGED <<cached, job>>
    /\ UNCHANGED <<phase, ids, time, down, prog, net, disk, app, doc>>

(* Mutant of Forget: the job is forgotten, but not in the flash.           *)
ForgetKeepsNvs == /\ job' = [job EXCEPT !.id = None, !.ft = Main, !.reported = FALSE]
                  /\ cached' = [cached EXCEPT ![job.id] = None]
                  /\ UNCHANGED <<nvs, faults, holes>>

(* The job id, its status entry and the flash are cleared; nobody looks    *)
(* whether the flash was.                                                  *)
Forget == /\ job' = [job EXCEPT !.id = None, !.ft = Main, !.reported = FALSE]
          /\ cached' = [cached EXCEPT ![job.id] = None]
          /\ \/ nvs' = NoPending /\ UNCHANGED <<faults, holes>>
             \/ Fault /\ holes' = holes \cup {"flash"} /\ UNCHANGED nvs

RebootCheckAnswered ==
    /\ st = "REBOOT_CHECK"
    /\ \/ On("REBOOT_CHECK", "UPD_ACC") /\ (job.ft = Main \/ job.reported)
       \/ On("REBOOT_CHECK", "UPD_REJ")
    /\ Forget
    /\ st' = "IDLE" /\ q' = Tail(q) /\ backoff' = FALSE /\ UNCHANGED rec
    /\ UNCHANGED <<phase, ids, time, down, prog, net, boot, good, app, doc>>

-----------------------------------------------------------------------------
(* IDLE to JOB_DOC_RECEIVED: the pending jobs and their documents.         *)

Idle ==
    /\ \/ On("IDLE", "FETCH") /\ GoPost("FETCHING_PENDING", Ev("TRANSITION"))
       \/ On("IDLE", "JOBS_CHANGED") /\ GoPost("JOBS_CHANGED", Head(q))
    /\ UNCHANGED <<phase, work, time, down, stat, net, disk, app, doc>>

(* pending_jobs_to_job_id_queue                                            *)
JobsListed ==
    /\ On("JOBS_CHANGED", "JOBS_CHANGED") \/ On("PENDING_RECEIVED", "PENDING_ACC")
    /\ ids' = Head(q).list
    /\ job' = [job EXCEPT !.pending = FALSE]
    /\ IF ids' = {} THEN /\ Go("IDLE")
                         /\ backoff' = (backoff /\ st = "JOBS_CHANGED")
       ELSE IF st = "JOBS_CHANGED" THEN GoPost("FETCHING_DOC", Ev("TRANSITION"))
       ELSE ResetPost("FETCHING_DOC", Ev("TRANSITION"), {})
    /\ UNCHANGED <<phase, time, down, stat, net, disk, app, doc>>

(* A request is answered only while the topics are subscribed to.          *)
Ask(r) == ask' = IF sub = "live" THEN ask \cup {r} ELSE ask

FetchPending ==
    /\ On("FETCHING_PENDING", "TRANSITION")
    /\ \/ Ask("pending") /\ armed' = TRUE /\ Go("WAITING_PENDING") /\ UNCHANGED backoff
       \/ Fault /\ Retry(st) /\ UNCHANGED <<ask, armed>>
    /\ UNCHANGED <<phase, work, firing, down, stat, sub, note, exec, disk, app, doc>>

Waiting ==
    \/ st = "WAITING_PENDING" \/ st = "WAITING_DOC"

Answered ==
    /\ \/ On("WAITING_PENDING", "PENDING_ACC") /\ GoPost("PENDING_RECEIVED", Head(q)) /\ armed' = FALSE
       \/ On("WAITING_DOC", "DOC_ACC") /\ GoPost("DOC_RECEIVED", Head(q)) /\ armed' = FALSE
       \/ /\ On("WAITING_PENDING", "PENDING_REJ") \/ On("WAITING_DOC", "DOC_REJ")
          /\ rec' = Refetch /\ q' = Append(Tail(q), Ev("ERROR")) /\ UNCHANGED <<st, backoff, faults>>
          /\ armed' = FALSE /\ holes' = holes \cup {"rejected"}
       \/ /\ Waiting /\ On(st, "TIMEOUT")
          /\ Retry(st) /\ UNCHANGED <<armed, faults>>
    /\ UNCHANGED <<phase, work, firing, down, stat, net, disk, app, doc>>

FetchDoc ==
    /\ On("FETCHING_DOC", "TRANSITION")
    /\ \/ \E j \in ids :
            /\ ids' = ids \ {j}
            /\ \/ Ask(j) /\ armed' = TRUE /\ Go("WAITING_DOC") /\ UNCHANGED backoff
               \/ Fault /\ Retry(st) /\ UNCHANGED <<ask, armed>>
       \/ /\ ids = {} /\ UNCHANGED <<ids, ask, armed>>
          /\ IF job.pending THEN GoPost("JOB_EXECUTION", Ev("TRANSITION"))
             ELSE Go("IDLE") /\ UNCHANGED backoff
    /\ UNCHANGED <<phase, job, firing, down, stat, sub, note, exec, disk, app, doc>>

(* The best job so far.                                                    *)
Choose(j) == [job EXCEPT !.ft = doc[j].type, !.handler = doc[j].type, !.pending = TRUE,
                         !.fw = doc[j].fw, !.id = j]

(* An image that is not newer than the installed one is rejected.          *)
TooOld(j) == doc[j].fw <= Version(boot.run[doc[j].type])

(* handle_state_job_doc_received.  The file type and the handler of the    *)
(* current job are overwritten before the document is rejected or ignored. *)
DocReceived ==
    /\ On("DOC_RECEIVED", "DOC_ACC")
    /\ LET j == Head(q).job
           d == doc[j]
           typed == [job EXCEPT !.ft = d.type, !.handler = IF d.type \in Handlers THEN d.type ELSE @]
           stray == IF job.pending /\ typed # job THEN {"type"} ELSE {}
           rejected == d.type \notin Handlers \/ d.kind = "bad" \/ TooOld(j)
           ignored == ~rejected /\ job.pending /\ d.fw < job.fw
           fetch == Ev("TRANSITION")
       IN
       \/ /\ d.kind # "custom" /\ rejected
          /\ job' = typed /\ UNCHANGED ids
          /\ \/ Report(j, "REJECTED") /\ ResetPost("FETCHING_DOC", fetch, stray)
             \/ RetryHere("DOC_RECEIVED", stray) /\ UNCHANGED cached
             \/ Fault /\ Stop(NoRecovery, {"memory"} \cup stray) /\ UNCHANGED cached
       \/ /\ d.kind # "custom" /\ (ignored \/ (d.kind = "windowed" /\ ~rejected))
          /\ job' = typed
          /\ ResetPost("FETCHING_DOC", fetch, stray) /\ UNCHANGED <<cached, ids>>
       \/ /\ d.kind # "custom" /\ ~rejected /\ ~ignored
          /\ \/ job' = Choose(j) /\ ResetPost("FETCHING_DOC", fetch, {})
             \/ job' = typed /\ Fault /\ Stop(Refetch, {"memory"} \cup stray)    \* set_ota_data_from_job_doc
          /\ UNCHANGED <<cached, ids>>
       \/ /\ d.kind = "custom"
          /\ job' = [job EXCEPT !.id = j] /\ ids' = {}
          /\ ResetPost("CUSTOM_EXECUTION", Ev("CUSTOM_RUN"), {}) /\ UNCHANGED cached
    /\ UNCHANGED <<phase, time, down, prog, net, disk, app, doc>>

-----------------------------------------------------------------------------
(* A custom job: the application works on it and reports.                  *)

Custom(s) == [ev |-> "CUSTOM", res |-> s]

CustomRun ==
    /\ On("CUSTOM_EXECUTION", "CUSTOM_RUN")
    /\ \/ Go(st) /\ app' = [app EXCEPT !.custom = job.id] /\ UNCHANGED backoff
       \/ \E s \in {"FAILED", "REJECTED"} : GoPost(st, Custom(s)) /\ UNCHANGED app
    /\ UNCHANGED <<phase, work, time, down, stat, net, disk, doc>>

CustomReport ==
    /\ On("CUSTOM_EXECUTION", "CUSTOM")
    /\ LET s == Head(q).res IN
       \/ /\ IF s \in Final THEN Report(job.id, s) /\ UNCHANGED prog
             ELSE Progress(job.id) /\ UNCHANGED cached
          /\ job' = [job EXCEPT !.status = s]
          /\ Go(st) /\ UNCHANGED backoff
       \/ RetryHere(st, {}) /\ UNCHANGED <<stat, job>>
    /\ UNCHANGED <<phase, ids, time, down, net, disk, app, doc>>

(* final_status_reported is not reset when a custom job starts.            *)
CustomAnswered ==
    /\ On("CUSTOM_EXECUTION", "UPD_ACC")
    /\ IF CacheEmpty /\ job.reported THEN ResetPost("IDLE", Ev("FETCH"), {})
       ELSE Go(st) /\ UNCHANGED backoff
    /\ UNCHANGED <<phase, work, time, down, stat, net, disk, app, doc>>

-----------------------------------------------------------------------------
(* JOB_EXECUTION and POST_DOWNLOAD.                                        *)

Started == [job EXCEPT !.active = TRUE, !.reboot = FALSE, !.reported = FALSE, !.queued = None,
                       !.status = "IN_PROGRESS"]
Outcome(s) == [ev |-> "FINAL", res |-> s]

(* Whatever the first event is, it starts the job.  The download may fail  *)
(* to start, and does while another one runs.  An image of the default     *)
(* type is written to the slot of the next boot, also while the verdict on *)
(* another is awaited: what is known of that one is then lost.             *)
StartJob ==
    /\ phase = "ready" /\ st = "JOB_EXECUTION" /\ q # <<>> /\ Head(q).ev # "ERROR"
    /\ ~job.active
    /\ job' = Started
    /\ Progress(job.id)
    /\ \/ /\ dl = NoDownload /\ dl' = [job |-> job.id, by |-> job.handler, told |-> FALSE]
          /\ boot' = IF job.handler = Main THEN [boot EXCEPT !.slot = None, !.rolled = FALSE] ELSE boot
          /\ Leave(st, IF job.handler = Main /\ (nvs.job # None \/ boot.trial) THEN {"mixed"} ELSE {})
          /\ UNCHANGED backoff
       \/ GoPost("POST_DOWNLOAD", Outcome("FAILED")) /\ UNCHANGED <<dl, boot>>
    /\ UNCHANGED <<phase, ids, time, stash, cached, net, nvs, good, app, doc>>

Executing ==
    /\ phase = "ready" /\ st = "JOB_EXECUTION" /\ q # <<>> /\ job.active
    /\ LET e == Head(q) IN
       \/ /\ e.ev = "PROGRESS"
          /\ Progress(job.id) /\ Go(st) /\ UNCHANGED <<backoff, job>>
       \/ /\ e.ev = "DL_OK"
          /\ Progress(job.id) /\ ResetPost("POST_DOWNLOAD", e, {}) /\ UNCHANGED job
       \/ /\ e.ev = "DL_FAILED"
          /\ GoPost("POST_DOWNLOAD", Outcome("FAILED")) /\ UNCHANGED <<prog, job>>
       \/ /\ e.ev = "TIMEOUT"
          /\ Retry(st) /\ UNCHANGED <<prog, faults, job>>
       \/ /\ e.ev = "FINAL"
          /\ job' = [job EXCEPT !.queued = e.res]
          /\ Go(st) /\ UNCHANGED <<backoff, prog>>
    /\ UNCHANGED <<phase, ids, time, down, cached, net, disk, app, doc>>

(* RAM is lost; the bootloader picks the image, and rolls back one that    *)
(* was still on trial.                                                     *)
Booted(b) ==
    IF b.slot # None
    THEN [b EXCEPT !.slot = None, !.prev = b.run[Main], !.run[Main] = b.slot, !.trial = TRUE]
    ELSE IF b.trial THEN [b EXCEPT !.run[Main] = b.prev, !.trial = FALSE, !.rolled = TRUE] ELSE b
Restart(b) ==
    /\ phase' = "off" /\ st' = "UNINIT" /\ q' = <<>> /\ rec' = NoRecovery /\ backoff' = FALSE
    /\ job' = NoJob /\ ids' = {} /\ armed' = FALSE /\ firing' = FALSE /\ sub' = "none"
    /\ dl' = NoDownload /\ stash' = <<>> /\ cached' = Unreported /\ prog' = Quiet
    /\ ask' = {} /\ note' = FALSE /\ app' = NoReport
    /\ boot' = Booted(b)

(* A final status the application reported during the download is          *)
(* published first, whatever the event.  An acceptance that finds the      *)
(* status of another job cached is not looked at again, and a refusal not  *)
(* at all: the machine may wait here for ever.                             *)
PostDownload ==
    /\ phase = "ready" /\ st = "POST_DOWNLOAD" /\ q # <<>>
    /\ LET e == Head(q)
           c == IF job.queued = None THEN cached ELSE [cached EXCEPT ![job.id] = job.queued]
           u == Unfounded(job.queued)
           b == IF job.queued = None THEN job ELSE [job EXCEPT !.queued = None, !.status = job.queued]
       IN
       \/ /\ e.ev = "FINAL"
          /\ cached' = [c EXCEPT ![job.id] = e.res]
          /\ job' = [b EXCEPT !.reported = TRUE, !.status = e.res]
          /\ Leave(st, u \cup Unfounded(e.res)) /\ UNCHANGED <<backoff, nvs, boot>>
       \/ \* no memory for the status
          /\ e.ev = "FINAL" \/ job.queued # None
          /\ RetryHere(IF job.queued = None THEN "IDLE" ELSE st, {}) /\ UNCHANGED <<cached, job, nvs, boot>>
       \/ /\ e.ev = "DL_OK"
          /\ cached' = c /\ job' = [b EXCEPT !.reboot = e.reboot]
          /\ nvs' = IF e.reboot THEN [NoPending EXCEPT !.job = job.id,
                                                       !.ft = IF job.ft = Main THEN nvs.ft ELSE job.ft] ELSE nvs
          /\ boot' = IF job.handler = Main THEN boot ELSE [boot EXCEPT !.run[job.handler] = job.id]
          /\ Leave(st, IF e.reboot /\ job.ft = Main /\ (boot.slot # job.id \/ nvs.ft # Main)
                       THEN {"mixed"} ELSE u)
          /\ UNCHANGED backoff
       \/ \* what awaits verification could not be written down
          /\ e.ev = "DL_OK" /\ e.reboot
          /\ Fault /\ holes' = holes \cup u \cup {"flash"}
          /\ cached' = c /\ job' = [b EXCEPT !.reboot = TRUE]
          /\ boot' = IF job.handler = Main THEN boot ELSE [boot EXCEPT !.run[job.handler] = job.id]
          /\ q' = Tail(q) /\ UNCHANGED <<st, rec, backoff, nvs>>
       \/ /\ e.ev = "UPD_ACC" /\ c = Unreported /\ ~b.reboot /\ b.reported
          /\ job' = NoJob /\ ResetPost("IDLE", Ev("FETCH"), {}) /\ UNCHANGED <<cached, nvs, boot>>
       \/ /\ \/ e.ev = "UPD_ACC" /\ (c # Unreported \/ (~b.reboot /\ ~b.reported))
             \/ e.ev \notin {"FINAL", "DL_OK", "UPD_ACC", "ERROR"}
          /\ cached' = c /\ job' = b
          /\ Leave(st, u \cup {h \in {"ended", "waiting"} :
                         IF h = "ended" THEN e.ev = "UPD_REJ"
                         ELSE e.ev = "UPD_ACC" /\ \E k \in Jobs \ {job.id} : c[k] # None})
          /\ UNCHANGED <<backoff, nvs, boot>>
    /\ UNCHANGED <<phase, ids, time, down, prog, net, good, app, doc>>

Reboot ==
    /\ On("POST_DOWNLOAD", "UPD_ACC")
    /\ CacheEmpty /\ job.queued = None /\ job.reboot
    /\ Restart(boot)
    /\ UNCHANGED <<exec, nvs, good, doc, faults, holes>>

-----------------------------------------------------------------------------
(* ERROR, and events a state has no use for.                               *)

(* An ERROR event is handled in every state; it fails the active job but   *)
(* does not stop its download, whose events then meet the next job.  The   *)
(* recovery of an error met in REBOOT_CHECK leads away from the verdict.   *)
ErrorOccurred ==
    /\ phase = "ready" /\ q # <<>> /\ Head(q).ev = "ERROR"
    /\ IF job.active THEN /\ Report(job.id, "FAILED")
                          /\ job' = [job EXCEPT !.active = FALSE, !.status = "FAILED"]
       ELSE UNCHANGED <<cached, job>>
    /\ Leave("ERROR", {h \in {"verdict", "download"} : IF h = "verdict" THEN st = "REBOOT_CHECK"
                                                     ELSE job.active /\ dl # NoDownload})
    /\ UNCHANGED backoff
    /\ UNCHANGED <<phase, ids, time, down, prog, net, disk, app, doc>>

(* The recovery event goes to the queue and the machine to its state.      *)
Recovery ==
    /\ On("ERROR", "RECOVER")
    /\ \/ /\ st' = rec.state /\ q' = Append(Tail(q), Ev(rec.event)) /\ rec' = NoRecovery
          /\ UNCHANGED <<backoff, faults, holes>>
       \/ /\ Fault /\ backoff' = TRUE /\ q' = Tail(q) /\ UNCHANGED <<st, rec, holes>>
    /\ UNCHANGED <<phase, work, time, down, stat, net, disk, app, doc>>

Handled == {<<"NETWORK_INIT", "TRANSITION">>, <<"REBOOT_CHECK", "FINAL">>, <<"REBOOT_CHECK", "REBOOT_CHECK">>,
            <<"REBOOT_CHECK", "UPD_REJ">>, <<"IDLE", "FETCH">>, <<"IDLE", "JOBS_CHANGED">>,
            <<"JOBS_CHANGED", "JOBS_CHANGED">>, <<"PENDING_RECEIVED", "PENDING_ACC">>,
            <<"FETCHING_PENDING", "TRANSITION">>, <<"FETCHING_DOC", "TRANSITION">>,
            <<"WAITING_PENDING", "PENDING_ACC">>, <<"WAITING_PENDING", "PENDING_REJ">>,
            <<"WAITING_PENDING", "TIMEOUT">>, <<"WAITING_DOC", "TIMEOUT">>, <<"WAITING_DOC", "DOC_ACC">>,
            <<"WAITING_DOC", "DOC_REJ">>, <<"DOC_RECEIVED", "DOC_ACC">>, <<"CUSTOM_EXECUTION", "CUSTOM_RUN">>,
            <<"CUSTOM_EXECUTION", "CUSTOM">>, <<"CUSTOM_EXECUTION", "UPD_ACC">>, <<"JOB_EXECUTION", "PROGRESS">>,
            <<"JOB_EXECUTION", "DL_OK">>, <<"JOB_EXECUTION", "DL_FAILED">>, <<"JOB_EXECUTION", "TIMEOUT">>,
            <<"JOB_EXECUTION", "FINAL">>, <<"ERROR", "RECOVER">>}

Ignored ==
    /\ phase = "ready" /\ q # <<>> /\ Head(q).ev # "ERROR" /\ st # "POST_DOWNLOAD"
    /\ st = "JOB_EXECUTION" => job.active
    /\ st = "REBOOT_CHECK" /\ Head(q).ev = "UPD_ACC" => job.ft # Main /\ ~job.reported
    /\ <<st, Head(q).ev>> \notin Handled
    /\ Go(st) /\ UNCHANGED backoff
    /\ UNCHANGED <<phase, work, time, down, stat, net, disk, app, doc>>

Worker == \/ NetworkInit \/ RebootCheckFinal \/ RebootCheck \/ RebootCheckAnswered \/ Idle \/ JobsListed
          \/ FetchPending \/ Answered \/ FetchDoc \/ DocReceived \/ CustomRun \/ CustomReport
          \/ CustomAnswered \/ StartJob \/ Executing \/ PostDownload \/ Reboot \/ ErrorOccurred \/ Recovery
          \/ Ignored

-----------------------------------------------------------------------------
(* Timers.                                                                 *)

(* The timeout is far longer than a round trip: it expires when nothing is *)
(* on its way, or as a fault.                                              *)
TimerExpires ==
    /\ armed
    /\ armed' = FALSE /\ firing' = TRUE
    /\ (ask = {} /\ q = <<>> /\ UNCHANGED faults) \/ Fault
    /\ UNCHANGED <<phase, st, q, rec, backoff, holes, work, down, stat, net, disk, app, doc>>
TimerPosts ==
    /\ firing
    /\ Deliver(Ev("TIMEOUT")) /\ firing' = FALSE
    /\ UNCHANGED <<phase, st, rec, backoff, work, armed, down, stat, net, disk, app, doc>>

(* retry_with_backoff_task; a refused recovery is only scheduled again.    *)
Recoverable == rec.state # "UNINIT" /\ rec.event # "ERROR"
BackoffFires ==
    /\ phase = "ready" /\ backoff /\ Recoverable /\ Len(q) < MaxQ
    /\ q' = Append(q, Ev("RECOVER")) /\ backoff' = FALSE
    /\ UNCHANGED <<phase, st, rec, faults, holes, work, time, down, stat, net, disk, app, doc>>

-----------------------------------------------------------------------------
(* The event loop: subscription and answers.                               *)

(* SUBACK: a fetch is requested; when it is refused, an error is raised.   *)
Subscribed ==
    /\ phase = "ready" /\ sub = "requested"
    /\ \/ /\ sub' = "live"
          /\ \/ Len(q) < MaxQ /\ q' = Append(q, Ev("FETCH")) /\ UNCHANGED <<rec, backoff, faults>>
             \/ Fault /\ rec' = Refetch /\ backoff' = TRUE /\ q' = Append(q, Ev("ERROR"))
       \/ /\ Fault /\ sub' = "down" /\ UNCHANGED <<q, rec, backoff>>
    /\ UNCHANGED <<phase, st, holes, work, time, down, stat, ask, note, exec, disk, app, doc>>

Disconnected ==
    /\ sub = "live"
    /\ Fault
    /\ sub' = "down" /\ ask' = {} /\ note' = FALSE /\ prog' = Quiet
    /\ holes' = IF prog = Quiet THEN holes ELSE holes \cup {"progress"}
    /\ UNCHANGED <<phase, st, q, rec, backoff, work, time, down, cached, exec, disk, app, doc>>
(* The reconnection, or the retry of the subscription: sub_retry_work      *)
Resubscribe ==
    /\ sub = "down"
    /\ sub' = "requested"
    /\ UNCHANGED <<phase, ctl, work, time, down, stat, ask, note, exec, disk, app, doc>>

JobsChanged ==
    /\ sub = "live" /\ note
    /\ note' = FALSE
    /\ Deliver([ev |-> "JOBS_CHANGED", list |-> {j \in Jobs : exec[j] \in Open}])
    /\ UNCHANGED <<phase, st, rec, backoff, work, time, down, stat, sub, ask, exec, disk, app, doc>>

AnswerRequest ==
    /\ sub = "live"
    /\ \E r \in ask :
        /\ ask' = ask \ {r}
        /\ \/ r = "pending" /\ Deliver([ev |-> "PENDING_ACC", list |-> {j \in Jobs : exec[j] \in Open}])
           \/ r \in Jobs /\ exec[r] # "GONE" /\ Deliver([ev |-> "DOC_ACC", job |-> r])
           \/ r \in Jobs /\ exec[r] = "GONE" /\ Deliver(Ev("DOC_REJ"))
    /\ UNCHANGED <<phase, st, rec, backoff, work, time, down, stat, sub, note, exec, disk, app, doc>>
(* An answer is lost, or the cloud refuses to list the jobs.               *)
RequestFails ==
    /\ sub = "live" /\ Fault
    /\ \E r \in ask :
        /\ ask' = ask \ {r}
        /\ \/ UNCHANGED q
           \/ r = "pending" /\ Len(q) < MaxQ /\ q' = Append(q, Ev("PENDING_REJ"))
    /\ UNCHANGED <<phase, st, rec, backoff, holes, work, time, down, stat, sub, note, exec, disk, app, doc>>

(* mqtt_on_update_accepted and mqtt_on_update_rejected: the answer concerns *)
(* the machine when the job is the current one.                            *)
Tell(j, e) == IF job.id = j THEN Deliver(e) ELSE UNCHANGED <<q, faults, holes>>

AnswerProgress(j) ==
    /\ sub = "live" /\ prog[j] > 0
    /\ \/ /\ exec[j] \in Open
          /\ exec' = [exec EXCEPT ![j] = "IN_PROGRESS"]
          /\ prog' = [prog EXCEPT ![j] = @ - 1]
          /\ Tell(j, Ev("UPD_ACC")) /\ UNCHANGED cached
       \/ \* the execution has ended: the status entry is dropped
          /\ exec[j] \notin Open
          /\ cached' = [cached EXCEPT ![j] = None] /\ prog' = [prog EXCEPT ![j] = 0]
          /\ Tell(j, Ev("UPD_REJ")) /\ UNCHANGED exec
    /\ UNCHANGED <<phase, st, rec, backoff, work, time, down, sub, ask, note, disk, app, doc>>
ProgressLost(j) ==
    /\ prog[j] > 0 /\ Fault
    /\ prog' = [prog EXCEPT ![j] = @ - 1] /\ holes' = holes \cup {"progress"}
    /\ UNCHANGED <<phase, st, q, rec, backoff, work, time, down, cached, net, disk, app, doc>>

(* The status manager settles a final status (module OtaStatus).           *)
Settled(j) ==
    /\ sub = "live" /\ cached[j] # None
    /\ cached' = [cached EXCEPT ![j] = None] /\ prog' = [prog EXCEPT ![j] = 0]
    /\ \/ /\ exec[j] \in Open
          /\ exec' = [exec EXCEPT ![j] = cached[j]] /\ note' = TRUE
          /\ job' = IF job.id = j THEN [job EXCEPT !.reported = TRUE] ELSE job
          /\ Tell(j, Ev("UPD_ACC"))
       \/ /\ exec[j] \notin Open
          /\ Tell(j, Ev("UPD_REJ")) /\ UNCHANGED <<exec, note, job>>
    /\ UNCHANGED <<phase, st, rec, backoff, ids, time, down, sub, ask, disk, app, doc>>
(* The cloud takes the status, but its answer is lost: it is sent again.   *)
SettledUnheard(j) ==
    /\ sub = "live" /\ cached[j] # None /\ exec[j] \in Open /\ Fault
    /\ exec' = [exec EXCEPT ![j] = cached[j]] /\ note' = TRUE
    /\ UNCHANGED <<phase, st, q, rec, backoff, holes, work, time, down, stat, sub, ask, disk, app, doc>>

(* The operator creates a job, or cancels one.                             *)
CreateJob(j) ==
    /\ exec[j] = "NONE" /\ doc[j].kind # "none"
    /\ exec' = [exec EXCEPT ![j] = "QUEUED"] /\ note' = TRUE
    /\ UNCHANGED <<phase, ctl, work, time, down, stat, sub, ask, disk, app, doc>>
CancelJob(j) ==
    /\ exec[j] \in Open /\ Fault
    /\ exec' = [exec EXCEPT ![j] = "GONE"] /\ note' = TRUE
    /\ UNCHANGED <<phase, st, q, rec, backoff, holes, work, time, down, stat, sub, ask, disk, app, doc>>

-----------------------------------------------------------------------------
(* The download (module OtaImage) and the application.                     *)

(* Bound: one progress event in a download.                                *)
DownloadProgress ==
    /\ dl # NoDownload /\ ~dl.told /\ Len(q) < MaxQ
    /\ dl' = [dl EXCEPT !.told = TRUE]
    /\ q' = Append(q, Ev("PROGRESS"))
    /\ UNCHANGED <<phase, st, rec, backoff, faults, holes, work, time, stash, stat, net, disk, app, doc>>

(* Mutant of PostTerminal: a refused event is dropped.                     *)
PostTerminalDrops(es) == /\ dl' = NoDownload /\ UNCHANGED stash
                         /\ \/ Len(q) < MaxQ /\ q' = q \o es /\ UNCHANGED faults
                            \/ Fault /\ q' = q \o SubSeq(es, 1, Len(es) - 1)

(* ota_job_state_post_terminal_event: a refused event is kept and posted   *)
(* again.                                                                  *)
PostTerminal(es) == /\ dl' = NoDownload
                    /\ \/ Len(q) < MaxQ /\ q' = q \o es /\ UNCHANGED <<stash, faults>>
                       \/ Fault /\ stash' = <<es[Len(es)]>> /\ q' = q \o SubSeq(es, 1, Len(es) - 1)

(* image_handler_end_and_cleanup.  The default type selects the image for  *)
(* the next boot and asks for the reboot; a custom one may report its      *)
(* outcome now, later, or after a reboot.                                  *)
DownloadSucceeds ==
    /\ dl # NoDownload
    /\ \/ /\ dl.by = Main
          /\ boot' = [boot EXCEPT !.slot = dl.job]
          /\ PostTerminal(<<[ev |-> "DL_OK", reboot |-> TRUE]>>) /\ UNCHANGED <<app, holes>>
       \/ /\ dl.by # Main
          /\ \/ PostTerminal(<<[ev |-> "DL_OK", reboot |-> TRUE]>>) /\ UNCHANGED <<app, holes>>
             \/ /\ PostTerminal(<<[ev |-> "DL_OK", reboot |-> FALSE]>>)
                /\ app' = [app EXCEPT !.final = dl.job] /\ UNCHANGED holes
             \/ \* later, and the status timer does not start
                /\ dl' = NoDownload /\ Len(q) < MaxQ /\ q' = Append(q, [ev |-> "DL_OK", reboot |-> FALSE])
                /\ app' = [app EXCEPT !.final = dl.job] /\ Fault /\ holes' = holes \cup {"untimed"} /\ UNCHANGED stash
             \/ \E s \in {"SUCCEEDED", "FAILED"} :
                  PostTerminal(<<Outcome(s), [ev |-> "DL_OK", reboot |-> FALSE]>>) /\ UNCHANGED <<app, holes>>
          /\ UNCHANGED boot
    /\ UNCHANGED <<phase, st, rec, backoff, work, time, stat, net, nvs, good, doc>>
DownloadFails ==
    /\ dl # NoDownload
    /\ PostTerminal(<<Ev("DL_FAILED")>>) \/ PostTerminal(<<Ev("TIMEOUT")>>)
    /\ UNCHANGED <<phase, st, rec, backoff, holes, work, time, stat, net, disk, app, doc>>
Redeliver ==
    /\ stash # <<>> /\ Len(q) < MaxQ
    /\ q' = q \o stash /\ stash' = <<>>
    /\ UNCHANGED <<phase, st, rec, backoff, faults, holes, work, time, dl, stat, net, disk, app, doc>>

(* esp_rmaker_ota_report_final_status, or the status timer when the        *)
(* application does not call it, and esp_rmaker_ota_report_custom_job_     *)
(* status.  Neither says which job is meant: a late one concerns the job   *)
(* of the moment.                                                          *)
Stray(j) == IF job.id = j THEN {} ELSE {"stray"}
AppFinal ==
    /\ app.final # None /\ app' = [app EXCEPT !.final = None]
    /\ \E s \in {"SUCCEEDED", "FAILED"} : DeliverBut(Outcome(s), Stray(app.final))
    /\ UNCHANGED <<phase, st, rec, backoff, work, time, down, stat, net, disk, doc>>
AppCustom ==
    /\ app.custom # None
    /\ \/ \E s \in Final : DeliverBut(Custom(s), Stray(app.custom)) /\ app' = [app EXCEPT !.custom = None]
       \/ /\ prog = Quiet /\ Fault /\ Len(q) < MaxQ /\ q' = Append(q, Custom("IN_PROGRESS"))
          /\ UNCHANGED <<app, holes>>
    /\ UNCHANGED <<phase, st, rec, backoff, work, time, down, stat, net, disk, doc>>
(* esp_rmaker_ota_fetch and esp_rmaker_ota_request_recovery                *)
AppAsks ==
    /\ phase = "ready" /\ Fault /\ Len(q) < MaxQ
    /\ \/ q' = Append(q, Ev("FETCH"))
       \/ Recoverable /\ q' = Append(q, Ev("RECOVER"))
    /\ UNCHANGED <<phase, st, rec, backoff, holes, work, time, down, stat, net, disk, app, doc>>

-----------------------------------------------------------------------------
(* Boot.                                                                   *)

(* Mutant of Verdict: not being on trial is taken for success.             *)
VerdictPassed(p, override) == IF nvs.job = None \/ (nvs.checked /\ ~override) THEN nvs
                              ELSE [nvs EXCEPT !.checked = TRUE, !.passed = TRUE]

(* esp_rmaker_ota_handle_reboot.  What awaits verification gets a verdict  *)
(* here unless the image is on trial or of a custom type.                  *)
Verdict(p, override) == IF nvs.job = None \/ (nvs.checked /\ ~override) THEN nvs
                        ELSE [nvs EXCEPT !.checked = TRUE, !.passed = p]
(* Verdict or not, it may not reach the flash, or the worker; the result   *)
(* of neither call is looked at.                                           *)
Posted(e) == \/ q' = Append(q, e) /\ UNCHANGED <<faults, holes>>
             \/ Fault /\ holes' = holes \cup {"queue"} /\ UNCHANGED q
Enable ==
    /\ phase = "off"
    /\ phase' = "enabled"
    /\ \/ /\ nvs.ft # Main
          /\ \/ /\ nvs.ft \in Handlers /\ app' = [app EXCEPT !.final = nvs.job] /\ UNCHANGED q
                /\ \/ UNCHANGED <<faults, holes>>
                   \/ Fault /\ holes' = holes \cup {"untimed"}       \* the status timer does not start
             \/ nvs.ft \in Handlers /\ Posted(Outcome("FAILED")) /\ UNCHANGED app  \* no post-reboot handler
             \/ nvs.ft \notin Handlers /\ UNCHANGED <<q, app, faults, holes>>
          /\ UNCHANGED nvs
       \/ /\ nvs.ft = Main /\ ~boot.trial /\ UNCHANGED app
          /\ \/ nvs' = Verdict(~boot.rolled, FALSE) /\ Posted(Ev("REBOOT_CHECK"))
             \/ /\ UNCHANGED nvs /\ q' = Append(q, Ev("REBOOT_CHECK"))
                /\ Fault /\ holes' = holes \cup {"flash"}
       \/ /\ nvs.ft = Main /\ boot.trial
          /\ \/ UNCHANGED <<faults, holes>>
             \/ Fault /\ holes' = holes \cup {"untimed"}             \* the roll-back timer does not start
          /\ UNCHANGED <<nvs, q, app>>
    /\ UNCHANGED <<st, rec, backoff, work, time, down, stat, net, boot, good, doc>>

(* The call to enable, or its task, fails once the timers are armed: the   *)
(* application may call again, or never.                                   *)
EnableFails ==
    /\ phase = "enabled" /\ Fault /\ holes' = holes \cup {"enable"}
    /\ UNCHANGED <<phase, st, q, rec, backoff, work, time, down, stat, net, disk, app, doc>>

(* esp_rmaker_ota_mark_valid, from the diagnostics once MQTT is connected, *)
(* or from the application.  An image that cannot be marked has failed,    *)
(* and stays on trial with nobody to judge it.  The verdict is lost when   *)
(* the roll-back timer cannot be freed or the flash cannot be written: the *)
(* call returns there.                                                     *)
MarkValid ==
    /\ phase # "off" /\ boot.trial /\ nvs.ft = Main
    /\ \/ /\ boot' = [boot EXCEPT !.trial = FALSE]
          /\ good' = good \cup {boot.run[Main]}
          /\ \/ nvs' = Verdict(TRUE, TRUE) /\ Posted(Ev("REBOOT_CHECK"))
             \/ Fault /\ holes' = holes \cup {"verdict"} /\ UNCHANGED <<nvs, q>>
       \/ /\ Fault /\ UNCHANGED <<boot, good>>
          /\ \/ /\ nvs' = Verdict(FALSE, TRUE) /\ q' = Append(q, Ev("REBOOT_CHECK"))
                /\ holes' = holes \cup {"trial"}
             \/ holes' = holes \cup {"trial", "verdict"} /\ UNCHANGED <<nvs, q>>
    /\ UNCHANGED <<phase, st, rec, backoff, work, time, down, stat, net, app, doc>>
(* esp_rmaker_ota_mark_invalid, from the diagnostics or the rollback       *)
(* timer.  A verdict that cannot be written does not keep it from rolling  *)
(* back: the next boot sees it.  When the timer cannot be freed, or the    *)
(* roll-back is refused, the image stays on trial with nobody to judge it. *)
MarkInvalid ==
    /\ phase # "off" /\ boot.trial /\ nvs.ft = Main
    /\ \/ /\ \/ nvs' = Verdict(FALSE, TRUE) /\ UNCHANGED faults
             \/ Fault /\ UNCHANGED nvs
          /\ Restart(boot)
          /\ UNCHANGED holes
       \/ /\ Fault /\ holes' = holes \cup {"trial", "verdict"}
          /\ nvs' \in {nvs, Verdict(FALSE, TRUE)}
          /\ UNCHANGED <<phase, st, q, rec, backoff, work, time, down, stat, sub, ask, note, boot, app>>
    /\ UNCHANGED <<exec, good, doc>>

(* ota_job_state_init                                                      *)
StateInit ==
    /\ phase = "enabled"
    /\ phase' = "ready" /\ st' = "NETWORK_INIT"
    /\ q' = <<Ev("TRANSITION")>> \o q
    /\ UNCHANGED <<rec, backoff, faults, holes, work, time, down, stat, net, disk, app, doc>>

PowerLoss ==
    /\ phase # "off" /\ Fault
    /\ Restart(boot)
    /\ UNCHANGED <<exec, nvs, good, doc, holes>>

Loop == \/ Subscribed \/ Resubscribe \/ AnswerRequest \/ \E j \in Jobs : AnswerProgress(j) \/ Settled(j)
Next == \/ Worker \/ Loop \/ TimerExpires \/ TimerPosts \/ BackoffFires \/ Disconnected \/ JobsChanged
        \/ RequestFails \/ DownloadProgress \/ DownloadSucceeds \/ DownloadFails \/ Redeliver
        \/ AppFinal \/ AppCustom \/ AppAsks \/ Enable \/ EnableFails \/ MarkValid \/ MarkInvalid \/ StateInit
        \/ PowerLoss
        \/ \E j \in Jobs : ProgressLost(j) \/ SettledUnheard(j) \/ CreateJob(j) \/ CancelJob(j)

Spec == Init /\ [][Next]_vars

(* The worker, the event loop and the timers run; the cloud answers; a     *)
(* download ends, a boot completes, an image on trial gets its verdict,    *)
(* and the application, or its timer, reports: unless that timer, or the   *)
(* call of esp_rmaker_ota_enable, has failed.  A SUBACK and the answer to  *)
(* a final status find room in the queue at last, hence SF.                *)
Watched(h) == holes \cap h = {}
FairSpec ==
    /\ Spec
    /\ WF_vars(Worker) /\ SF_vars(Subscribed) /\ WF_vars(Resubscribe) /\ WF_vars(AnswerRequest)
    /\ \A j \in Jobs : WF_vars(AnswerProgress(j)) /\ SF_vars(Settled(j))
    /\ WF_vars(TimerExpires) /\ WF_vars(TimerPosts) /\ WF_vars(BackoffFires)
    /\ WF_vars(DownloadSucceeds \/ DownloadFails) /\ WF_vars(Redeliver)
    /\ WF_vars(Watched({"untimed"}) /\ AppFinal)
    /\ WF_vars(Watched({"untimed", "trial"}) /\ (MarkValid \/ MarkInvalid))
    /\ WF_vars(Enable) /\ WF_vars(Watched({"enable"}) /\ StateInit)

-----------------------------------------------------------------------------
(* Properties.                                                             *)

States == {"UNINIT", "NETWORK_INIT", "REBOOT_CHECK", "IDLE", "JOBS_CHANGED", "FETCHING_PENDING",
           "WAITING_PENDING", "PENDING_RECEIVED", "FETCHING_DOC", "WAITING_DOC", "DOC_RECEIVED",
           "CUSTOM_EXECUTION", "JOB_EXECUTION", "POST_DOWNLOAD", "ERROR"}
Simple == {"TRANSITION", "ERROR", "REBOOT_CHECK", "UPD_ACC", "UPD_REJ", "FETCH", "PENDING_REJ", "DOC_REJ",
           "TIMEOUT", "CUSTOM_RUN", "PROGRESS", "DL_FAILED", "RECOVER"}
Events == [ev : Simple] \cup [ev : {"FINAL"}, res : Final]
          \cup [ev : {"CUSTOM"}, res : Final \cup {"IN_PROGRESS"}] \cup [ev : {"DL_OK"}, reboot : BOOLEAN]
          \cup [ev : {"DOC_ACC"}, job : Jobs] \cup [ev : {"JOBS_CHANGED", "PENDING_ACC"}, list : SUBSET Jobs]

(* Every variable has its type; in particular a job is active, downloaded  *)
(* or kept in the flash only under a job id, and with a handler.           *)
TypeOK ==
    /\ phase \in {"off", "enabled", "ready"} /\ st \in States
    /\ \A i \in 1..Len(q) : q[i] \in Events
    /\ rec \in [state : States, event : {"ERROR", "FETCH", "TRANSITION"}] /\ backoff \in BOOLEAN
    /\ job.id \in Jobs \cup {None} /\ job.ft \in Types /\ job.handler \in Handlers \cup {None}
    /\ job.active => job.id \in Jobs /\ job.handler \in Handlers
    /\ job.queued \in Final \cup {None} /\ job.status \in Final \cup {"IN_PROGRESS", None}
    /\ ids \subseteq Jobs /\ armed \in BOOLEAN /\ firing \in BOOLEAN
    /\ sub \in {"none", "requested", "live", "down"}
    /\ dl \in [job : Jobs, by : Handlers, told : BOOLEAN] \cup {NoDownload} /\ (\A i \in 1..Len(stash) : stash[i] \in Events)
    /\ cached \in [Jobs -> Final \cup {None}] /\ prog \in [Jobs -> 0..MaxProg]
    /\ ask \subseteq Jobs \cup {"pending"} /\ note \in BOOLEAN
    /\ nvs \in [job : Jobs \cup {None}, ft : Types, checked : BOOLEAN, passed : BOOLEAN]
    /\ boot \in [slot : Jobs \cup {None}, run : [Types -> Jobs \cup {None}], prev : Jobs \cup {None},
                 trial : BOOLEAN, rolled : BOOLEAN]
    /\ exec \in [Jobs -> Open \cup Final \cup {"NONE", "GONE"}]
    /\ app \in [final : Jobs \cup {None}, custom : Jobs \cup {None}] /\ good \subseteq Jobs
    /\ doc \in Docs /\ faults \in 0..MaxFaults[doc]

(* The file type and the handler of an active job are those of its         *)
(* document: the image is written and verified by the right handler.  The  *)
(* code breaks it: handle_state_job_doc_received overwrites both with      *)
(* those of a document it then rejects or ignores.                         *)
TypeKept == job.active => job.ft = doc[job.id].type /\ job.handler = doc[job.id].type

(* A firmware job is reported SUCCEEDED only if its image has run and was  *)
(* found valid, whatever happens between set_boot, the reboot, the         *)
(* verdict, the roll-back and the report.                                  *)
SuccessIsTrue ==
    \A j \in Jobs : exec[j] = "SUCCEEDED" /\ doc[j].kind # "custom" /\ doc[j].type = Main
                    => j \in good \/ holes \cap {"type", "mixed"} # {}

(* Holes that do not keep a job from ending: what a success stands for,    *)
(* and an image that could not be marked valid but was reported FAILED.    *)
Harmless == {"mixed", "trial"}

(* The job that awaits verification leaves the flash only when the cloud   *)
(* has ended its execution: a verdict survives lost answers, timeouts and  *)
(* restarts until it is delivered.                                         *)
VerdictKept == [][\A j \in Jobs : nvs.job = j /\ nvs'.job # j => Done(j)' \/ holes' \ Harmless # {}]_vars

(* An active job ends: the cloud has a final status for it at last, unless *)
(* one of the failures the code does not recover from was met.  (A job     *)
(* with a download window may have to wait for the next fetch.)            *)
JobEnds ==
    \A j \in Jobs : (job.active /\ job.id = j /\ doc[j].kind # "windowed") ~> (Done(j) \/ holes \ Harmless # {})

(* What awaits verification is verified and forgotten, with the same       *)
(* exception: REBOOT_CHECK is left.                                        *)
VerdictDelivered == (nvs.job # None) ~> (nvs.job = None \/ holes \ Harmless # {})

=============================================================================
