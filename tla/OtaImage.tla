------------------------------ MODULE OtaImage ------------------------------
(***************************************************************************)
(* The image download over MQTT and its auto-resume:                       *)
(* image/ota_mqtt_downloader.c with its block bitmap, the image handler    *)
(* that writes the partition and runs the final checks, the request        *)
(* timeout, and the resume tracker of ota_nvs.c.                           *)
(*                                                                         *)
(* Three tasks meet here.  The work-queue worker starts a download, writes *)
(* the blocks and handles failures; the MQTT event task queues the blocks  *)
(* that arrive and follows the subscription; the scheduler's dispatch task *)
(* runs the request timeout.  One step is one work-queue task, one event   *)
(* or one half of the timeout callback.  The device may lose power in      *)
(* every state, and inside the task that writes a block; the partition     *)
(* and the tracker survive.                                                *)
(*                                                                         *)
(* An image is a set of blocks, and the partition maps a block to the      *)
(* image it was written from.  Every image has a stream of its own, and a  *)
(* file type whose handler may lack the two optional callbacks that resume *)
(* and check it; custom types are taken to write to the same place.  The   *)
(* stream service, the broker and the partition driver are external; they  *)
(* never deliver a block with the wrong content.                           *)
(***************************************************************************)
EXTENDS Integers, FiniteSets, Sequences

CONSTANTS
    Images,     \* the images jobs ask for
    None,       \* no image
    Md5,        \* the images whose job declares file_md5
    Hashed,     \* those whose file type has get_md5_hash
    Resumable,  \* those whose file type has on_download_resume
    N,          \* total_blocks
    PerRequest, \* MQTT_DOWNLOADER_BLOCKS_PER_REQUEST
    Factor,     \* MQTT_DOWNLOADER_MAX_RETRIES_DIVIDE_FACTOR
    Word,       \* 2^32 in the code: block_count is unsigned
    MaxQueue,   \* bound: entries of the work queue, other users' not counted
    MaxStarts,  \* bound: downloads started
    MaxFaults   \* bound: lost messages, failures and power losses

ASSUME ImagesAssumption == /\ None \notin Images /\ Md5 \subseteq Images
                           /\ Hashed \subseteq Images /\ Resumable \subseteq Images
ASSUME BoundsAssumption == /\ N \in Nat \ {0} /\ PerRequest \in Nat \ {0} /\ Factor \in Nat \ {0}
                           /\ Word \in Nat /\ Word > N /\ MaxQueue \in Nat /\ MaxStarts \in Nat
                           /\ MaxFaults \in Nat

VARIABLES
    dl,         \* g_mqtt_downloader_ctx
    late,       \* the timeout callback is running: "no", "yes", or "freed" after a cleanup
    work,       \* tasks of the downloader in the work queue
    online, sub, \* the MQTT connection; the stream subscription at the broker
    subRetry,   \* g_sub_retry_ctx counts down
    net,        \* data blocks on their way
    nvs,        \* the resume tracker: descriptor and bitmap
    flash,      \* flash[b]: the image block b of the update partition was written from
    out,        \* what the state machine was told of the last download
    starts, faults,
    spoiled,    \* history: images under whose tracker the partition was erased
    starved     \* history: the download had a request without a timer

ram  == <<dl, work, subRetry>>
downloadVars == <<ram, late, online, sub, net, nvs, flash, out, starts, faults, spoiled, starved>>

Blocks == 1..N
Inactive == [image |-> None, todo |-> {}, req |-> {}, count |-> 0, flag |-> "none", per |-> 0,
             retries |-> 0, resume |-> FALSE, open |-> FALSE, armed |-> FALSE]
Active == dl.image # None
NoTracker == [image |-> None, todo |-> {}]
Data == [image : Images, block : Blocks]
WorkTasks == [task : {"start"}, image : Images, block : {0}] \cup
             [task : {"chunk"}, image : Images, block : Blocks] \cup
             [task : {"fail", "sub"}, image : {None}, block : {0}]
Task(t) == [task |-> t, image |-> None, block |-> 0]
Quiet == [image |-> None, result |-> "none"]

DownloadInit == /\ dl = Inactive /\ late = "no" /\ work = <<>>
                /\ online = TRUE /\ sub = "no" /\ subRetry = FALSE
                /\ net = {} /\ nvs = NoTracker
                /\ flash = [b \in Blocks |-> None]
                /\ out = Quiet /\ starts = 0 /\ faults = 0 /\ spoiled = {} /\ starved = FALSE

(* n failures in one step                                                  *)
Faults(n) == faults + n <= MaxFaults /\ faults' = faults + n
Fault == Faults(1)
Cost(ok) == IF ok THEN 0 ELSE 1
Fits == Len(work) < MaxQueue

-----------------------------------------------------------------------------
(* Ending a download.                                                      *)

(* image_handler_end: the MD5 check of a job that declares file_md5, which *)
(* is skipped if the file type cannot compute one.                         *)
Passes(i, f) == i \in Md5 \cap Hashed => \A b \in Blocks : f[b] = i

(* cleanup_downloader: the timeout handler is freed even while it runs.    *)
Cleanup == /\ dl' = Inactive
           /\ sub' = "no" /\ subRetry' = FALSE
           /\ late' = IF late = "yes" THEN "freed" ELSE late

(* image_handler_end_and_cleanup: t is the tracker, f the partition.  Only *)
(* a complete download clears the tracker.                                 *)
End(status, t, f) ==
    /\ out' = [image |-> dl.image,
               result |-> CASE status # "SUCCESS" -> "TIMEOUT"
                            [] ~Passes(dl.image, f) -> "MD5_INVALID"
                            [] OTHER -> "SUCCEEDED"]
    /\ nvs' = IF status = "SUCCESS" THEN NoTracker ELSE t
    /\ Cleanup

-----------------------------------------------------------------------------
(* Requests.                                                               *)

(* request_get_next: the first n blocks that are not processed.            *)
First(n, todo) == {b \in todo : Cardinality({c \in todo : c < b}) < n}

(* request_get_next and block_request_begin_context.  That the timer could *)
(* not be started is only logged.                                          *)
Asked(d, timed) == LET r == First(d.per, d.todo) IN
                   [d EXCEPT !.req = r, !.count = Cardinality(r), !.flag = "none", !.armed = timed]

(* block_request_send_next: published; not published (the timer runs); or  *)
(* not even built, and then neither the flag nor the timer is touched.     *)
Published(d, timed) == /\ dl' = Asked(d, timed)
                       /\ net' = net \cup [image : {d.image}, block : First(d.per, d.todo)]
SendNext(d, n) ==
    \/ \E timed \in BOOLEAN :
          /\ starved' = (starved \/ ~timed)
          /\ \/ Faults(n + Cost(timed)) /\ Published(d, timed)
             \/ Faults(n + Cost(timed) + 1) /\ dl' = Asked(d, timed) /\ UNCHANGED net
    \/ Faults(n + 1) /\ dl' = d /\ starved' = TRUE /\ UNCHANGED net

(* block_request_on_failure_work_queue_task                                *)
MaxRetries == N \div Factor

(* Mutant of Failed: a failure is not counted as a retry.                  *)
FailedUncounted(d) == [d EXCEPT !.flag = "failure", !.per = 1]

Failed(d) == [d EXCEPT !.flag = "failure", !.retries = @ + 1, !.per = 1]

(* n failures led here; t and f are the tracker and the partition.         *)
Failure(d, t, f, n) ==
    \/ /\ d.flag # "none"
       /\ dl' = d /\ nvs' = t
       /\ Faults(n)
       /\ UNCHANGED <<net, out, late, sub, subRetry, starved>>
    \/ /\ d.flag = "none" /\ Failed(d).retries > MaxRetries
       /\ End("TIMEOUT", t, f)
       /\ Faults(n)
       /\ UNCHANGED <<net, starved>>
    \/ /\ d.flag = "none" /\ Failed(d).retries <= MaxRetries
       /\ SendNext(Failed(d), n)
       /\ nvs' = t
       /\ UNCHANGED <<out, late, sub, subRetry>>

-----------------------------------------------------------------------------
(* Starting a download: esp_rmaker_ota_mqtt_cb.                            *)

(* resume_attempt: the tracker is of this image, and usefully partial.     *)
Matches(t, i) == t.image = i /\ t.todo # {} /\ t.todo # Blocks

(* What resume_attempt leaves of the tracker.                              *)
Kept(i) == IF i \in Md5 /\ ~Matches(nvs, i) THEN NoTracker ELSE nvs

Fresh(i) == LET resume == i \in Md5 /\ Matches(nvs, i) IN
            [Inactive EXCEPT !.image = i, !.per = PerRequest, !.resume = resume,
                             !.todo = IF resume THEN nvs.todo ELSE Blocks]

(* The state machine asks for the next download once the last one ended.   *)
AskStart(i) ==
    /\ ~Active /\ Fits /\ starts < MaxStarts
    /\ \A k \in DOMAIN work : work[k].task # "start"
    /\ work' = Append(work, [task |-> "start", image |-> i, block |-> 0])
    /\ starts' = starts + 1 /\ out' = Quiet
    /\ UNCHANGED <<dl, late, online, sub, subRetry, net, nvs, flash, faults, spoiled, starved>>

Head1 == work[1]
Take(t) == /\ work # <<>> /\ Head1.task = t
           /\ work' = Tail(work)

Start ==
    /\ Take("start")
    /\ UNCHANGED <<online, flash, starts, spoiled>>
    /\ nvs' \in {nvs, Kept(Head1.image)}
    /\ \/ \* the subscription and the first request are under way; a tracker of another
          \* image that could not be erased stays
          /\ online
          /\ \E timed \in BOOLEAN :
                /\ Faults(Cost(timed) + Cost(nvs' = Kept(Head1.image)))
                /\ Published(Fresh(Head1.image), timed)
                /\ starved' = ~timed
          /\ sub' = "asked"
          /\ UNCHANGED <<late, subRetry, out>>
       \/ \* set-up, subscription or first publish failed, before or after resume_attempt
          /\ Cleanup
          /\ out' = [image |-> Head1.image, result |-> "FAILED"]
          /\ Faults(Cost(~online))
          /\ UNCHANGED <<net, starved>>

-----------------------------------------------------------------------------
(* Blocks.                                                                 *)

(* on_mqtt_message_received: the block is of the stream of this download.  *)
(* A block may be delivered late, twice (QoS 1) or never; with a full      *)
(* queue it is lost.                                                       *)
Receive(m) ==
    /\ m \in net /\ sub = "ok" /\ online
    /\ \/ net' = net \ {m} /\ UNCHANGED faults
       \/ net' = net /\ Fault
    /\ IF Active /\ m.image = dl.image /\ Fits
       THEN work' = Append(work, [task |-> "chunk", image |-> m.image, block |-> m.block])
       ELSE UNCHANGED work
    /\ UNCHANGED <<dl, late, online, sub, subRetry, nvs, flash, out, starts, spoiled, starved>>

(* image_handler_begin before the first block: a resumed image keeps the   *)
(* partition; otherwise, and when on_download_resume fails or the file     *)
(* type has none, on_download_begin erases it.                             *)
Reopens == dl.resume /\ dl.image \in Resumable
Opened(resumed) == IF dl.open \/ resumed THEN flash ELSE [b \in Blocks |-> None]
Spoiled(resumed) ==
    IF dl.open \/ resumed THEN spoiled ELSE spoiled \cup ({nvs.image} \ {None})

(* Mutant of Persisted: the blocks that were asked for count as received.  *)
PersistedEarly(d) ==
    IF d.image \in Md5 THEN [image |-> d.image, todo |-> d.todo \ First(d.per, d.todo)]
                       ELSE nvs

(* resume_persist                                                          *)
Persisted(d) == IF d.image \in Md5 THEN [image |-> d.image, todo |-> d.todo] ELSE nvs

(* --request.block_count, an unsigned number                               *)
CountDown(d) == (d.count + Word - 1) % Word

(* The last block of a batch: block_request_on_success after the unlock    *)
Batch(d) == [d EXCEPT !.flag = "success", !.retries = 0, !.armed = FALSE, !.count = 0,
                      !.per = IF @ < PerRequest THEN @ + 1 ELSE @]

(* block_request_on_success, and the failure handling when it fails        *)
Success(d, f, n) ==
    LET e == [d EXCEPT !.count = CountDown(d)]
        next == Batch(e) IN
    \/ /\ d.todo = {}
       /\ End("SUCCESS", nvs, f)
       /\ Faults(n)
       /\ UNCHANGED <<net, starved>>
    \/ /\ d.todo # {} /\ e.count > 0
       /\ dl' = e
       /\ Faults(n)
       /\ UNCHANGED <<net, nvs, out, late, sub, subRetry, starved>>
    \/ /\ d.todo # {} /\ e.count = 0 /\ d.flag = "failure"
       /\ Failure(e, nvs, f, n)
    \/ /\ d.todo # {} /\ e.count = 0 /\ d.flag # "failure"
       /\ \E t \in {Persisted(e), nvs}, timed \in BOOLEAN :
             LET m == n + Cost(t = Persisted(e)) IN
             \/ /\ Faults(m + Cost(timed))
                /\ Published(next, timed)
                /\ nvs' = t
                /\ starved' = (starved \/ ~timed)
                /\ UNCHANGED <<out, late, sub, subRetry>>
             \/ \* not published: the failure handling asks again
                Failure(Asked(next, timed), t, f, m + Cost(timed) + 1)
             \/ \* not built: the success flag keeps the failure handling away
                /\ Faults(m + 1)
                /\ dl' = next /\ nvs' = t
                /\ starved' = TRUE
                /\ UNCHANGED <<net, out, late, sub, subRetry>>

(* write_chunk_to_image_handler_work_queue_task                            *)
Written(f) == [f EXCEPT ![Head1.block] = Head1.image]

Chunk ==
    /\ Take("chunk")
    /\ UNCHANGED <<online, starts>>
    /\ \/ \* the download is over, or the block is there already
          /\ Head1.block \notin dl.todo
          /\ UNCHANGED <<dl, subRetry, late, sub, net, nvs, flash, out, faults, spoiled, starved>>
       \/ \* it cannot be decoded
          /\ Active
          /\ Failure(dl, nvs, flash, 1)
          /\ UNCHANGED <<flash, spoiled>>
       \/ /\ Head1.block \in dl.todo
          /\ \E resumed \in {Reopens, FALSE} :
              LET n == IF dl.open THEN 0 ELSE Cost(resumed = Reopens) IN
              /\ spoiled' = Spoiled(resumed)
              /\ \/ flash' = Written(Opened(resumed))
                    /\ Success([dl EXCEPT !.open = TRUE, !.todo = @ \ {Head1.block}], flash', n)
                 \/ \* the image was not begun, for all that it was erased, or the block not written
                    flash' = Opened(resumed)
                    /\ \E opened \in {dl.open, TRUE} :
                          Failure([dl EXCEPT !.open = opened], nvs, flash', n + 1)

(* The failure task that the timeout callback queued.                      *)
Fail ==
    /\ Take("fail")
    /\ IF Active THEN Failure(dl, nvs, flash, 0)
       ELSE UNCHANGED <<dl, subRetry, late, sub, net, nvs, out, faults, starved>>
    /\ UNCHANGED <<online, flash, starts, spoiled>>

-----------------------------------------------------------------------------
(* The request timeout.  The dispatch task takes the callback, then runs   *)
(* it; a stop, restart or cleanup in between comes too late.               *)

TimerFires ==
    /\ dl.armed /\ late = "no"
    /\ dl' = [dl EXCEPT !.armed = FALSE]
    /\ late' = "yes"
    /\ UNCHANGED <<work, online, sub, subRetry, net, nvs, flash, out, starts, faults, spoiled,
                   starved>>

(* block_request_on_failure_timeout_callback.  After a cleanup it reads    *)
(* the freed handler: the queue gets the task, or the callback is lost.    *)
TimerQueues ==
    /\ late # "no"
    /\ late' = "no"
    /\ \/ /\ Fits
          /\ work' = Append(work, Task("fail"))
          /\ UNCHANGED <<dl, faults, starved>>
       \/ /\ ~Fits
          /\ dl' = [dl EXCEPT !.armed = @ \/ Active]
          /\ UNCHANGED <<work, faults, starved>>
       \/ \* the restart fails, which is only logged
          /\ ~Fits /\ Active
          /\ starved' = (starved \/ ~dl.armed)
          /\ Fault
          /\ UNCHANGED <<dl, work>>
       \/ /\ late = "freed"
          /\ UNCHANGED <<dl, work, faults, starved>>
    /\ UNCHANGED <<online, sub, subRetry, net, nvs, flash, out, starts, spoiled>>

-----------------------------------------------------------------------------
(* The subscription: on_rmaker_mqtt_event and its retry.                   *)

Disconnected ==
    /\ online
    /\ online' = FALSE /\ sub' = "no"
    /\ subRetry' = FALSE
    /\ Fault
    /\ UNCHANGED <<dl, late, work, net, nvs, flash, out, starts, spoiled, starved>>

(* The subscription is asked for again after a reconnect.                  *)
Resubscribes == Active

Connected ==
    /\ ~online
    /\ online' = TRUE
    /\ subRetry' = Resubscribes
    /\ UNCHANGED <<dl, late, work, sub, net, nvs, flash, out, starts, faults, spoiled, starved>>

Suback ==
    /\ sub = "asked"
    /\ \/ sub' = "ok" /\ subRetry' = FALSE /\ UNCHANGED faults
       \/ sub' = "no" /\ subRetry' = TRUE /\ Fault
    /\ UNCHANGED <<dl, late, work, online, net, nvs, flash, out, starts, spoiled, starved>>

(* sub_retry_sched_cb                                                      *)
SubRetryFires ==
    /\ subRetry
    /\ \/ Fits /\ work' = Append(work, Task("sub")) /\ subRetry' = FALSE
       \/ ~Fits /\ UNCHANGED <<work, subRetry>>
    /\ UNCHANGED <<dl, late, online, sub, net, nvs, flash, out, starts, faults, spoiled, starved>>

(* sub_retry_work: without a connection the subscribe call fails.          *)
SubRetryWork ==
    /\ Take("sub")
    /\ \/ ~Active /\ UNCHANGED <<sub, subRetry, faults>>
       \/ Active /\ online /\ sub' = "asked" /\ UNCHANGED <<subRetry, faults>>
       \/ Active /\ online /\ subRetry' = TRUE /\ Fault /\ UNCHANGED sub
       \/ Active /\ ~online /\ subRetry' = TRUE /\ UNCHANGED <<sub, faults>>
    /\ UNCHANGED <<dl, late, online, net, nvs, flash, out, starts, spoiled, starved>>

-----------------------------------------------------------------------------
(* The environment.                                                        *)

(* Everything but the partition and the tracker is gone.                   *)
Restarted == /\ dl' = Inactive /\ work' = <<>> /\ subRetry' = FALSE /\ late' = "no"
             /\ online' = TRUE /\ sub' = "no" /\ out' = Quiet
             /\ Fault
             /\ UNCHANGED <<net, nvs, starts, starved>>

PowerLoss == Restarted /\ UNCHANGED <<flash, spoiled>>

(* Power is lost after the partition was erased, or the block written, and *)
(* before the bitmap is saved.                                             *)
PowerLossInChunk ==
    /\ work # <<>> /\ Head1.task = "chunk" /\ Head1.block \in dl.todo
    /\ flash' \in {Opened(Reopens), Written(Opened(Reopens))}
    /\ spoiled' = Spoiled(Reopens)
    /\ Restarted

DownloadWorker == Start \/ Chunk \/ Fail \/ SubRetryWork
DownloadNext == \/ DownloadWorker \/ TimerFires \/ TimerQueues
                \/ \E i \in Images : AskStart(i)
                \/ \E m \in net : Receive(m)
                \/ Disconnected \/ Connected \/ Suback \/ SubRetryFires
                \/ PowerLoss \/ PowerLossInChunk

DownloadSpec == DownloadInit /\ [][DownloadNext]_downloadVars

(* The worker and the scheduler's tasks run.  Nothing is assumed of the    *)
(* network: a block, a SUBACK or a connection may never come.              *)
Fairness == /\ WF_downloadVars(DownloadWorker)
            /\ WF_downloadVars(TimerFires) /\ WF_downloadVars(TimerQueues)
FairSpec == DownloadSpec /\ Fairness

-----------------------------------------------------------------------------
(* Properties.                                                             *)

DownloadTypeOK ==
    /\ dl \in [image : Images \cup {None}, todo : SUBSET Blocks, req : SUBSET Blocks,
               count : 0..(Word - 1), flag : {"none", "success", "failure"}, per : 0..PerRequest,
               retries : 0..MaxRetries, resume : BOOLEAN, open : BOOLEAN, armed : BOOLEAN]
    /\ late \in {"no", "yes", "freed"} /\ work \in Seq(WorkTasks) /\ Len(work) <= MaxQueue
    /\ online \in BOOLEAN /\ sub \in {"no", "asked", "ok"} /\ subRetry \in BOOLEAN
    /\ net \subseteq Data
    /\ nvs \in [image : Md5 \cup {None}, todo : SUBSET Blocks]
    /\ flash \in [Blocks -> Images \cup {None}]
    /\ out \in [image : Images \cup {None},
                result : {"none", "FAILED", "TIMEOUT", "MD5_INVALID", "SUCCEEDED"}]
    /\ starts \in 0..MaxStarts /\ faults \in 0..MaxFaults
    /\ spoiled \subseteq Md5 /\ starved \in BOOLEAN

(* A download that is reported as succeeded left the whole image in the    *)
(* partition, whatever was lost, repeated, resumed or overwritten before   *)
(* (image_handler_end_and_cleanup).  Excepted is an image whose file type  *)
(* has no get_md5_hash once the partition was erased under its tracker.    *)
WholeImage == out.result = "SUCCEEDED" /\ (out.image \in Hashed \/ out.image \notin spoiled) =>
                  \A b \in Blocks : flash[b] = out.image

(* The blocks the tracker calls received are in the partition, also after  *)
(* a loss of power at any point (resume_persist), unless the partition was *)
(* erased while the tracker was kept: by a job without file_md5, because   *)
(* on_download_resume failed or the file type has none, or because the     *)
(* tracker could not be erased before another image was begun.             *)
TrackerTrue == \/ nvs.image = None \/ nvs.image \in spoiled
               \/ \A b \in Blocks \ nvs.todo : flash[b] = nvs.image

(* "if you leave this NULL, your filetype never resumes": a download asks  *)
(* for every block that its partition does not hold.  The code keeps the   *)
(* resumed bitmap when it begins the image afresh (image_handler_begin).   *)
AsksForAll == dl.open => \A b \in Blocks \ dl.todo : flash[b] = dl.image

(* The blocks a request still waits for are at least as many as its count, *)
(* so the batch is over when they have arrived, however many blocks of     *)
(* earlier requests were counted (block_request_on_success); and the       *)
(* unsigned count never passes zero.                                       *)
BatchEnds == Active /\ dl.flag = "none" => /\ dl.count > 0
                                          /\ dl.count <= Cardinality(dl.req \cap dl.todo)

(* A download on a live connection is never without its stream: it is      *)
(* subscribed, waits for the SUBACK, or has a retry under way              *)
(* (on_rmaker_mqtt_event, sub_retry_work).                                 *)
NotDeaf == Active /\ online /\ sub = "no" =>
               subRetry \/ \E k \in DOMAIN work : work[k].task = "sub"

(* Every download ends, with whatever result, and the state machine is     *)
(* told: lost blocks and requests run into the timeout, and the retries    *)
(* are counted (block_request_on_failure_work_queue_task).  Excepted is a  *)
(* download that had a request without a timer, which could not be started *)
(* or restarted, or whose request found no memory.                         *)
DownloadEnds == Active ~> ~Active \/ starved

(* "Resume never makes a job fail that a normal OTA would have completed": *)
(* blocks arrive as they were sent, so only a resumed download can fail    *)
(* the MD5 check.                                                          *)
ResumeNeverHarms == out.result # "MD5_INVALID"
=============================================================================
