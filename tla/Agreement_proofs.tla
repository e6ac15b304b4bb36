--------------------------- MODULE Agreement_proofs ---------------------------
(***************************************************************************)
(* Proofs that the device and the cloud do not believe too much of each    *)
(* other.                                                                  *)
(*                                                                         *)
(* The OTA job machine, for any jobs, documents, handlers and faults: a    *)
(* firmware job succeeds in the cloud only if its image ran and was found  *)
(* valid.  The argument follows the image.  A job with a download has the  *)
(* type of its document (Place), so that its image goes to the slot it is  *)
(* staged from; while it is written no other main image is staged, on      *)
(* trial or unjudged (Writing); what the flash keeps of it says where it   *)
(* is, and that it was found valid if it passed (Awaited); a SUCCEEDED     *)
(* enters the cache, and from there the cloud, only from that record       *)
(* (Founded).  All of it is conditional: where the code mixes two jobs,    *)
(* the invariant says no more than that it did (Astray).                   *)
(*                                                                         *)
(* The MQTT client, for any tasks, topics, operations and lost             *)
(* connections: what the services take for subscribed is subscribed at the *)
(* broker.  The operations on a topic are queued, sent and answered in the *)
(* order they began (Sorted, Turn), and nothing is pending or believed     *)
(* without its connection (Connection); so each topic keeps what was       *)
(* promised of it (Kept): a SUBSCRIBE under way has its entry, who takes   *)
(* an entry out leaves nobody that counts on it, and an entry is           *)
(* subscribed, unsure, or about to be seen to.                             *)
(***************************************************************************)
EXTENDS OtaJobs, MqttClient, TLAPS

-----------------------------------------------------------------------------
(* The OTA job machine.                                                    *)

(* The inductive invariant.                                                *)

(* The types the proofs need, with no bound on the queue or the faults:    *)
(* the job at hand,                                                        *)
Fields == [id : Jobs \cup {None}, ft : Types, handler : Types \cup {None}, active : BOOLEAN,
           pending : BOOLEAN, fw : Nat, reboot : BOOLEAN, reported : BOOLEAN,
           queued : Final \cup {None}, status : Final \cup {"IN_PROGRESS", None}]
(* the images,                                                             *)
Slots == [slot : Jobs \cup {None}, run : [Types -> Jobs \cup {None}], prev : Jobs \cup {None},
          trial : BOOLEAN, rolled : BOOLEAN]
(* and what the flash keeps of the job to verify.                          *)
Pendings == [job : Jobs \cup {None}, ft : Types, checked : BOOLEAN, passed : BOOLEAN]

(* The types of the variables.                                             *)
Shape ==
    /\ q \in Seq(Events) /\ stash \in Seq(Events)
    /\ job \in Fields /\ ids \subseteq Jobs
    /\ dl \in [job : Jobs \cup {None}, by : Types \cup {None}, told : BOOLEAN]
    /\ cached \in [Jobs -> Final \cup {None}]
    /\ ask \subseteq Jobs \cup {"pending"}
    /\ exec \in [Jobs -> Open \cup Final \cup {"NONE", "GONE"}]
    /\ nvs \in Pendings /\ boot \in Slots
    /\ app \in [final : Jobs \cup {None}, custom : Jobs \cup {None}]
    /\ doc \in [Jobs -> [kind : Kinds, type : Types, fw : Nat]]

(* The excepted behaviours: fields of another document, a foreign final    *)
(* status or an image whose record was overwritten.                        *)
Astray == holes \cap {"type", "mixed"} # {}

(* A job that installs the main image.                                     *)
Firmware(j) == doc[j].kind # "custom" /\ doc[j].type = Main

(* The machine is in a state, or in ERROR on its way back to it.           *)
Within(s) == st = s \/ (st = "ERROR" /\ rec.state = s)

(* The states whose handlers trust the fields of the job.                  *)
Sensitive == {"DOC_RECEIVED", "CUSTOM_EXECUTION", "POST_DOWNLOAD", "REBOOT_CHECK"}

(* What goes with a phase of the boot, and where a recovery may lead.      *)
Phases ==
    /\ phase # "ready" => rec.state = "UNINIT" /\ dl = NoDownload
    /\ phase = "off" => boot.slot = None
    /\ rec.state \in Sensitive => st = "ERROR"
    /\ rec.event \in {"ERROR", "FETCH", "TRANSITION"}
    /\ rec.state # "JOB_EXECUTION" /\ rec.state # "FETCHING_DOC" /\ rec.state # "WAITING_DOC"

(* The fields of the job are those of its document.                        *)
Typed == /\ job.id \in Jobs /\ job.ft = doc[job.id].type /\ job.handler = doc[job.id].type
         /\ doc[job.id].kind # "custom"

(* In each state that trusts the job's fields, what they say is true.      *)
Place ==
    /\ st = "JOB_EXECUTION" \/ Within("POST_DOWNLOAD") => Typed
    /\ job.pending /\ (st \in {"FETCHING_DOC", "WAITING_DOC"} \/ Within("DOC_RECEIVED")) => Typed
    /\ Within("CUSTOM_EXECUTION") => job.id \in Jobs /\ doc[job.id].kind = "custom"
    /\ Within("REBOOT_CHECK") => job.id \in Jobs /\ job.id = nvs.job /\ job.ft = nvs.ft

(* While a main image is being written, or waits for its reboot, no other  *)
(* is on trial or awaits its verdict.                                      *)
Writing ==
    /\ dl.by = Main => boot.slot = None /\ ~boot.trial /\ ~(nvs.job # None /\ nvs.ft = Main)
    /\ boot.slot # None => ~boot.trial

(* What awaits its verdict is an image job, and a main image is staged, on *)
(* trial, judged, rolled back, or was found valid although no verdict says *)
(* so; one that passed was found valid.                                    *)
Awaited ==
    nvs.job # None =>
        /\ nvs.ft = doc[nvs.job].type /\ doc[nvs.job].kind # "custom"
        /\ nvs.ft = Main =>
              \/ boot.slot = nvs.job /\ ~boot.trial /\ ~nvs.checked
              \/ boot.slot = None /\ boot.trial /\ boot.run[Main] = nvs.job
              \/ boot.slot = None /\ ~boot.trial /\ (nvs.checked \/ boot.rolled \/ nvs.job \in good)
        /\ nvs.ft = Main /\ nvs.checked /\ nvs.passed => nvs.job \in good

(* No SUCCEEDED of a firmware job, cached or delivered, is without ground. *)
Founded ==
    \A j \in Jobs : Firmware(j) /\ (cached[j] = "SUCCEEDED" \/ exec[j] = "SUCCEEDED") => j \in good

(* What holds as long as nothing went astray.                              *)
Sound == Place /\ Writing /\ Awaited /\ Founded

(* The inductive invariant.                                                *)
Verified == Shape /\ Phases /\ (Astray \/ Sound)

-----------------------------------------------------------------------------
(* Events, queues and the ways a handler ends.                             *)

(* The events the handlers make are events.                                *)
LEMMA EventKinds ==
    /\ \A e \in Simple : Ev(e) \in Events
    /\ \A s \in Final : Outcome(s) \in Events /\ Custom(s) \in Events
    /\ Custom("IN_PROGRESS") \in Events
    /\ \A b \in BOOLEAN : [ev |-> "DL_OK", reboot |-> b] \in Events
    /\ \A j \in Jobs : [ev |-> "DOC_ACC", job |-> j] \in Events
    /\ \A l \in SUBSET Jobs : [ev |-> "JOBS_CHANGED", list |-> l] \in Events
                              /\ [ev |-> "PENDING_ACC", list |-> l] \in Events
BY SMT DEF Events, Ev, Outcome, Custom

(* The fields of an event.                                                 *)
LEMMA EventFacts ==
    ASSUME NEW e \in Events
    PROVE  /\ e.ev = "FINAL" => e.res \in Final
           /\ e.ev = "CUSTOM" => e.res \in Final \cup {"IN_PROGRESS"}
           /\ e.ev = "DL_OK" => e.reboot \in BOOLEAN
           /\ e.ev = "DOC_ACC" => e.job \in Jobs
           /\ e.ev \in {"JOBS_CHANGED", "PENDING_ACC"} => e.list \subseteq Jobs
BY SMT DEF Events, Simple

(* An empty queue has no event in it,                                      *)
LEMMA EmptyQueue == <<>> \in Seq(Events)
OBVIOUS

(* and what a full one has first is one;                                   *)
LEMMA HeadOf ==
    ASSUME q \in Seq(Events), q # <<>>
    PROVE  Head(q) \in Events /\ Tail(q) \in Seq(Events)
OBVIOUS

(* what is appended keeps it a queue,                                      *)
LEMMA Appended ==
    ASSUME NEW s \in Seq(Events), NEW e \in Events
    PROVE  Append(s, e) \in Seq(Events)
OBVIOUS

(* also after the first was taken.                                         *)
LEMMA Errors ==
    ASSUME q \in Seq(Events), q # <<>>
    PROVE  Append(Tail(q), Ev("ERROR")) \in Seq(Events)
<1>1. Ev("ERROR") \in Events
  BY EventKinds DEF Simple
<1> QED BY <1>1, HeadOf, Appended

(* Leaving for a state.                                                    *)
LEMMA LeaveFacts ==
    ASSUME q \in Seq(Events), q # <<>>, NEW s, NEW h, Leave(s, h)
    PROVE  st' = s /\ q' \in Seq(Events) /\ holes' = holes \cup h /\ rec' = rec
BY HeadOf DEF Leave

(* An error that is retried by a fetch.                                    *)
LEMMA RetryFacts ==
    ASSUME q \in Seq(Events), q # <<>>, NEW s, Retry(s)
    PROVE  st' = s /\ q' \in Seq(Events) /\ holes \subseteq holes' /\ rec' = Refetch
BY HeadOf, Errors DEF Retry, PostError

(* An error with a recovery of its own.                                    *)
LEMMA StopFacts ==
    ASSUME q \in Seq(Events), q # <<>>, NEW r, NEW h, Stop(r, h)
    PROVE  st' = "ERROR" /\ q' \in Seq(Events) /\ holes' = holes \cup h /\ rec' = r
BY Errors DEF Stop

(* An error that comes back to the same state.                             *)
LEMMA RetryHereFacts ==
    ASSUME q \in Seq(Events), q # <<>>, NEW s, NEW h, RetryHere(s, h)
    PROVE  /\ st' = "ERROR" /\ q' \in Seq(Events) /\ holes' = holes \cup {"report"} \cup h
           /\ rec'.state = s /\ rec'.event = "ERROR"
BY Errors DEF RetryHere

(* A state entered with an event.                                          *)
LEMMA GoPostFacts ==
    ASSUME q \in Seq(Events), q # <<>>, NEW s, NEW e \in Events, GoPost(s, e)
    PROVE  /\ q' \in Seq(Events) /\ holes \subseteq holes'
           /\ (st' = s /\ rec' = rec) \/ (st' = "ERROR" /\ rec' = Refetch)
<1>1. CASE Fault /\ Retry("ERROR")
  BY <1>1, RetryFacts
<1>2. CASE st' = s /\ q' = Append(Tail(q), e) /\ UNCHANGED <<rec, backoff, faults, holes>>
  BY <1>2, HeadOf, Appended
<1> QED BY <1>1, <1>2 DEF GoPost

(* The same with the backoff reset.                                        *)
LEMMA ResetPostFacts ==
    ASSUME q \in Seq(Events), q # <<>>, NEW s, NEW e \in Events, NEW h, ResetPost(s, e, h)
    PROVE  /\ q' \in Seq(Events) /\ holes \subseteq holes'
           /\ \/ st' = s /\ rec' = rec /\ holes' = holes \cup h
              \/ st' = "ERROR" /\ rec' = Refetch
<1>1. CASE Fault /\ Retry("ERROR")
  BY <1>1, RetryFacts
<1>2. CASE /\ st' = s /\ q' = Append(Tail(q), e) /\ backoff' = FALSE
           /\ holes' = holes \cup h /\ UNCHANGED <<rec, faults>>
  BY <1>2, HeadOf, Appended
<1> QED BY <1>1, <1>2 DEF ResetPost

(* An event from another thread,                                           *)
LEMMA DeliverFacts ==
    ASSUME q \in Seq(Events), NEW e \in Events, NEW h, DeliverBut(e, h)
    PROVE  q' \in Seq(Events) /\ holes \subseteq holes'
BY Appended DEF DeliverBut

(* from the cloud,                                                         *)
LEMMA TellFacts ==
    ASSUME q \in Seq(Events), NEW e \in Events, NEW j, Tell(j, e)
    PROVE  q' \in Seq(Events) /\ holes \subseteq holes'
BY DeliverFacts DEF Tell, Deliver

(* and from the end of a download.                                         *)
LEMMA TerminalFacts ==
    ASSUME q \in Seq(Events), stash \in Seq(Events), NEW e \in Events, NEW f \in Events,
           PostTerminal(<<e>>) \/ PostTerminal(<<f, e>>)
    PROVE  q' \in Seq(Events) /\ stash' \in Seq(Events) /\ dl' = NoDownload
<1>1. <<e>> \in Seq(Events) /\ <<f, e>> \in Seq(Events)
  OBVIOUS
<1>2. q \o <<e>> \in Seq(Events) /\ q \o <<f, e>> \in Seq(Events)
  BY <1>1
<1>3. SubSeq(<<e>>, 1, Len(<<e>>) - 1) \in Seq(Events)
  OBVIOUS
<1>4. SubSeq(<<f, e>>, 1, Len(<<f, e>>) - 1) \in Seq(Events)
  OBVIOUS
<1>5. <<(<<e>>)[Len(<<e>>)]>> \in Seq(Events) /\ <<(<<f, e>>)[Len(<<f, e>>)]>> \in Seq(Events)
  OBVIOUS
<1>6. q \o SubSeq(<<e>>, 1, Len(<<e>>) - 1) \in Seq(Events)
      /\ q \o SubSeq(<<f, e>>, 1, Len(<<f, e>>) - 1) \in Seq(Events)
  BY <1>3, <1>4
<1> QED BY <1>1, <1>2, <1>5, <1>6 DEF PostTerminal

-----------------------------------------------------------------------------
(* What the quiet steps leave alone.                                       *)

(* A step that changes only the queue, the requests and the timers keeps   *)
(* the invariant.                                                          *)
LEMMA FrameLemma ==
    ASSUME Verified, Shape',
           UNCHANGED <<phase, st, rec, dl, nvs, boot, cached, exec, good, doc>>,
           job' = job, holes \subseteq holes'
    PROVE  Verified'
<1>1. Phases'
  BY DEF Verified, Phases
<1>2. Astray => Astray'
  BY DEF Astray
<1>3. Sound => Sound'
  <2>1. Place => Place'
    BY DEF Place, Within, Typed
  <2>2. (Writing => Writing') /\ (Awaited => Awaited')
    BY DEF Writing, Awaited
  <2>3. Founded => Founded'
    BY DEF Founded, Firmware
  <2> QED BY <2>1, <2>2, <2>3 DEF Sound
<1> QED BY <1>1, <1>2, <1>3 DEF Verified

(* The records stay sound when no SUCCEEDED is added to the cache and the  *)
(* cloud takes only what is cached.                                        *)
LEMMA BooksKept ==
    ASSUME Sound, UNCHANGED <<nvs, boot, good, doc>>,
           dl'.by = dl.by,
           \A j \in Jobs : (cached'[j] = "SUCCEEDED" => cached[j] = "SUCCEEDED")
                           /\ (exec'[j] = "SUCCEEDED" => exec[j] = "SUCCEEDED" \/ cached[j] = "SUCCEEDED")
    PROVE  Writing' /\ Awaited' /\ Founded'
BY DEF Sound, Writing, Awaited, Founded, Firmware

(* A state that trusts nothing of the job.                                 *)
LEMMA PlaceElsewhere ==
    ASSUME st' \notin {"JOB_EXECUTION", "FETCHING_DOC", "WAITING_DOC"} \cup Sensitive,
           st' = "ERROR" => rec'.state \notin Sensitive
    PROVE  Place'
BY DEF Place, Within, Sensitive

(* The steps of the timers, the network and the application.               *)
LEMMA QuietSteps ==
    ASSUME Verified,
           \/ TimerExpires \/ TimerPosts \/ BackoffFires \/ Disconnected \/ Resubscribe
           \/ JobsChanged \/ AnswerRequest \/ RequestFails \/ Redeliver \/ AppFinal \/ AppCustom
           \/ AppAsks
    PROVE  Verified'
<1> USE DEF Verified, ctl, work, time, down, stat, net, disk
<1>0. q \in Seq(Events) /\ stash \in Seq(Events) /\ ask \subseteq Jobs \cup {"pending"}
  BY DEF Shape
<1>1. CASE TimerExpires
  <2>1. Shape'
    BY <1>1 DEF Shape, TimerExpires
  <2> QED BY <1>1, <2>1, FrameLemma DEF TimerExpires
<1>2. CASE TimerPosts
  <2>1. Ev("TIMEOUT") \in Events
    BY EventKinds DEF Simple
  <2>2. q' \in Seq(Events) /\ holes \subseteq holes'
    BY <1>0, <1>2, <2>1, DeliverFacts DEF TimerPosts, Deliver
  <2>3. Shape'
    BY <1>2, <2>2 DEF Shape, TimerPosts
  <2> QED BY <1>2, <2>2, <2>3, FrameLemma DEF TimerPosts
<1>3. CASE BackoffFires
  <2>1. Ev("RECOVER") \in Events
    BY EventKinds DEF Simple
  <2>2. q' \in Seq(Events)
    BY <1>0, <1>3, <2>1, Appended DEF BackoffFires
  <2>3. Shape'
    BY <1>3, <2>2 DEF Shape, BackoffFires
  <2> QED BY <1>3, <2>2, <2>3, FrameLemma DEF BackoffFires
<1>4. CASE Disconnected
  <2>1. Shape' /\ holes \subseteq holes'
    BY <1>4 DEF Shape, Disconnected
  <2> QED BY <1>4, <2>1, FrameLemma DEF Disconnected
<1>5. CASE Resubscribe
  <2>1. Shape'
    BY <1>5 DEF Shape, Resubscribe
  <2> QED BY <1>5, <2>1, FrameLemma DEF Resubscribe
<1>6. CASE JobsChanged
  <2> DEFINE l == {j \in Jobs : exec[j] \in Open}
  <2>1. [ev |-> "JOBS_CHANGED", list |-> l] \in Events
    BY EventKinds
  <2>2. q' \in Seq(Events) /\ holes \subseteq holes'
    BY <1>0, <1>6, <2>1, DeliverFacts DEF JobsChanged, Deliver
  <2>3. Shape'
    BY <1>6, <2>2 DEF Shape, JobsChanged
  <2> QED BY <1>6, <2>2, <2>3, FrameLemma DEF JobsChanged
<1>7. CASE AnswerRequest
  <2> DEFINE l == {j \in Jobs : exec[j] \in Open}
  <2>1. [ev |-> "PENDING_ACC", list |-> l] \in Events /\ Ev("DOC_REJ") \in Events
        /\ \A r \in Jobs : [ev |-> "DOC_ACC", job |-> r] \in Events
    BY EventKinds DEF Simple
  <2>2. q' \in Seq(Events) /\ holes \subseteq holes'
    BY <1>0, <1>7, <2>1, DeliverFacts DEF AnswerRequest, Deliver
  <2>3. Shape'
    BY <1>7, <2>2 DEF Shape, AnswerRequest
  <2> QED BY <1>7, <2>2, <2>3, FrameLemma DEF AnswerRequest
<1>8. CASE RequestFails
  <2>1. Ev("PENDING_REJ") \in Events
    BY EventKinds DEF Simple
  <2>2. q' \in Seq(Events)
    BY <1>0, <1>8, <2>1, Appended DEF RequestFails
  <2>3. Shape'
    BY <1>8, <2>2 DEF Shape, RequestFails
  <2> QED BY <1>8, <2>2, <2>3, FrameLemma DEF RequestFails
<1>9. CASE Redeliver
  <2>1. q' \in Seq(Events) /\ stash' \in Seq(Events)
    BY <1>0, <1>9 DEF Redeliver
  <2>3. Shape'
    BY <1>9, <2>1 DEF Shape, Redeliver
  <2> QED BY <1>9, <2>3, FrameLemma DEF Redeliver
<1>10. CASE AppFinal
  <2>1. Outcome("SUCCEEDED") \in Events /\ Outcome("FAILED") \in Events
    BY EventKinds DEF Final
  <2>2. q' \in Seq(Events) /\ holes \subseteq holes'
    BY <1>0, <1>10, <2>1, DeliverFacts DEF AppFinal
  <2>3. Shape'
    BY <1>10, <2>2 DEF Shape, AppFinal
  <2> QED BY <1>10, <2>2, <2>3, FrameLemma DEF AppFinal
<1>11. CASE AppCustom
  <2>1. Custom("IN_PROGRESS") \in Events /\ \A s \in Final : Custom(s) \in Events
    BY EventKinds
  <2>2. q' \in Seq(Events) /\ holes \subseteq holes'
    BY <1>0, <1>11, <2>1, DeliverFacts, Appended DEF AppCustom
  <2>3. Shape'
    BY <1>11, <2>2 DEF Shape, AppCustom
  <2> QED BY <1>11, <2>2, <2>3, FrameLemma DEF AppCustom
<1>12. CASE AppAsks
  <2>1. Ev("FETCH") \in Events /\ Ev("RECOVER") \in Events
    BY EventKinds DEF Simple
  <2>2. q' \in Seq(Events)
    BY <1>0, <1>12, <2>1, Appended DEF AppAsks
  <2>3. Shape'
    BY <1>12, <2>2 DEF Shape, AppAsks
  <2> QED BY <1>12, <2>3, FrameLemma DEF AppAsks
<1> QED BY <1>1, <1>2, <1>3, <1>4, <1>5, <1>6, <1>7, <1>8, <1>9, <1>10, <1>11, <1>12

(* The handlers that leave the records alone.                              *)
LEMMA PlainSteps ==
    ASSUME Verified,
           \/ Idle \/ FetchPending \/ Answered \/ CustomRun \/ CustomAnswered \/ Ignored
           \/ CustomReport
    PROVE  Verified'
<1> USE DEF Verified, ctl, work, time, down, stat, net, disk
<1>0. q \in Seq(Events) /\ stash \in Seq(Events) /\ ask \subseteq Jobs \cup {"pending"}
      /\ rec.state \notin {"JOB_EXECUTION", "FETCHING_DOC", "WAITING_DOC"}
      /\ (rec.state \in Sensitive => st = "ERROR")
  BY DEF Shape, Phases
<1>1. CASE Idle
  <2>1. q # <<>> /\ st = "IDLE" /\ phase = "ready"
    BY <1>1 DEF Idle, On
  <2>2. Head(q) \in Events /\ Ev("TRANSITION") \in Events
    BY <1>0, <2>1, HeadOf, EventKinds DEF Simple
  <2>3. /\ q' \in Seq(Events) /\ holes \subseteq holes'
        /\ (st' \in {"FETCHING_PENDING", "JOBS_CHANGED"} /\ rec' = rec) \/ (st' = "ERROR" /\ rec' = Refetch)
    BY <1>0, <1>1, <2>1, <2>2, GoPostFacts DEF Idle
  <2>4. Shape'
    BY <1>1, <2>3 DEF Shape, Idle
  <2>5. Phases'
    BY <1>1, <2>1, <2>3 DEF Phases, Idle, Refetch, Sensitive
  <2>6. Place'
    BY <2>3, PlaceElsewhere DEF Refetch, Sensitive
  <2>7. Sound => Writing' /\ Awaited' /\ Founded'
    BY <1>1, BooksKept DEF Idle
  <2> QED BY <2>3, <2>4, <2>5, <2>6, <2>7 DEF Sound, Astray
<1>2. CASE FetchPending
  <2>1. q # <<>> /\ st = "FETCHING_PENDING" /\ phase = "ready"
    BY <1>2 DEF FetchPending, On
  <2>2. /\ q' \in Seq(Events) /\ holes \subseteq holes'
        /\ (st' = "WAITING_PENDING" /\ rec' = rec) \/ (st' = "FETCHING_PENDING" /\ rec' = Refetch)
    BY <1>0, <1>2, <2>1, LeaveFacts, RetryFacts DEF FetchPending, Go
  <2>3. ask' \subseteq Jobs \cup {"pending"}
    BY <1>0, <1>2 DEF FetchPending, Ask
  <2>4. Shape'
    BY <1>2, <2>2, <2>3 DEF Shape, FetchPending
  <2>5. Phases'
    BY <1>2, <2>1, <2>2 DEF Phases, FetchPending, Refetch, Sensitive
  <2>6. Place'
    BY <2>2, PlaceElsewhere DEF Refetch, Sensitive
  <2>7. Sound => Writing' /\ Awaited' /\ Founded'
    BY <1>2, BooksKept DEF FetchPending
  <2> QED BY <2>2, <2>4, <2>5, <2>6, <2>7 DEF Sound, Astray
<1>3. CASE Answered
  <2>1. q # <<>> /\ st \in {"WAITING_PENDING", "WAITING_DOC"} /\ phase = "ready"
    BY <1>3 DEF Answered, On, Waiting
  <2>2. Head(q) \in Events
    BY <1>0, <2>1, HeadOf
  <2> DEFINE Moves == \/ st = "WAITING_PENDING" /\ st' = "PENDING_RECEIVED" /\ rec' = rec
                      \/ st = "WAITING_DOC" /\ st' = "DOC_RECEIVED" /\ rec' = rec
                      \/ st' \in {st, "ERROR"} /\ rec' = Refetch
  <2>5. q' \in Seq(Events) /\ holes \subseteq holes' /\ Moves
    <3>1. CASE On("WAITING_PENDING", "PENDING_ACC") /\ GoPost("PENDING_RECEIVED", Head(q))
      BY <1>0, <2>1, <2>2, <3>1, GoPostFacts DEF On
    <3>2. CASE On("WAITING_DOC", "DOC_ACC") /\ GoPost("DOC_RECEIVED", Head(q))
      BY <1>0, <2>1, <2>2, <3>2, GoPostFacts DEF On
    <3>3. CASE rec' = Refetch /\ q' = Append(Tail(q), Ev("ERROR")) /\ UNCHANGED <<st, backoff, faults>>
               /\ holes' = holes \cup {"rejected"}
      BY <1>0, <2>1, <3>3, Errors
    <3>4. CASE Retry(st)
      BY <1>0, <2>1, <3>4, RetryFacts
    <3> QED BY <1>3, <3>1, <3>2, <3>3, <3>4 DEF Answered
  <2>6. Shape'
    BY <1>3, <2>5 DEF Shape, Answered
  <2>7. Phases'
    BY <1>3, <2>1, <2>5 DEF Phases, Answered, Refetch, Sensitive
  <2>8. Sound => Place'
    BY <1>0, <1>3, <2>1, <2>5 DEF Sound, Place, Within, Typed, Answered, Refetch, Sensitive
  <2>9. Sound => Writing' /\ Awaited' /\ Founded'
    BY <1>3, BooksKept DEF Answered
  <2> QED BY <2>5, <2>6, <2>7, <2>8, <2>9 DEF Sound, Astray
<1>4. CASE CustomRun
  <2>1. q # <<>> /\ st = "CUSTOM_EXECUTION" /\ phase = "ready"
    BY <1>4 DEF CustomRun, On
  <2>2. Custom("FAILED") \in Events /\ Custom("REJECTED") \in Events
    BY EventKinds DEF Final
  <2>3. /\ q' \in Seq(Events) /\ holes \subseteq holes'
        /\ (st' = st /\ rec' = rec) \/ (st' = "ERROR" /\ rec' = Refetch)
    BY <1>0, <1>4, <2>1, <2>2, GoPostFacts, LeaveFacts DEF CustomRun, Go
  <2>4. Shape'
    <3>1. app' \in [final : Jobs \cup {None}, custom : Jobs \cup {None}]
      BY <1>4 DEF Shape, CustomRun, Fields
    <3> QED BY <1>4, <2>3, <3>1 DEF Shape, CustomRun
  <2>5. Phases'
    BY <1>4, <2>1, <2>3 DEF Phases, CustomRun, Refetch, Sensitive
  <2>6. Sound => Place'
    BY <1>4, <2>1, <2>3 DEF Sound, Place, Within, Typed, CustomRun, Refetch, Sensitive
  <2>7. Sound => Writing' /\ Awaited' /\ Founded'
    BY <1>4, BooksKept DEF CustomRun
  <2> QED BY <2>3, <2>4, <2>5, <2>6, <2>7 DEF Sound, Astray
<1>5. CASE CustomAnswered
  <2>1. q # <<>> /\ st = "CUSTOM_EXECUTION" /\ phase = "ready"
    BY <1>5 DEF CustomAnswered, On
  <2>2. Ev("FETCH") \in Events
    BY EventKinds DEF Simple
  <2>3. /\ q' \in Seq(Events) /\ holes \subseteq holes'
        /\ (st' \in {st, "IDLE"} /\ rec' = rec) \/ (st' = "ERROR" /\ rec' = Refetch)
    BY <1>0, <1>5, <2>1, <2>2, ResetPostFacts, LeaveFacts DEF CustomAnswered, Go
  <2>4. Shape'
    BY <1>5, <2>3 DEF Shape, CustomAnswered
  <2>5. Phases'
    BY <1>5, <2>1, <2>3 DEF Phases, CustomAnswered, Refetch, Sensitive
  <2>6. Sound => Place'
    BY <1>5, <2>1, <2>3 DEF Sound, Place, Within, Typed, CustomAnswered, Refetch, Sensitive
  <2>7. Sound => Writing' /\ Awaited' /\ Founded'
    BY <1>5, BooksKept DEF CustomAnswered
  <2> QED BY <2>3, <2>4, <2>5, <2>6, <2>7 DEF Sound, Astray
<1>6. CASE Ignored
  <2>1. q' \in Seq(Events) /\ holes \subseteq holes' /\ st' = st /\ rec' = rec
    BY <1>0, <1>6, LeaveFacts DEF Ignored, Go
  <2>2. Shape'
    BY <1>6, <2>1 DEF Shape, Ignored
  <2> QED BY <1>6, <2>1, <2>2, FrameLemma DEF Ignored
<1>7. CASE CustomReport
  <2>1. q # <<>> /\ st = "CUSTOM_EXECUTION" /\ phase = "ready" /\ Head(q).ev = "CUSTOM"
    BY <1>7 DEF CustomReport, On
  <2>2. Head(q).res \in Final \cup {"IN_PROGRESS"}
    BY <1>0, <2>1, HeadOf, EventFacts
  <2> DEFINE s == Head(q).res
  <2>3. \/ /\ IF s \in Final THEN cached' = [cached EXCEPT ![job.id] = s] ELSE cached' = cached
           /\ job' = [job EXCEPT !.status = s] /\ st' = st /\ rec' = rec
           /\ q' \in Seq(Events) /\ holes' = holes
        \/ /\ st' = "ERROR" /\ rec'.state = st /\ rec'.event = "ERROR" /\ UNCHANGED <<cached, job>>
           /\ q' \in Seq(Events) /\ holes \subseteq holes'
    <3>1. CASE /\ IF s \in Final THEN Report(job.id, s) /\ UNCHANGED prog
                  ELSE Progress(job.id) /\ UNCHANGED cached
               /\ job' = [job EXCEPT !.status = s]
               /\ Go(st) /\ UNCHANGED backoff
      <4>1. st' = st /\ q' \in Seq(Events) /\ holes' = holes \cup {} /\ rec' = rec
        BY <1>0, <2>1, <3>1, LeaveFacts DEF Go
      <4> QED BY <3>1, <4>1 DEF Report
    <3>2. CASE RetryHere(st, {}) /\ UNCHANGED <<stat, job>>
      BY <1>0, <2>1, <3>2, RetryHereFacts
    <3> QED BY <1>7, <3>1, <3>2 DEF CustomReport
  <2>4. Shape'
    <3>1. job' \in Fields
      BY <2>2, <2>3 DEF Shape, Fields
    <3>2. cached' \in [Jobs -> Final \cup {None}]
      BY <2>2, <2>3 DEF Shape
    <3> QED BY <1>7, <2>3, <3>1, <3>2 DEF Shape, CustomReport
  <2>5. Phases'
    BY <1>7, <2>1, <2>3 DEF Phases, CustomReport, Sensitive
  <2>6. /\ job'.id = job.id /\ job'.ft = job.ft /\ job'.handler = job.handler
        /\ job'.pending = job.pending
    BY <2>3 DEF Shape, Fields
  <2>7. Sound => Place'
    BY <1>7, <2>1, <2>3, <2>6 DEF Sound, Place, Within, Typed, CustomReport, Sensitive
  <2>8. Sound => Writing' /\ Awaited'
    BY <1>7 DEF CustomReport, Sound, Writing, Awaited
  <2>9. Sound => Founded'
    <3>1. Sound => doc[job.id].kind = "custom"
      BY <2>1 DEF Sound, Place, Within
    <3>2. \A j \in Jobs : j # job.id => cached'[j] = cached[j]
      BY <2>3 DEF Shape
    <3> QED BY <1>7, <3>1, <3>2 DEF CustomReport, Sound, Founded, Firmware
  <2> QED BY <2>3, <2>4, <2>5, <2>7, <2>8, <2>9 DEF Sound, Astray
<1> QED BY <1>1, <1>2, <1>3, <1>4, <1>5, <1>6, <1>7

-----------------------------------------------------------------------------
(* The handlers, one by one.                                               *)

(* ERROR entered, and the way back from it,                                *)
LEMMA ErrorStep ==
    ASSUME Verified, ErrorOccurred
    PROVE  Verified'
<1> USE DEF Verified, work, time, down, stat, net, disk
<1>0. q \in Seq(Events) /\ q # <<>> /\ phase = "ready"
  BY DEF Shape, ErrorOccurred
<1>1. st' = "ERROR" /\ q' \in Seq(Events) /\ holes \subseteq holes' /\ rec' = rec
  BY <1>0, LeaveFacts DEF ErrorOccurred
<1>2. \/ cached' = cached /\ job' = job
      \/ cached' = [cached EXCEPT ![job.id] = "FAILED"]
         /\ job' = [job EXCEPT !.active = FALSE, !.status = "FAILED"]
  BY DEF ErrorOccurred, Report
<1>3. job' \in Fields /\ cached' \in [Jobs -> Final \cup {None}]
      /\ job'.id = job.id /\ job'.ft = job.ft /\ job'.handler = job.handler
      /\ job'.pending = job.pending
  BY <1>2 DEF Shape, Fields, Final
<1>4. Shape'
  BY <1>1, <1>3 DEF Shape, ErrorOccurred
<1>5. Phases'
  BY <1>0, <1>1 DEF Phases, ErrorOccurred
<1>6. Sound => Place'
  BY <1>0, <1>1, <1>3 DEF Sound, Phases, Place, Within, Typed, ErrorOccurred, Sensitive
<1>7. Sound => Writing' /\ Awaited' /\ Founded'
  <2>1. \A j \in Jobs : cached'[j] = "SUCCEEDED" => cached[j] = "SUCCEEDED"
    BY <1>2 DEF Shape
  <2> QED BY <2>1, BooksKept DEF ErrorOccurred
<1> QED BY <1>1, <1>4, <1>5, <1>6, <1>7 DEF Sound, Astray

(* by the recovery or the timer.                                           *)
LEMMA RecoveryStep ==
    ASSUME Verified, Recovery
    PROVE  Verified'
<1> USE DEF Verified, work, time, down, stat, net, disk
<1>0. q \in Seq(Events) /\ q # <<>> /\ phase = "ready" /\ st = "ERROR"
  BY DEF Shape, Recovery, On
<1>1. Ev(rec.event) \in Events
  BY EventKinds DEF Simple, Phases
<1>2. /\ q' \in Seq(Events) /\ holes' = holes
      /\ \/ st' = rec.state /\ rec' = NoRecovery
         \/ st' = st /\ rec' = rec
  BY <1>0, <1>1, HeadOf, Appended DEF Recovery
<1>3. Shape'
  BY <1>2 DEF Shape, Recovery
<1>4. Phases'
  BY <1>0, <1>2 DEF Phases, Recovery, NoRecovery, Sensitive
<1>5. Sound => Place'
  BY <1>0, <1>2 DEF Sound, Phases, Place, Within, Typed, Recovery, Sensitive, NoRecovery
<1>6. Sound => Writing' /\ Awaited' /\ Founded'
  BY BooksKept DEF Recovery
<1> QED BY <1>2, <1>3, <1>4, <1>5, <1>6 DEF Sound, Astray

(* NETWORK_INIT ends in REBOOT_CHECK with the job of the flash.            *)
LEMMA NetworkInitStep ==
    ASSUME Verified, NetworkInit
    PROVE  Verified'
<1> USE DEF Verified, time, down, stat
<1>0. /\ q \in Seq(Events) /\ q # <<>> /\ phase = "ready" /\ st = "NETWORK_INIT"
      /\ job \in Fields /\ nvs \in Pendings
  BY DEF Shape, NetworkInit, On
<1>1. Ev("TRANSITION") \in Events
  BY EventKinds DEF Simple
<1>2. NoPending \in Pendings
  BY JobsAssumption DEF NoPending, Pendings
<1>3. /\ q' \in Seq(Events) /\ holes \subseteq holes'
      /\ \/ st' = "IDLE" /\ rec' = rec /\ job' = job /\ (nvs' = nvs \/ nvs' = NoPending)
         \/ st' = "REBOOT_CHECK" /\ rec' = rec /\ nvs' = nvs /\ nvs.job # None
            /\ job' = [job EXCEPT !.id = nvs.job, !.ft = nvs.ft]
         \/ st' = "ERROR" /\ rec'.state = "NETWORK_INIT" /\ rec'.event = "TRANSITION" /\ job' = job /\ nvs' = nvs
  <2>1. Append(Tail(q), Ev("TRANSITION")) \in Seq(Events) /\ Append(Tail(q), Ev("ERROR")) \in Seq(Events)
    BY <1>0, <1>1, HeadOf, Appended, Errors
  <2>2. Leave("REBOOT_CHECK", {}) =>
           st' = "REBOOT_CHECK" /\ q' \in Seq(Events) /\ holes \subseteq holes' /\ rec' = rec
    BY <1>0, LeaveFacts
  <2> QED BY <2>1, <2>2 DEF NetworkInit, Go
<1>4. Shape'
  <2>1. job' \in Fields /\ nvs' \in Pendings
    BY <1>0, <1>2, <1>3 DEF Fields, Pendings
  <2> QED BY <1>3, <2>1 DEF Shape, NetworkInit
<1>5. Phases'
  BY <1>0, <1>3 DEF Phases, NetworkInit, Sensitive
<1>6. Sound => Place'
  <2>1. CASE st' \in {"IDLE", "ERROR"}
    BY <1>0, <1>3, <2>1, PlaceElsewhere DEF Phases, Sensitive
  <2>2. CASE st' = "REBOOT_CHECK"
    <3>1. job'.id \in Jobs /\ job'.id = nvs'.job /\ job'.ft = nvs'.ft
      BY <1>0, <1>3, <2>2 DEF Fields, Pendings
    <3> QED BY <2>2, <3>1 DEF Place, Within
  <2> QED BY <1>3, <2>1, <2>2
<1>7. Sound => Writing' /\ Awaited' /\ Founded'
  <2>1. CASE nvs' = nvs
    BY <2>1, BooksKept DEF NetworkInit
  <2>2. CASE nvs' = NoPending
    BY <2>2 DEF NetworkInit, Sound, Writing, Awaited, Founded, Firmware, NoPending
  <2> QED BY <1>3, <2>1, <2>2
<1> QED BY <1>3, <1>4, <1>5, <1>6, <1>7 DEF Sound, Astray

(* REBOOT_CHECK takes a final status,                                      *)
LEMMA RebootCheckFinalStep ==
    ASSUME Verified, RebootCheckFinal
    PROVE  Verified'
<1> USE DEF Verified, time, down, net, disk
<1>0. /\ q \in Seq(Events) /\ q # <<>> /\ phase = "ready" /\ st = "REBOOT_CHECK"
      /\ Head(q).ev = "FINAL" /\ job \in Fields
  BY DEF Shape, RebootCheckFinal, On
<1> DEFINE s == Head(q).res
<1>1. s \in Final
  BY <1>0, HeadOf, EventFacts
<1>2. \/ /\ cached' = [cached EXCEPT ![job.id] = s]
         /\ job' = [job EXCEPT !.status = s]
         /\ st' = st /\ rec' = rec /\ q' \in Seq(Events) /\ holes' = holes \cup Unfounded(s)
      \/ /\ st' = "ERROR" /\ rec'.state = st /\ rec'.event = "ERROR" /\ q' \in Seq(Events) /\ holes \subseteq holes'
         /\ UNCHANGED <<cached, job>>
  BY <1>0, LeaveFacts, RetryHereFacts DEF RebootCheckFinal, Report
<1>3. /\ job' \in Fields /\ cached' \in [Jobs -> Final \cup {None}] /\ q' \in Seq(Events)
      /\ job'.id = job.id /\ job'.ft = job.ft /\ job'.handler = job.handler
      /\ job'.pending = job.pending /\ holes \subseteq holes'
  BY <1>0, <1>1, <1>2 DEF Shape, Fields
<1>4. Shape'
  BY <1>3 DEF Shape, RebootCheckFinal
<1>5. Phases'
  BY <1>0, <1>2 DEF Phases, RebootCheckFinal, Sensitive
<1>6. Sound => Place'
  BY <1>0, <1>2, <1>3 DEF Sound, Phases, Place, Within, Typed, RebootCheckFinal, Sensitive
<1>7. Sound => Writing' /\ Awaited'
  BY DEF RebootCheckFinal, Sound, Writing, Awaited
<1>8. Sound /\ ~Astray' => Founded'
  <2> SUFFICES ASSUME Sound, ~Astray'
               PROVE  Founded'
    OBVIOUS
  <2>1. CASE cached' = cached
    BY <2>1 DEF RebootCheckFinal, Sound, Founded, Firmware
  <2>2. CASE cached' = [cached EXCEPT ![job.id] = s] /\ holes' = holes \cup Unfounded(s)
    <3>1. \A j \in Jobs : cached'[j] = "SUCCEEDED" => cached[j] = "SUCCEEDED" \/ (j = job.id /\ s = "SUCCEEDED")
      BY <2>2 DEF Shape
    <3>2. s = "SUCCEEDED" => job.ft # Main
      BY <2>2 DEF Unfounded, Astray
    <3>3. job.ft = doc[job.id].type
      BY <1>0, JobsAssumption DEF Sound, Place, Within, Awaited
    <3> QED BY <3>1, <3>2, <3>3 DEF RebootCheckFinal, Sound, Founded, Firmware
  <2> QED BY <1>2, <2>1, <2>2
<1> QED BY <1>3, <1>4, <1>5, <1>6, <1>7, <1>8 DEF Sound, Astray

(* or the verdict from the flash,                                          *)
LEMMA RebootCheckStep ==
    ASSUME Verified, RebootCheck
    PROVE  Verified'
<1> USE DEF Verified, time, down, net, disk
<1>0. /\ q \in Seq(Events) /\ q # <<>> /\ phase = "ready" /\ st = "REBOOT_CHECK"
      /\ job \in Fields /\ nvs \in Pendings
  BY DEF Shape, RebootCheck, On
<1>2. /\ q' \in Seq(Events) /\ holes \subseteq holes'
      /\ \/ st' = st /\ rec' = rec
         \/ st' = "ERROR" /\ rec'.state = st /\ rec'.event = "ERROR"
      /\ \/ cached' = cached /\ job' = job
         \/ \E s \in {"SUCCEEDED", "FAILED"} :
               /\ cached' = [cached EXCEPT ![job.id] = s] /\ job' = [job EXCEPT !.status = s]
               /\ s = "SUCCEEDED" => job.ft = Main /\ nvs.checked /\ nvs.passed
  <2>1. Tail(q) \in Seq(Events)
    BY <1>0, HeadOf
  <2> QED BY <1>0, <2>1, LeaveFacts, RetryHereFacts DEF RebootCheck, Report, Go
<1>3. /\ job' \in Fields /\ cached' \in [Jobs -> Final \cup {None}]
      /\ job'.id = job.id /\ job'.ft = job.ft /\ job'.handler = job.handler
      /\ job'.pending = job.pending
  <2>2. CASE cached' = cached /\ job' = job
    BY <1>0, <2>2 DEF Shape
  <2>3. ASSUME NEW s \in {"SUCCEEDED", "FAILED"},
               cached' = [cached EXCEPT ![job.id] = s] /\ job' = [job EXCEPT !.status = s]
        PROVE  /\ job' \in Fields /\ cached' \in [Jobs -> Final \cup {None}]
               /\ job'.id = job.id /\ job'.ft = job.ft /\ job'.handler = job.handler
               /\ job'.pending = job.pending
    <3>1. s \in Final
      BY DEF Final
    <3> QED BY <1>0, <2>3, <3>1 DEF Shape, Fields
  <2> QED BY <1>2, <2>2, <2>3
<1>4. Shape'
  BY <1>2, <1>3 DEF Shape, RebootCheck
<1>5. Phases'
  BY <1>0, <1>2 DEF Phases, RebootCheck, Sensitive
<1>6. Sound => Place'
  BY <1>0, <1>2, <1>3 DEF Sound, Phases, Place, Within, Typed, RebootCheck, Sensitive
<1>7. Sound => Writing' /\ Awaited'
  BY DEF RebootCheck, Sound, Writing, Awaited
<1>8. Sound => Founded'
  <2> SUFFICES ASSUME Sound
               PROVE  Founded'
    OBVIOUS
  <2>1. CASE cached' = cached
    BY <2>1 DEF RebootCheck, Sound, Founded, Firmware
  <2>2. ASSUME NEW s \in {"SUCCEEDED", "FAILED"}, cached' = [cached EXCEPT ![job.id] = s],
               s = "SUCCEEDED" => job.ft = Main /\ nvs.checked /\ nvs.passed
        PROVE  Founded'
    <3>1. \A j \in Jobs : cached'[j] = "SUCCEEDED" => cached[j] = "SUCCEEDED" \/ (j = job.id /\ s = "SUCCEEDED")
      BY <2>2 DEF Shape
    <3>2. s = "SUCCEEDED" => job.id \in good
      BY <1>0, <2>2, JobsAssumption DEF Sound, Place, Within, Awaited
    <3> QED BY <3>1, <3>2 DEF RebootCheck, Sound, Founded, Firmware
  <2> QED BY <1>2, <2>1, <2>2
<1> QED BY <1>2, <1>4, <1>5, <1>6, <1>7, <1>8 DEF Sound, Astray

(* and forgets the job once it is answered.                                *)
LEMMA RebootCheckAnsweredStep ==
    ASSUME Verified, RebootCheckAnswered
    PROVE  Verified'
<1> USE DEF Verified, time, down, net
<1>0. /\ q \in Seq(Events) /\ q # <<>> /\ phase = "ready" /\ st = "REBOOT_CHECK"
      /\ job \in Fields /\ nvs \in Pendings
  BY DEF Shape, RebootCheckAnswered, On
<1>1. q' \in Seq(Events) /\ holes \subseteq holes' /\ st' = "IDLE" /\ rec' = rec
  BY <1>0, HeadOf DEF RebootCheckAnswered, Forget
<1>2. /\ nvs' \in {NoPending, nvs} /\ cached' = [cached EXCEPT ![job.id] = None]
      /\ job' = [job EXCEPT !.id = None, !.ft = Main, !.reported = FALSE]
  BY DEF RebootCheckAnswered, Forget
<1>3. job' \in Fields /\ nvs' \in Pendings /\ cached' \in [Jobs -> Final \cup {None}]
  <2>1. NoPending \in Pendings
    BY JobsAssumption DEF NoPending, Pendings
  <2>2. job' \in Fields
    BY <1>0, <1>2, JobsAssumption DEF Fields
  <2> QED BY <1>0, <1>2, <2>1, <2>2 DEF Shape
<1>4. Shape'
  BY <1>1, <1>3 DEF Shape, RebootCheckAnswered
<1>5. Phases'
  BY <1>0, <1>1 DEF Phases, RebootCheckAnswered
<1>6. Place'
  BY <1>0, <1>1, PlaceElsewhere DEF Sensitive
<1>7. Sound => Writing' /\ Awaited'
  <2>1. CASE nvs' = NoPending
    BY <2>1 DEF RebootCheckAnswered, Sound, Writing, Awaited, NoPending
  <2>2. CASE nvs' = nvs
    BY <2>2 DEF RebootCheckAnswered, Sound, Writing, Awaited
  <2> QED BY <1>2, <2>1, <2>2
<1>8. Sound => Founded'
  <2>1. \A j \in Jobs : cached'[j] = "SUCCEEDED" => cached[j] = "SUCCEEDED"
    BY <1>2, JobsAssumption DEF Shape, Final
  <2> QED BY <2>1 DEF RebootCheckAnswered, Sound, Founded, Firmware
<1> QED BY <1>1, <1>4, <1>5, <1>6, <1>7, <1>8 DEF Sound, Astray

(* A list of jobs.                                                         *)
LEMMA JobsListedStep ==
    ASSUME Verified, JobsListed
    PROVE  Verified'
<1> USE DEF Verified, time, down, stat, net, disk
<1>0. /\ q \in Seq(Events) /\ q # <<>> /\ phase = "ready" /\ st \in {"JOBS_CHANGED", "PENDING_RECEIVED"}
      /\ Head(q).ev \in {"JOBS_CHANGED", "PENDING_ACC"} /\ job \in Fields
  BY DEF Shape, JobsListed, On
<1>1. Ev("TRANSITION") \in Events /\ Head(q).list \subseteq Jobs
  BY <1>0, EventKinds, EventFacts, HeadOf DEF Simple
<1>2. /\ q' \in Seq(Events) /\ holes \subseteq holes'
      /\ \/ st' \in {"IDLE", "FETCHING_DOC"} /\ rec' = rec
         \/ st' = "ERROR" /\ rec' = Refetch
  BY <1>0, <1>1, LeaveFacts, GoPostFacts, ResetPostFacts DEF JobsListed, Go
<1>3. job' = [job EXCEPT !.pending = FALSE] /\ ids' = Head(q).list
  BY DEF JobsListed
<1>4. job' \in Fields /\ ~job'.pending
  BY <1>0, <1>3 DEF Fields
<1>5. Shape'
  BY <1>1, <1>2, <1>3, <1>4 DEF Shape, JobsListed
<1>6. Phases'
  BY <1>0, <1>2 DEF Phases, JobsListed, Refetch, Sensitive
<1>7. Place'
  BY <1>0, <1>2, <1>4 DEF Phases, Place, Within, Sensitive, Refetch
<1>8. Sound => Writing' /\ Awaited' /\ Founded'
  BY BooksKept DEF JobsListed
<1> QED BY <1>2, <1>5, <1>6, <1>7, <1>8 DEF Sound, Astray

(* The next job of the list is asked for.                                  *)
LEMMA FetchDocStep ==
    ASSUME Verified, FetchDoc
    PROVE  Verified'
<1> USE DEF Verified, down, stat, disk
<1>0. /\ q \in Seq(Events) /\ q # <<>> /\ phase = "ready" /\ st = "FETCHING_DOC"
      /\ ids \subseteq Jobs /\ ask \subseteq Jobs \cup {"pending"}
  BY DEF Shape, FetchDoc, On
<1>1. Ev("TRANSITION") \in Events
  BY EventKinds DEF Simple
<1>2. /\ q' \in Seq(Events) /\ holes \subseteq holes'
      /\ \/ st' \in {"IDLE", "WAITING_DOC"} /\ rec' = rec
         \/ st' = "JOB_EXECUTION" /\ job.pending /\ rec' = rec
         \/ st' \in {"ERROR", "FETCHING_DOC"} /\ rec' = Refetch
  <2>1. CASE Leave("WAITING_DOC", {}) \/ Leave("IDLE", {})
    BY <1>0, <2>1, LeaveFacts
  <2>2. CASE Retry(st)
    BY <1>0, <2>2, RetryFacts
  <2>3. CASE job.pending /\ GoPost("JOB_EXECUTION", Ev("TRANSITION"))
    BY <1>0, <1>1, <2>3, GoPostFacts
  <2> QED BY <2>1, <2>2, <2>3 DEF FetchDoc, Go
<1>3. ids' \subseteq Jobs /\ ask' \subseteq Jobs \cup {"pending"}
  BY <1>0 DEF FetchDoc, Ask
<1>4. Shape'
  BY <1>2, <1>3 DEF Shape, FetchDoc
<1>5. Phases'
  BY <1>0, <1>2 DEF Phases, FetchDoc, Refetch, Sensitive
<1>6. Sound => Place'
  BY <1>0, <1>2 DEF Sound, Phases, Place, Within, Typed, FetchDoc, Sensitive, Refetch
<1>7. Sound => Writing' /\ Awaited' /\ Founded'
  BY BooksKept DEF FetchDoc
<1> QED BY <1>2, <1>4, <1>5, <1>6, <1>7 DEF Sound, Astray

(* A document gives the job its type and handler, or is refused.           *)
LEMMA DocReceivedStep ==
    ASSUME Verified, DocReceived
    PROVE  Verified'
<1> USE DEF Verified, time, down, net, disk
<1> DEFINE j == Head(q).job
           d == doc[j]
           typed == [job EXCEPT !.ft = d.type, !.handler = IF d.type \in Handlers THEN d.type ELSE @]
           stray == IF job.pending /\ typed # job THEN {"type"} ELSE {}
<1>0. /\ q \in Seq(Events) /\ q # <<>> /\ phase = "ready" /\ st = "DOC_RECEIVED"
      /\ Head(q).ev = "DOC_ACC" /\ job \in Fields
      /\ doc \in [Jobs -> [kind : Kinds, type : Types, fw : Nat]]
      /\ cached \in [Jobs -> Final \cup {None}]
  BY DEF Shape, DocReceived, On
<1>1. Ev("TRANSITION") \in Events /\ Ev("CUSTOM_RUN") \in Events /\ j \in Jobs
  BY <1>0, EventKinds, EventFacts, HeadOf DEF Simple
<1>2. d.type \in Types /\ d.fw \in Nat
  BY <1>0, <1>1
<1>3. typed \in Fields /\ typed.id = job.id /\ typed.pending = job.pending
  BY <1>0, <1>2 DEF Fields
<1> HIDE DEF j, d, typed, stray
<1>4. \/ /\ job' = typed /\ cached' = [cached EXCEPT ![j] = "REJECTED"] /\ ids' = ids
         /\ q' \in Seq(Events) /\ holes \subseteq holes'
         /\ \/ st' = "FETCHING_DOC" /\ rec' = rec /\ holes' = holes \cup stray
            \/ st' = "ERROR" /\ rec' = Refetch
      \/ /\ job' = typed /\ UNCHANGED <<cached, ids>>
         /\ q' \in Seq(Events) /\ holes \subseteq holes'
         /\ \/ st' = "FETCHING_DOC" /\ rec' = rec /\ holes' = holes \cup stray
            \/ st' = "ERROR" /\ rec' = Refetch
            \/ st' = "ERROR" /\ rec' = NoRecovery
            \/ /\ st' = "ERROR" /\ rec'.state = "DOC_RECEIVED" /\ rec'.event = "ERROR"
               /\ stray \subseteq holes'
      \/ /\ job' = Choose(j) /\ UNCHANGED <<cached, ids>> /\ d.kind # "custom"
         /\ q' \in Seq(Events) /\ holes \subseteq holes'
         /\ \/ st' = "FETCHING_DOC" /\ rec' = rec
            \/ st' = "ERROR" /\ rec' = Refetch
         /\ d.type \in Handlers
      \/ /\ job' = [job EXCEPT !.id = j] /\ ids' = {} /\ cached' = cached
         /\ q' \in Seq(Events) /\ holes \subseteq holes' /\ d.kind = "custom"
         /\ \/ st' = "CUSTOM_EXECUTION" /\ rec' = rec
            \/ st' = "ERROR" /\ rec' = Refetch
  <2> DEFINE rejected == d.type \notin Handlers \/ d.kind = "bad" \/ TooOld(j)
             ignored == ~rejected /\ job.pending /\ d.fw < job.fw
             fetch == Ev("TRANSITION")
  <2>1. \/ /\ job' = typed /\ UNCHANGED ids
           /\ \/ Report(j, "REJECTED") /\ ResetPost("FETCHING_DOC", fetch, stray)
              \/ RetryHere("DOC_RECEIVED", stray) /\ UNCHANGED cached
              \/ Stop(NoRecovery, {"memory"} \cup stray) /\ UNCHANGED cached
        \/ /\ job' = typed
           /\ ResetPost("FETCHING_DOC", fetch, stray) /\ UNCHANGED <<cached, ids>>
        \/ /\ d.kind # "custom" /\ d.type \in Handlers
           /\ \/ job' = Choose(j) /\ ResetPost("FETCHING_DOC", fetch, {})
              \/ job' = typed /\ Stop(Refetch, {"memory"} \cup stray)
           /\ UNCHANGED <<cached, ids>>
        \/ /\ d.kind = "custom"
           /\ job' = [job EXCEPT !.id = j] /\ ids' = {}
           /\ ResetPost("CUSTOM_EXECUTION", Ev("CUSTOM_RUN"), {}) /\ UNCHANGED cached
    BY ZenonT(60) DEF DocReceived, j, d, typed, stray
  <2>2. ResetPost("FETCHING_DOC", fetch, stray) =>
           /\ q' \in Seq(Events) /\ holes \subseteq holes'
           /\ \/ st' = "FETCHING_DOC" /\ rec' = rec /\ holes' = holes \cup stray
              \/ st' = "ERROR" /\ rec' = Refetch
    BY <1>0, <1>1, ResetPostFacts
  <2>3. ResetPost("FETCHING_DOC", fetch, {}) =>
           /\ q' \in Seq(Events) /\ holes \subseteq holes'
           /\ \/ st' = "FETCHING_DOC" /\ rec' = rec
              \/ st' = "ERROR" /\ rec' = Refetch
    BY <1>0, <1>1, ResetPostFacts
  <2>4. ResetPost("CUSTOM_EXECUTION", Ev("CUSTOM_RUN"), {}) =>
           /\ q' \in Seq(Events) /\ holes \subseteq holes'
           /\ \/ st' = "CUSTOM_EXECUTION" /\ rec' = rec
              \/ st' = "ERROR" /\ rec' = Refetch
    BY <1>0, <1>1, ResetPostFacts
  <2>5. RetryHere("DOC_RECEIVED", stray) =>
           /\ q' \in Seq(Events) /\ holes \subseteq holes' /\ stray \subseteq holes'
           /\ st' = "ERROR" /\ rec'.state = "DOC_RECEIVED" /\ rec'.event = "ERROR"
    BY <1>0, RetryHereFacts
  <2>6. Stop(NoRecovery, {"memory"} \cup stray) =>
           q' \in Seq(Events) /\ holes \subseteq holes' /\ st' = "ERROR" /\ rec' = NoRecovery
    BY <1>0, StopFacts
  <2>7. Stop(Refetch, {"memory"} \cup stray) =>
           q' \in Seq(Events) /\ holes \subseteq holes' /\ st' = "ERROR" /\ rec' = Refetch
    BY <1>0, StopFacts
  <2> HIDE DEF rejected, ignored, fetch
  <2> QED BY <2>1, <2>2, <2>3, <2>4, <2>5, <2>6, <2>7 DEF Report
<1>5. Choose(j) \in Fields /\ [job EXCEPT !.id = j] \in Fields
  BY <1>0, <1>1, <1>2 DEF Fields, Choose, d
<1>6. job' \in Fields /\ cached' \in [Jobs -> Final \cup {None}] /\ ids' \subseteq Jobs
  <2>1. [cached EXCEPT ![j] = "REJECTED"] \in [Jobs -> Final \cup {None}]
    BY <1>0 DEF Final
  <2>2. ids \subseteq Jobs
    BY DEF Shape
  <2> QED BY <1>0, <1>3, <1>4, <1>5, <2>1, <2>2
<1>7. Shape'
  BY <1>4, <1>6 DEF Shape, DocReceived
<1>8. Phases'
  BY <1>0, <1>4 DEF Phases, DocReceived, Refetch, NoRecovery, Sensitive
<1>9. Sound /\ ~Astray' => Place'
  <2> SUFFICES ASSUME Sound, ~Astray'
               PROVE  Place'
    OBVIOUS
  <2>1. CASE job' = typed /\ (st' = "FETCHING_DOC" \/ (st' = "ERROR" /\ rec'.state = "DOC_RECEIVED"))
             /\ stray \subseteq holes'
    <3>1. stray = {}
      BY <2>1 DEF stray, Astray
    <3>2. job.pending => typed = job
      BY <3>1 DEF stray
    <3>3. job'.pending => Typed'
      BY <1>0, <1>3, <2>1, <3>2 DEF Sound, Place, Within, Typed, DocReceived
    <3> QED BY <1>0, <2>1, <3>3 DEF Place, Within
  <2>2. CASE job' = Choose(j) /\ st' = "FETCHING_DOC" /\ d.kind # "custom"
    <3>1. Typed'
      BY <1>0, <1>1, <1>2, <2>2 DEF Typed, Choose, d, Fields, DocReceived
    <3> QED BY <2>2, <3>1 DEF Place, Within
  <2>3. CASE job' = [job EXCEPT !.id = j] /\ st' = "CUSTOM_EXECUTION" /\ d.kind = "custom"
    <3>1. job'.id \in Jobs /\ doc'[job'.id].kind = "custom"
      BY <1>0, <1>1, <2>3 DEF Fields, d, DocReceived
    <3> QED BY <2>3, <3>1 DEF Place, Within
  <2>4. CASE st' = "ERROR" /\ (rec' = Refetch \/ rec' = NoRecovery)
    BY <2>4, PlaceElsewhere DEF Refetch, NoRecovery, Sensitive
  <2> QED BY <1>4, <2>1, <2>2, <2>3, <2>4
<1>10. Sound => Writing' /\ Awaited' /\ Founded'
  <2>1. \A k \in Jobs : cached'[k] = "SUCCEEDED" => cached[k] = "SUCCEEDED"
    BY <1>0, <1>4
  <2> QED BY <2>1, BooksKept DEF DocReceived
<1>11. holes \subseteq holes'
  BY <1>4
<1> QED BY <1>7, <1>8, <1>9, <1>10, <1>11 DEF Sound, Astray

(* A download starts, and the record of an older image is cleared.         *)
LEMMA StartJobStep ==
    ASSUME Verified, StartJob
    PROVE  Verified'
<1> USE DEF Verified, time, net
<1>0. /\ q \in Seq(Events) /\ q # <<>> /\ phase = "ready" /\ st = "JOB_EXECUTION"
      /\ job \in Fields /\ boot \in Slots
  BY DEF Shape, StartJob
<1>1. Outcome("FAILED") \in Events
  BY EventKinds DEF Final
<1> DEFINE clash == IF job.handler = Main /\ (nvs.job # None \/ boot.trial) THEN {"mixed"} ELSE {}
<1>2. \/ /\ dl' = [job |-> job.id, by |-> job.handler, told |-> FALSE]
         /\ boot' = IF job.handler = Main THEN [boot EXCEPT !.slot = None, !.rolled = FALSE] ELSE boot
         /\ q' \in Seq(Events) /\ st' = st /\ rec' = rec /\ holes' = holes \cup clash
      \/ /\ UNCHANGED <<dl, boot>> /\ q' \in Seq(Events) /\ holes \subseteq holes'
         /\ \/ st' = "POST_DOWNLOAD" /\ rec' = rec
            \/ st' = "ERROR" /\ rec' = Refetch
  BY <1>0, <1>1, LeaveFacts, GoPostFacts DEF StartJob
<1>3. /\ job' \in Fields /\ job'.id = job.id /\ job'.ft = job.ft /\ job'.handler = job.handler
      /\ job'.pending = job.pending
  BY <1>0 DEF StartJob, Started, Fields
<1>4. /\ boot' \in Slots /\ holes \subseteq holes'
      /\ dl' \in [job : Jobs \cup {None}, by : Types \cup {None}, told : BOOLEAN]
  <2>1. [boot EXCEPT !.slot = None, !.rolled = FALSE] \in Slots
    BY <1>0 DEF Slots
  <2>2. [job |-> job.id, by |-> job.handler, told |-> FALSE]
           \in [job : Jobs \cup {None}, by : Types \cup {None}, told : BOOLEAN]
    BY <1>0 DEF Fields
  <2>3. dl \in [job : Jobs \cup {None}, by : Types \cup {None}, told : BOOLEAN]
    BY DEF Shape
  <2> HIDE DEF clash
  <2> QED BY <1>0, <1>2, <2>1, <2>2, <2>3
<1>5. Shape'
  BY <1>2, <1>3, <1>4 DEF Shape, StartJob
<1>6. Phases'
  BY <1>0, <1>2 DEF Phases, StartJob, Refetch, Sensitive
<1>7. Sound => Place'
  BY <1>0, <1>2, <1>3 DEF Sound, Phases, Place, Within, Typed, StartJob, Sensitive, Refetch
<1>8. Sound /\ ~Astray' => Writing' /\ Awaited' /\ Founded'
  <2> SUFFICES ASSUME Sound, ~Astray'
               PROVE  Writing' /\ Awaited' /\ Founded'
    OBVIOUS
  <2>1. CASE boot' = boot /\ dl'.by # Main
    BY <2>1 DEF StartJob, Sound, Writing, Awaited, Founded, Firmware
  <2>2. CASE UNCHANGED <<dl, boot>>
    BY <2>2, BooksKept DEF StartJob
  <2>3. CASE /\ boot' = [boot EXCEPT !.slot = None, !.rolled = FALSE] /\ job.handler = Main
             /\ holes' = holes \cup clash
    <3>1. nvs.job = None /\ ~boot.trial
      BY <2>3 DEF Astray
    <3>2. boot'.slot = None /\ ~boot'.trial
      BY <1>0, <2>3, <3>1 DEF Slots
    <3> QED BY <3>1, <3>2 DEF StartJob, Sound, Writing, Awaited, Founded, Firmware
  <2> QED BY <1>2, <2>1, <2>2, <2>3
<1> QED BY <1>4, <1>5, <1>6, <1>7, <1>8 DEF Sound, Astray

(* The outcome of a download is queued for the job.                        *)
LEMMA ExecutingStep ==
    ASSUME Verified, Executing
    PROVE  Verified'
<1> USE DEF Verified, time, down, net, disk
<1>0. /\ q \in Seq(Events) /\ q # <<>> /\ phase = "ready" /\ st = "JOB_EXECUTION"
      /\ job \in Fields /\ Head(q) \in Events
  BY HeadOf DEF Shape, Executing
<1>1. Outcome("FAILED") \in Events
  BY EventKinds DEF Final
<1>2. /\ q' \in Seq(Events) /\ holes \subseteq holes'
      /\ \/ st' \in {st, "POST_DOWNLOAD"} /\ rec' = rec
         \/ st' \in {"ERROR", st} /\ rec' = Refetch
      /\ job' = job \/ (Head(q).ev = "FINAL" /\ job' = [job EXCEPT !.queued = Head(q).res])
  <2>1. CASE Leave(st, {})
    BY <1>0, <2>1, LeaveFacts DEF Executing
  <2>2. CASE ResetPost("POST_DOWNLOAD", Head(q), {})
    BY <1>0, <2>2, ResetPostFacts DEF Executing
  <2>3. CASE GoPost("POST_DOWNLOAD", Outcome("FAILED"))
    BY <1>0, <1>1, <2>3, GoPostFacts DEF Executing
  <2>4. CASE Retry(st)
    BY <1>0, <2>4, RetryFacts DEF Executing
  <2> QED BY <2>1, <2>2, <2>3, <2>4 DEF Executing, Go
<1>3. /\ job' \in Fields /\ job'.id = job.id /\ job'.ft = job.ft /\ job'.handler = job.handler
      /\ job'.pending = job.pending
  BY <1>0, <1>2, EventFacts DEF Fields
<1>5. Shape'
  BY <1>2, <1>3 DEF Shape, Executing
<1>6. Phases'
  BY <1>0, <1>2 DEF Phases, Executing, Refetch, Sensitive
<1>7. Sound => Place'
  BY <1>0, <1>2, <1>3 DEF Sound, Phases, Place, Within, Typed, Executing, Sensitive, Refetch
<1>8. Sound => Writing' /\ Awaited' /\ Founded'
  BY BooksKept DEF Executing
<1> QED BY <1>2, <1>5, <1>6, <1>7, <1>8 DEF Sound, Astray

(* What the bootloader makes of the slots.                                 *)
LEMMA BootedFacts ==
    ASSUME boot \in Slots
    PROVE  /\ Booted(boot) \in Slots /\ Booted(boot).slot = None
           /\ boot.slot # None => Booted(boot).trial /\ Booted(boot).run[Main] = boot.slot
           /\ boot.slot = None /\ boot.trial => ~Booted(boot).trial /\ Booted(boot).rolled
           /\ boot.slot = None /\ ~boot.trial => Booted(boot) = boot
<1>1. Main \in Types
  BY JobsAssumption
<1>2. CASE boot.slot # None
  <2> DEFINE b == [boot EXCEPT !.slot = None, !.prev = boot.run[Main], !.run[Main] = boot.slot, !.trial = TRUE]
  <2>1. b \in Slots /\ b.slot = None /\ b.trial /\ b.run[Main] = boot.slot
    BY <1>1 DEF Slots
  <2>2. Booted(boot) = b
    BY <1>2 DEF Booted
  <2> QED BY <1>2, <2>1, <2>2
<1>3. CASE boot.slot = None /\ boot.trial
  <2> DEFINE b == [boot EXCEPT !.run[Main] = boot.prev, !.trial = FALSE, !.rolled = TRUE]
  <2>1. b \in Slots /\ b.slot = None /\ ~b.trial /\ b.rolled
    BY <1>1, <1>3 DEF Slots
  <2>2. Booted(boot) = b
    BY <1>3 DEF Booted
  <2> QED BY <1>3, <2>1, <2>2
<1>4. CASE boot.slot = None /\ ~boot.trial
  BY <1>4 DEF Booted
<1> QED BY <1>2, <1>3, <1>4 DEF Slots

(* A restart keeps what the flash says true.                               *)
LEMMA RestartStep ==
    ASSUME Verified, Restart(boot), UNCHANGED <<exec, good, doc>>, holes' = holes,
           nvs' = nvs \/ (nvs' = Verdict(FALSE, TRUE) /\ boot.trial)
    PROVE  Verified'
<1> USE DEF Verified
<1>0. /\ phase' = "off" /\ st' = "UNINIT" /\ q' = <<>> /\ rec' = NoRecovery
      /\ job' = NoJob /\ ids' = {} /\ dl' = NoDownload /\ stash' = <<>> /\ cached' = Unreported
      /\ ask' = {} /\ app' = NoReport /\ boot' = Booted(boot)
  BY DEF Restart
<1>1. boot \in Slots /\ nvs \in Pendings
  BY DEF Shape
<1>2. nvs' \in Pendings /\ nvs'.job = nvs.job /\ nvs'.ft = nvs.ft
  BY <1>1 DEF Pendings, Verdict
<1>3. Shape'
  <2>1. NoJob \in Fields
    BY JobsAssumption DEF NoJob, Fields
  <2>2. /\ NoDownload \in [job : Jobs \cup {None}, by : Types \cup {None}, told : BOOLEAN]
        /\ NoReport \in [final : Jobs \cup {None}, custom : Jobs \cup {None}]
        /\ Unreported \in [Jobs -> Final \cup {None}]
    BY DEF NoDownload, NoReport, Unreported
  <2> QED BY <1>0, <1>1, <1>2, <2>1, <2>2, BootedFacts, EmptyQueue DEF Shape
<1>4. Phases'
  BY <1>0, <1>1, BootedFacts DEF Phases, NoRecovery, Sensitive
<1>5. Place'
  BY <1>0, PlaceElsewhere DEF Sensitive
<1>6. Sound => Writing'
  BY <1>0, <1>1, BootedFacts, JobsAssumption DEF Writing, NoDownload
<1>7. Sound => Awaited'
  <2> SUFFICES ASSUME Sound, nvs.job # None
               PROVE  Awaited'
    BY <1>2 DEF Awaited
  <2>1. nvs'.ft = doc'[nvs'.job].type /\ doc'[nvs'.job].kind # "custom"
    BY <1>2 DEF Sound, Awaited
  <2>2. CASE nvs' = nvs
    BY <1>0, <1>1, <2>1, <2>2, BootedFacts DEF Sound, Awaited, Writing
  <2>3. CASE nvs' = Verdict(FALSE, TRUE) /\ boot.trial
    <3>1. nvs'.checked /\ ~nvs'.passed
      BY <1>1, <2>3 DEF Verdict, Pendings
    <3>2. boot.slot = None
      BY <2>3 DEF Sound, Writing
    <3> QED BY <1>0, <1>1, <2>1, <2>3, <3>1, <3>2, BootedFacts DEF Awaited
  <2> QED BY <2>2, <2>3
<1>8. Sound => Founded'
  <2>1. \A j \in Jobs : cached'[j] # "SUCCEEDED"
    BY <1>0, JobsAssumption DEF Unreported, Final
  <2> QED BY <2>1 DEF Sound, Founded, Firmware
<1> QED BY <1>3, <1>4, <1>5, <1>6, <1>7, <1>8 DEF Sound, Astray

(* POST_DOWNLOAD stages the image or reports at once.                      *)
LEMMA PostDownloadStep ==
    ASSUME Verified, PostDownload
    PROVE  Verified'
<1> USE DEF Verified, time, down, net
<1> DEFINE e == Head(q)
           c == IF job.queued = None THEN cached ELSE [cached EXCEPT ![job.id] = job.queued]
           u == Unfounded(job.queued)
           b == IF job.queued = None THEN job ELSE [job EXCEPT !.queued = None, !.status = job.queued]
           staged == [NoPending EXCEPT !.job = job.id, !.ft = IF job.ft = Main THEN nvs.ft ELSE job.ft]
           h1 == IF e.reboot /\ job.ft = Main /\ (boot.slot # job.id \/ nvs.ft # Main)
                 THEN {"mixed"} ELSE u
           h2 == {h \in {"ended", "waiting"} :
                    IF h = "ended" THEN e.ev = "UPD_REJ"
                    ELSE e.ev = "UPD_ACC" /\ \E k \in Jobs \ {job.id} : c[k] # None}
           run == IF job.handler = Main THEN boot ELSE [boot EXCEPT !.run[job.handler] = job.id]
<1>0. /\ q \in Seq(Events) /\ q # <<>> /\ phase = "ready" /\ st = "POST_DOWNLOAD"
      /\ job \in Fields /\ Head(q) \in Events /\ cached \in [Jobs -> Final \cup {None}]
      /\ nvs \in Pendings /\ boot \in Slots
  BY HeadOf DEF Shape, PostDownload
<1>1. Ev("FETCH") \in Events
  BY EventKinds DEF Simple
<1>2. /\ c \in [Jobs -> Final \cup {None}] /\ b \in Fields
      /\ b.id = job.id /\ b.ft = job.ft /\ b.handler = job.handler /\ b.pending = job.pending
  BY <1>0 DEF Fields
<1>3. /\ NoJob \in Fields /\ staged \in Pendings
      /\ staged.job = job.id /\ ~staged.checked /\ staged.ft = IF job.ft = Main THEN nvs.ft ELSE job.ft
  BY <1>0, JobsAssumption DEF NoJob, Fields, NoPending, Pendings
<1>4. /\ run \in Slots /\ run.slot = boot.slot /\ run.trial = boot.trial /\ run.rolled = boot.rolled
      /\ run.run[Main] = boot.run[Main]
  BY <1>0, JobsAssumption DEF Slots, Fields
<1>5. \A j \in Jobs : c[j] = "SUCCEEDED" => cached[j] = "SUCCEEDED" \/ (j = job.id /\ job.queued = "SUCCEEDED")
  BY <1>0
<1> DEFINE Final1 == /\ e.ev = "FINAL" /\ cached' = [c EXCEPT ![job.id] = e.res]
                     /\ job' = [b EXCEPT !.reported = TRUE, !.status = e.res]
                     /\ Leave(st, u \cup Unfounded(e.res)) /\ UNCHANGED <<nvs, boot>>
           NoRoom == \E s \in {"IDLE", st} : RetryHere(s, {}) /\ UNCHANGED <<cached, job, nvs, boot>>
           Stored == /\ e.ev = "DL_OK" /\ cached' = c /\ job' = [b EXCEPT !.reboot = e.reboot]
                     /\ nvs' = IF e.reboot THEN staged ELSE nvs
                     /\ boot' = run /\ Leave(st, h1)
           Unstored == /\ e.ev = "DL_OK" /\ cached' = c /\ job' = [b EXCEPT !.reboot = TRUE]
                       /\ boot' = run /\ q' = Tail(q) /\ holes' = holes \cup u \cup {"flash"}
                       /\ UNCHANGED <<st, rec, nvs>>
           Over == c = Unreported /\ job' = NoJob /\ ResetPost("IDLE", Ev("FETCH"), {})
                   /\ UNCHANGED <<cached, nvs, boot>>
           Stays == cached' = c /\ job' = b /\ Leave(st, u \cup h2) /\ UNCHANGED <<nvs, boot>>
<1>6. Final1 \/ NoRoom \/ Stored \/ Unstored \/ Over \/ Stays
  BY DEF PostDownload
<1>7. UNCHANGED <<phase, ids, dl, stash, ask, exec, good, app, doc>>
  BY DEF PostDownload
<1> HIDE DEF c, u, b, staged, h1, h2, run
<1>8. CASE Final1
  <2>1. e.res \in Final
    BY <1>0, <1>8, EventFacts
  <2>2. st' = st /\ rec' = rec /\ q' \in Seq(Events) /\ holes' = holes \cup (u \cup Unfounded(e.res))
    BY <1>0, <1>8, LeaveFacts
  <2>3. /\ job' \in Fields /\ cached' \in [Jobs -> Final \cup {None}]
        /\ job'.id = job.id /\ job'.ft = job.ft /\ job'.handler = job.handler /\ job'.pending = job.pending
    BY <1>2, <1>8, <2>1 DEF Fields
  <2>4. Shape'
    BY <1>7, <1>8, <2>2, <2>3 DEF Shape
  <2>5. Phases'
    BY <1>7, <1>8, <2>2 DEF Phases
  <2>6. Sound => Place' /\ Writing' /\ Awaited'
    BY <1>7, <1>8, <2>2, <2>3 DEF Sound, Place, Within, Typed, Writing, Awaited
  <2>7. Sound /\ ~Astray' => Founded'
    <3> SUFFICES ASSUME Sound, ~Astray'
                 PROVE  Founded'
      OBVIOUS
    <3>1. job.ft = doc[job.id].type
      BY <1>0 DEF Sound, Place, Within, Typed
    <3>2. (job.queued = "SUCCEEDED" => job.ft # Main) /\ (e.res = "SUCCEEDED" => job.ft # Main)
      BY <2>2 DEF Astray, u, Unfounded
    <3>3. \A j \in Jobs : cached'[j] = "SUCCEEDED" =>
             c[j] = "SUCCEEDED" \/ (j = job.id /\ e.res = "SUCCEEDED")
      BY <1>2, <1>8
    <3> QED BY <1>5, <1>7, <3>1, <3>2, <3>3 DEF Sound, Founded, Firmware
  <2> QED BY <2>2, <2>4, <2>5, <2>6, <2>7 DEF Sound, Astray
<1>9. CASE NoRoom
  <2>1. PICK s \in {"IDLE", st} : RetryHere(s, {}) /\ UNCHANGED <<cached, job, nvs, boot>>
    BY <1>9
  <2>2. /\ st' = "ERROR" /\ q' \in Seq(Events) /\ holes \subseteq holes'
        /\ rec'.state = s /\ rec'.event = "ERROR"
    BY <1>0, <2>1, RetryHereFacts
  <2>3. Shape'
    BY <1>7, <2>1, <2>2 DEF Shape
  <2>4. Phases'
    BY <1>0, <1>7, <2>1, <2>2 DEF Phases
  <2>5. Sound => Place'
    BY <1>0, <1>7, <2>1, <2>2 DEF Sound, Place, Within, Typed
  <2>6. Sound => Writing' /\ Awaited' /\ Founded'
    BY <1>7, <2>1, BooksKept
  <2> QED BY <2>2, <2>3, <2>4, <2>5, <2>6 DEF Sound, Astray
<1>10. CASE Stored
  <2>1. e.reboot \in BOOLEAN
    BY <1>0, <1>10, EventFacts
  <2>2. st' = st /\ rec' = rec /\ q' \in Seq(Events) /\ holes' = holes \cup h1
    BY <1>0, <1>10, LeaveFacts
  <2>3. /\ job' \in Fields
        /\ job'.id = job.id /\ job'.ft = job.ft /\ job'.handler = job.handler /\ job'.pending = job.pending
    BY <1>2, <1>10, <2>1 DEF Fields
  <2>4. Shape'
    BY <1>0, <1>2, <1>3, <1>4, <1>7, <1>10, <2>2, <2>3 DEF Shape
  <2>5. Phases'
    BY <1>0, <1>7, <1>10, <2>2 DEF Phases
  <2>6. Sound => Place'
    BY <1>0, <1>7, <2>2, <2>3 DEF Sound, Phases, Place, Within, Typed, Sensitive
  <2>7. Sound /\ ~Astray' => Writing' /\ Awaited'
    <3> SUFFICES ASSUME Sound, ~Astray'
                 PROVE  Writing' /\ Awaited'
      OBVIOUS
    <3>1. job.id \in Jobs /\ job.ft = doc[job.id].type /\ doc[job.id].kind # "custom"
      BY <1>0 DEF Sound, Place, Within, Typed
    <3>2. CASE ~e.reboot
      BY <1>4, <1>7, <1>10, <3>2 DEF Sound, Writing, Awaited
    <3>3. CASE e.reboot
      <4>1. job.ft = Main => boot.slot = job.id /\ nvs.ft = Main
        BY <2>2, <3>3 DEF h1, Astray
      <4>2. nvs' = staged
        BY <1>10, <3>3
      <4>3. nvs'.ft = job.ft
        BY <1>3, <4>1, <4>2
      <4>4. CASE job.ft = Main
        <5>1. boot'.slot = job.id /\ ~boot'.trial /\ dl.by # Main
          BY <1>4, <1>10, <3>1, <4>1, <4>4, JobsAssumption DEF Sound, Writing
        <5> QED BY <1>3, <1>7, <3>1, <4>2, <4>3, <5>1 DEF Writing, Awaited
      <4>5. CASE job.ft # Main
        BY <1>3, <1>4, <1>7, <1>10, <3>1, <4>2, <4>3, <4>5 DEF Sound, Writing, Awaited
      <4> QED BY <4>4, <4>5
    <3> QED BY <2>1, <3>2, <3>3
  <2>8. Sound /\ ~Astray' => Founded'
    <3> SUFFICES ASSUME Sound, ~Astray'
                 PROVE  Founded'
      OBVIOUS
    <3>1. job.ft = doc[job.id].type
      BY <1>0 DEF Sound, Place, Within, Typed
    <3>2. job.queued = "SUCCEEDED" => job.ft # Main
      BY <2>2 DEF Astray, h1, u, Unfounded
    <3> QED BY <1>5, <1>7, <1>10, <3>1, <3>2 DEF Sound, Founded, Firmware
  <2> QED BY <2>2, <2>4, <2>5, <2>6, <2>7, <2>8 DEF Sound, Astray
<1>13. CASE Unstored
  <2>1. q' \in Seq(Events)
    BY <1>0, <1>13, HeadOf
  <2>2. /\ job' \in Fields
        /\ job'.id = job.id /\ job'.ft = job.ft /\ job'.handler = job.handler /\ job'.pending = job.pending
    BY <1>2, <1>13 DEF Fields
  <2>3. Shape'
    BY <1>2, <1>4, <1>7, <1>13, <2>1, <2>2 DEF Shape
  <2>4. Phases'
    BY <1>0, <1>4, <1>7, <1>13 DEF Phases
  <2>5. Sound => Place'
    BY <1>0, <1>7, <1>13, <2>2 DEF Sound, Phases, Place, Within, Typed, Sensitive
  <2>6. Sound => Writing' /\ Awaited'
    BY <1>4, <1>7, <1>13 DEF Sound, Writing, Awaited
  <2>7. Sound /\ ~Astray' => Founded'
    <3> SUFFICES ASSUME Sound, ~Astray'
                 PROVE  Founded'
      OBVIOUS
    <3>1. job.ft = doc[job.id].type
      BY <1>0 DEF Sound, Place, Within, Typed
    <3>2. job.queued = "SUCCEEDED" => job.ft # Main
      BY <1>13 DEF Astray, u, Unfounded
    <3> QED BY <1>5, <1>7, <1>13, <3>1, <3>2 DEF Sound, Founded, Firmware
  <2> QED BY <1>13, <2>3, <2>4, <2>5, <2>6, <2>7 DEF Sound, Astray
<1>11. CASE Over
  <2>1. /\ q' \in Seq(Events) /\ holes \subseteq holes'
        /\ (st' = "IDLE" /\ rec' = rec) \/ (st' = "ERROR" /\ rec' = Refetch)
    BY <1>0, <1>1, <1>11, ResetPostFacts
  <2>2. Shape'
    BY <1>3, <1>7, <1>11, <2>1 DEF Shape
  <2>3. Phases'
    BY <1>0, <1>7, <1>11, <2>1 DEF Phases, Refetch, Sensitive
  <2>4. Place'
    BY <1>0, <2>1, PlaceElsewhere DEF Refetch, Sensitive
  <2>5. Sound => Writing' /\ Awaited' /\ Founded'
    BY <1>7, <1>11, BooksKept
  <2> QED BY <2>1, <2>2, <2>3, <2>4, <2>5 DEF Sound, Astray
<1>12. CASE Stays
  <2>1. st' = st /\ rec' = rec /\ q' \in Seq(Events) /\ holes' = holes \cup (u \cup h2)
    BY <1>0, <1>12, LeaveFacts
  <2>2. Shape'
    BY <1>2, <1>7, <1>12, <2>1 DEF Shape
  <2>3. Phases'
    BY <1>7, <1>12, <2>1 DEF Phases
  <2>4. Sound => Place' /\ Writing' /\ Awaited'
    BY <1>2, <1>7, <1>12, <2>1 DEF Sound, Place, Within, Typed, Writing, Awaited
  <2>5. Sound /\ ~Astray' => Founded'
    <3> SUFFICES ASSUME Sound, ~Astray'
                 PROVE  Founded'
      OBVIOUS
    <3>1. job.ft = doc[job.id].type
      BY <1>0 DEF Sound, Place, Within, Typed
    <3>2. job.queued = "SUCCEEDED" => job.ft # Main
      BY <2>1 DEF Astray, u, Unfounded
    <3> QED BY <1>5, <1>7, <1>12, <3>1, <3>2 DEF Sound, Founded, Firmware
  <2> QED BY <2>1, <2>2, <2>3, <2>4, <2>5 DEF Sound, Astray
<1> QED BY <1>6, <1>8, <1>9, <1>10, <1>11, <1>12, <1>13

(* The two restarts: asked for,                                            *)
LEMMA RebootStep ==
    ASSUME Verified, Reboot
    PROVE  Verified'
BY RestartStep DEF Reboot

(* suffered,                                                               *)
LEMMA PowerLossStep ==
    ASSUME Verified, PowerLoss
    PROVE  Verified'
BY RestartStep DEF PowerLoss

-----------------------------------------------------------------------------
(* The other threads.                                                      *)

(* A SUBACK starts the machine.                                            *)
LEMMA SubscribedStep ==
    ASSUME Verified, Subscribed
    PROVE  Verified'
<1> USE DEF Verified, work, time, down, stat, disk
<1>0. q \in Seq(Events) /\ phase = "ready"
  BY DEF Shape, Subscribed
<1>1. Ev("FETCH") \in Events /\ Ev("ERROR") \in Events
  BY EventKinds DEF Simple
<1>2. q' \in Seq(Events) /\ (rec' = rec \/ rec' = Refetch)
  BY <1>0, <1>1, Appended DEF Subscribed
<1>3. Shape'
  BY <1>2 DEF Shape, Subscribed
<1>4. Phases'
  BY <1>0, <1>2 DEF Phases, Subscribed, Refetch, Sensitive
<1>5. Sound => Place'
  BY <1>2 DEF Sound, Place, Within, Typed, Subscribed, Refetch
<1>6. Sound => Writing' /\ Awaited' /\ Founded'
  BY BooksKept DEF Subscribed
<1> QED BY <1>3, <1>4, <1>5, <1>6 DEF Sound, Astray, Subscribed

(* What the cloud answers, creates and cancels.                            *)
LEMMA AnswerSteps ==
    ASSUME Verified, NEW j \in Jobs,
           \/ AnswerProgress(j) \/ Settled(j) \/ ProgressLost(j) \/ SettledUnheard(j)
           \/ CreateJob(j) \/ CancelJob(j)
    PROVE  Verified'
<1> USE DEF Verified, ctl, work, time, down, disk, stat, net
<1>0. /\ q \in Seq(Events) /\ cached \in [Jobs -> Final \cup {None}] /\ job \in Fields
      /\ exec \in [Jobs -> Open \cup Final \cup {"NONE", "GONE"}]
  BY DEF Shape
<1>1. Ev("UPD_ACC") \in Events /\ Ev("UPD_REJ") \in Events
  BY EventKinds DEF Simple
<1>2. q' \in Seq(Events) /\ holes \subseteq holes'
  BY <1>0, <1>1, TellFacts
     DEF AnswerProgress, Settled, ProgressLost, SettledUnheard, CreateJob, CancelJob
<1>3. cached' = cached \/ cached' = [cached EXCEPT ![j] = None]
  BY DEF AnswerProgress, Settled, ProgressLost, SettledUnheard, CreateJob, CancelJob
<1>4. \/ exec' = exec
      \/ \E s \in {"IN_PROGRESS", "QUEUED", "GONE"} : exec' = [exec EXCEPT ![j] = s]
      \/ exec' = [exec EXCEPT ![j] = cached[j]] /\ cached[j] # None
  BY DEF AnswerProgress, Settled, ProgressLost, SettledUnheard, CreateJob, CancelJob
<1>5. job' = job \/ job' = [job EXCEPT !.reported = TRUE]
  BY DEF AnswerProgress, Settled, ProgressLost, SettledUnheard, CreateJob, CancelJob
<1>6. UNCHANGED <<phase, st, rec, dl, stash, nvs, boot, good, doc, app, ids, ask>>
  BY DEF AnswerProgress, Settled, ProgressLost, SettledUnheard, CreateJob, CancelJob
<1>7. /\ cached' \in [Jobs -> Final \cup {None}]
      /\ exec' \in [Jobs -> Open \cup Final \cup {"NONE", "GONE"}]
  BY <1>0, <1>3, <1>4 DEF Open
<1>8. /\ job' \in Fields
      /\ job'.id = job.id /\ job'.ft = job.ft /\ job'.handler = job.handler /\ job'.pending = job.pending
  BY <1>0, <1>5 DEF Fields
<1>9. Shape'
  BY <1>2, <1>6, <1>7, <1>8 DEF Shape
<1>10. Phases'
  BY <1>6 DEF Phases
<1>11. Sound => Place'
  BY <1>6, <1>8 DEF Sound, Place, Within, Typed
<1>12. Sound => Writing' /\ Awaited' /\ Founded'
  <2>1. \A k \in Jobs : cached'[k] = "SUCCEEDED" => cached[k] = "SUCCEEDED"
    BY <1>0, <1>3, JobsAssumption DEF Final
  <2>2. \A k \in Jobs : exec'[k] = "SUCCEEDED" => exec[k] = "SUCCEEDED" \/ cached[k] = "SUCCEEDED"
    BY <1>0, <1>4
  <2> QED BY <1>6, <2>1, <2>2, BooksKept
<1> QED BY <1>2, <1>9, <1>10, <1>11, <1>12 DEF Sound, Astray

(* What a download does.                                                   *)
LEMMA DownloadSteps ==
    ASSUME Verified, DownloadProgress \/ DownloadSucceeds \/ DownloadFails
    PROVE  Verified'
<1> USE DEF Verified, work, time, stat, net
<1>0. /\ q \in Seq(Events) /\ stash \in Seq(Events) /\ boot \in Slots
      /\ dl \in [job : Jobs \cup {None}, by : Types \cup {None}, told : BOOLEAN]
      /\ app \in [final : Jobs \cup {None}, custom : Jobs \cup {None}]
  BY DEF Shape
<1>1. CASE DownloadProgress
  <2>1. Ev("PROGRESS") \in Events
    BY EventKinds DEF Simple
  <2>2. q' \in Seq(Events)
    BY <1>0, <1>1, <2>1, Appended DEF DownloadProgress
  <2>3. dl' \in [job : Jobs \cup {None}, by : Types \cup {None}, told : BOOLEAN] /\ dl'.by = dl.by
        /\ dl # NoDownload
    BY <1>0, <1>1 DEF DownloadProgress
  <2>4. Shape'
    BY <1>1, <2>2, <2>3 DEF Shape, DownloadProgress, disk
  <2>5. Phases'
    BY <1>1, <2>3 DEF Phases, DownloadProgress, disk
  <2>6. Sound => Place'
    BY <1>1 DEF Sound, Place, Within, Typed, DownloadProgress, disk
  <2>7. Sound => Writing' /\ Awaited' /\ Founded'
    BY <1>1, <2>3, BooksKept DEF DownloadProgress, disk
  <2> QED BY <1>1, <2>4, <2>5, <2>6, <2>7 DEF Sound, Astray, DownloadProgress
<1>2. CASE DownloadFails
  <2>1. Ev("DL_FAILED") \in Events /\ Ev("TIMEOUT") \in Events
    BY EventKinds DEF Simple
  <2>2. q' \in Seq(Events) /\ stash' \in Seq(Events) /\ dl' = NoDownload
    BY <1>0, <1>2, <2>1, TerminalFacts DEF DownloadFails
  <2>3. NoDownload \in [job : Jobs \cup {None}, by : Types \cup {None}, told : BOOLEAN]
    BY DEF NoDownload
  <2>4. Shape'
    BY <1>2, <2>2, <2>3 DEF Shape, DownloadFails, disk
  <2>5. Phases'
    BY <1>2, <2>2 DEF Phases, DownloadFails, disk
  <2>6. Sound => Place'
    BY <1>2 DEF Sound, Place, Within, Typed, DownloadFails, disk
  <2>7. Sound => Writing' /\ Awaited' /\ Founded'
    BY <1>2, <2>2, JobsAssumption
       DEF DownloadFails, disk, Sound, Writing, Awaited, Founded, Firmware, NoDownload
  <2> QED BY <1>2, <2>4, <2>5, <2>6, <2>7 DEF Sound, Astray, DownloadFails
<1>3. CASE DownloadSucceeds
  <2>1. /\ \A b \in BOOLEAN : [ev |-> "DL_OK", reboot |-> b] \in Events
        /\ Outcome("SUCCEEDED") \in Events /\ Outcome("FAILED") \in Events
    BY EventKinds DEF Final
  <2>2. /\ q' \in Seq(Events) /\ stash' \in Seq(Events) /\ dl' = NoDownload
        /\ holes \subseteq holes'
    <3> DEFINE ok(b) == [ev |-> "DL_OK", reboot |-> b]
    <3>1. CASE /\ \/ \E b \in BOOLEAN : PostTerminal(<<ok(b)>>)
                  \/ \E s \in {"SUCCEEDED", "FAILED"} : PostTerminal(<<Outcome(s), ok(FALSE)>>)
               /\ holes' = holes
      BY <1>0, <2>1, <3>1, TerminalFacts
    <3>2. CASE /\ dl' = NoDownload /\ q' = Append(q, ok(FALSE)) /\ stash' = stash
               /\ holes' = holes \cup {"untimed"}
      BY <1>0, <2>1, <3>2, Appended
    <3> QED BY <1>3, <3>1, <3>2 DEF DownloadSucceeds
  <2>3. NoDownload \in [job : Jobs \cup {None}, by : Types \cup {None}, told : BOOLEAN]
    BY DEF NoDownload
  <2>4. /\ \/ dl.by = Main /\ boot' = [boot EXCEPT !.slot = dl.job]
           \/ boot' = boot
        /\ app' \in [final : Jobs \cup {None}, custom : Jobs \cup {None}]
    BY <1>0, <1>3 DEF DownloadSucceeds
  <2>5. boot' \in Slots /\ boot'.trial = boot.trial
    BY <1>0, <2>4 DEF Slots
  <2>6. Shape'
    BY <1>3, <2>2, <2>3, <2>4, <2>5 DEF Shape, DownloadSucceeds
  <2>7. phase = "ready"
    BY <1>3 DEF Phases, DownloadSucceeds
  <2>8. Phases'
    BY <1>3, <2>2, <2>7 DEF Phases, DownloadSucceeds
  <2>9. Sound => Place'
    BY <1>3 DEF Sound, Place, Within, Typed, DownloadSucceeds
  <2>10. Sound => Writing' /\ Awaited' /\ Founded'
    <3>1. CASE boot' = boot
      BY <1>3, <2>2, <3>1, JobsAssumption
         DEF DownloadSucceeds, Sound, Writing, Awaited, Founded, Firmware, NoDownload
    <3>2. CASE dl.by = Main /\ boot' = [boot EXCEPT !.slot = dl.job]
      BY <1>3, <2>2, <2>5, <3>2, JobsAssumption
         DEF DownloadSucceeds, Sound, Writing, Awaited, Founded, Firmware, NoDownload
    <3> QED BY <2>4, <3>1, <3>2
  <2> QED BY <2>2, <2>6, <2>8, <2>9, <2>10 DEF Sound, Astray
<1> QED BY <1>1, <1>2, <1>3

(* A verdict is written once.                                              *)
LEMMA VerdictFacts ==
    ASSUME nvs \in Pendings, NEW p \in BOOLEAN, NEW o \in BOOLEAN
    PROVE  /\ Verdict(p, o) \in Pendings
           /\ Verdict(p, o).job = nvs.job /\ Verdict(p, o).ft = nvs.ft
           /\ nvs.job # None => Verdict(p, o).checked
           /\ nvs.job # None /\ (~nvs.checked \/ o) => Verdict(p, o).passed = p
           /\ nvs.job # None /\ nvs.checked /\ ~o => Verdict(p, o) = nvs
BY DEF Verdict, Pendings

(* The boot that finds the image rolled back.                              *)
LEMMA EnableStep ==
    ASSUME Verified, Enable
    PROVE  Verified'
<1> USE DEF Verified, work, time, down, stat, net
<1>0. q \in Seq(Events) /\ phase = "off" /\ nvs \in Pendings /\ boot \in Slots
  BY DEF Shape, Enable
<1>1. Outcome("FAILED") \in Events /\ Ev("REBOOT_CHECK") \in Events
  BY EventKinds DEF Simple, Final
<1>2. q' \in Seq(Events) /\ holes \subseteq holes'
  BY <1>0, <1>1, Appended DEF Enable, Posted
<1>3. nvs' = nvs \/ (nvs' = Verdict(~boot.rolled, FALSE) /\ nvs.ft = Main /\ ~boot.trial)
  BY DEF Enable
<1>4. (~boot.rolled) \in BOOLEAN
  BY Zenon
<1>5. nvs' \in Pendings /\ nvs'.job = nvs.job /\ nvs'.ft = nvs.ft
  BY <1>0, <1>3, <1>4, VerdictFacts
<1>6. app' \in [final : Jobs \cup {None}, custom : Jobs \cup {None}]
  BY <1>0 DEF Enable, Shape, Pendings
<1>7. Shape'
  BY <1>2, <1>5, <1>6 DEF Shape, Enable
<1>8. Phases'
  BY <1>0 DEF Phases, Enable
<1>9. Sound => Place'
  BY <1>5 DEF Sound, Place, Within, Typed, Enable
<1>10. Sound => Writing' /\ Founded'
  BY <1>5 DEF Sound, Writing, Founded, Firmware, Enable
<1>11. Sound => Awaited'
  <2>1. CASE nvs' = nvs
    BY <2>1 DEF Sound, Awaited, Enable
  <2>2. CASE nvs' = Verdict(~boot.rolled, FALSE) /\ nvs.ft = Main /\ ~boot.trial
    <3> SUFFICES ASSUME Sound, nvs.job # None
                 PROVE  Awaited'
      BY <1>5 DEF Awaited
    <3>1. boot.slot = None
      BY <1>0 DEF Phases
    <3>2. CASE nvs.checked
      BY <1>0, <1>4, <2>2, <3>2, VerdictFacts DEF Sound, Awaited, Enable
    <3>3. CASE ~nvs.checked
      <4>1. boot.rolled \/ nvs.job \in good
        BY <2>2, <3>1, <3>3 DEF Sound, Awaited
      <4>2. nvs'.checked /\ nvs'.passed = ~boot.rolled
        BY <1>0, <1>4, <2>2, <3>3, VerdictFacts
      <4> QED BY <1>5, <2>2, <3>1, <4>1, <4>2 DEF Sound, Awaited, Enable
    <3> QED BY <3>2, <3>3
  <2> QED BY <1>3, <2>1, <2>2
<1> QED BY <1>2, <1>7, <1>8, <1>9, <1>10, <1>11 DEF Sound, Astray

(* A verdict on the image on trial that is written, or not, while the      *)
(* image stays on trial.                                                   *)
LEMMA StillOnTrial ==
    ASSUME Verified, boot.trial, nvs.ft = Main, q' \in Seq(Events), holes \subseteq holes',
           nvs' \in {nvs, Verdict(FALSE, TRUE)},
           UNCHANGED <<phase, st, rec, ids, stash, dl, job, app, boot, cached, ask, exec, good, doc>>
    PROVE  Verified'
<1> USE DEF Verified
<1>0. nvs \in Pendings
  BY DEF Shape
<1>1. /\ nvs' \in Pendings /\ nvs'.job = nvs.job /\ nvs'.ft = nvs.ft
      /\ nvs' = nvs \/ (nvs.job # None => ~nvs'.passed)
  BY <1>0, VerdictFacts
<1>2. Shape'
  BY <1>1 DEF Shape
<1>3. Phases'
  BY DEF Phases
<1>4. Sound => Place'
  BY <1>1 DEF Sound, Place, Within, Typed
<1>5. Sound => Writing' /\ Founded'
  BY <1>1 DEF Sound, Writing, Founded, Firmware
<1>6. Sound => Awaited'
  BY <1>1 DEF Sound, Awaited, Writing
<1> QED BY <1>2, <1>3, <1>4, <1>5, <1>6 DEF Sound, Astray

(* The image on trial is found invalid: it is rolled back, or stays.       *)
LEMMA MarkInvalidStep ==
    ASSUME Verified, MarkInvalid
    PROVE  Verified'
<1>1. CASE Restart(boot) /\ UNCHANGED holes
  BY <1>1, RestartStep DEF MarkInvalid
<1>2. CASE /\ holes' = holes \cup {"trial", "verdict"} /\ nvs' \in {nvs, Verdict(FALSE, TRUE)}
           /\ UNCHANGED <<phase, st, q, rec, backoff, work, time, down, stat, sub, ask, note, boot, app>>
  BY <1>2, StillOnTrial DEF MarkInvalid, Verified, Shape, work, down, stat
<1> QED BY <1>1, <1>2 DEF MarkInvalid

(* The image on trial is found valid, and marked so or not.                *)
LEMMA MarkValidStep ==
    ASSUME Verified, MarkValid
    PROVE  Verified'
<1> USE DEF Verified, work, time, down, stat, net
<1>0. q \in Seq(Events) /\ nvs \in Pendings /\ boot \in Slots /\ boot.trial /\ nvs.ft = Main
  BY DEF Shape, MarkValid
<1>1. Ev("REBOOT_CHECK") \in Events
  BY EventKinds DEF Simple
<1>2. q' \in Seq(Events) /\ holes \subseteq holes'
  BY <1>0, <1>1, Appended DEF MarkValid, Posted
<1>3. \/ nvs' \in {nvs, Verdict(FALSE, TRUE)} /\ UNCHANGED <<boot, good>>
      \/ /\ nvs' \in {nvs, Verdict(TRUE, TRUE)} /\ boot' = [boot EXCEPT !.trial = FALSE]
         /\ good' = good \cup {boot.run[Main]}
  BY DEF MarkValid
<1>4. CASE nvs' \in {nvs, Verdict(FALSE, TRUE)} /\ UNCHANGED <<boot, good>>
  BY <1>0, <1>2, <1>4, StillOnTrial DEF MarkValid
<1>5. CASE /\ nvs' \in {nvs, Verdict(TRUE, TRUE)} /\ boot' = [boot EXCEPT !.trial = FALSE]
           /\ good' = good \cup {boot.run[Main]}
  <2>1. nvs' \in Pendings /\ nvs'.job = nvs.job /\ nvs'.ft = nvs.ft
    BY <1>0, <1>5, VerdictFacts
  <2>2. /\ boot' \in Slots /\ boot'.slot = boot.slot /\ ~boot'.trial /\ boot'.rolled = boot.rolled
    BY <1>0, <1>5 DEF Slots
  <2>3. Shape'
    BY <1>2, <2>1, <2>2 DEF Shape, MarkValid
  <2>4. Phases'
    BY <2>2 DEF Phases, MarkValid
  <2>5. Sound => Place'
    BY <2>1 DEF Sound, Place, Within, Typed, MarkValid
  <2>6. Sound => Writing' /\ Founded'
    BY <1>5, <2>1, <2>2 DEF Sound, Writing, Founded, Firmware, MarkValid
  <2>7. Sound => Awaited'
    BY <1>0, <1>5, <2>1, <2>2 DEF Sound, Awaited, Writing, MarkValid
  <2> QED BY <1>2, <2>3, <2>4, <2>5, <2>6, <2>7 DEF Sound, Astray
<1> QED BY <1>3, <1>4, <1>5

(* The call to enable fails late.                                          *)
LEMMA EnableFailsStep ==
    ASSUME Verified, EnableFails
    PROVE  Verified'
<1>1. Shape' /\ holes \subseteq holes'
  BY DEF Verified, Shape, EnableFails, work, down, stat, net, disk
<1> QED BY <1>1, FrameLemma DEF EnableFails, work, down, stat, net, disk

(* The machine is made ready.                                              *)
LEMMA StateInitStep ==
    ASSUME Verified, StateInit
    PROVE  Verified'
<1> USE DEF Verified, work, time, down, stat, net, disk
<1>0. q \in Seq(Events) /\ phase = "enabled"
  BY DEF Shape, StateInit
<1>1. Ev("TRANSITION") \in Events
  BY EventKinds DEF Simple
<1>2. q' \in Seq(Events)
  BY <1>0, <1>1 DEF StateInit
<1>3. Shape'
  BY <1>2 DEF Shape, StateInit
<1>4. Phases'
  BY <1>0 DEF Phases, StateInit, Sensitive
<1>5. Place'
  BY PlaceElsewhere DEF StateInit, Sensitive
<1>6. Sound => Writing' /\ Awaited' /\ Founded'
  BY BooksKept DEF StateInit
<1> QED BY <1>3, <1>4, <1>5, <1>6 DEF Sound, Astray, StateInit

-----------------------------------------------------------------------------
(* The theorem.                                                            *)

(* The invariant holds initially,                                          *)
LEMMA VerifiedInit == Init => Verified
<1> SUFFICES ASSUME Init
             PROVE  Verified
  OBVIOUS
<1>1. Shape
  <2>1. NoJob \in Fields
    BY JobsAssumption DEF NoJob, Fields
  <2>2. /\ NoDownload \in [job : Jobs \cup {None}, by : Types \cup {None}, told : BOOLEAN]
        /\ NoReport \in [final : Jobs \cup {None}, custom : Jobs \cup {None}]
        /\ Unreported \in [Jobs -> Final \cup {None}]
        /\ boot \in Slots
    BY DEF NoDownload, NoReport, Unreported, Slots, Init
  <2>3. NoPending \in Pendings
    BY JobsAssumption DEF NoPending, Pendings
  <2>4. doc \in [Jobs -> [kind : Kinds, type : Types, fw : Nat]]
    BY JobsAssumption DEF Init
  <2> QED BY <2>1, <2>2, <2>3, <2>4, EmptyQueue DEF Shape, Init
<1>2. Phases
  BY DEF Phases, Init, NoRecovery, Sensitive
<1>3. Place
  BY DEF Place, Within, Init, NoJob, Sensitive
<1>4. Writing /\ Awaited
  BY JobsAssumption DEF Writing, Awaited, Init, NoDownload, NoPending
<1>5. Founded
  BY JobsAssumption DEF Founded, Init, Unreported, Final
<1> QED BY <1>1, <1>2, <1>3, <1>4, <1>5 DEF Verified, Sound

(* and every step keeps it.                                                *)
LEMMA VerifiedNext == Verified /\ [Next]_vars => Verified'
<1> SUFFICES ASSUME Verified, [Next]_vars
             PROVE  Verified'
  OBVIOUS
<1>1. CASE Worker
  BY <1>1, NetworkInitStep, RebootCheckFinalStep, RebootCheckStep, RebootCheckAnsweredStep, PlainSteps,
     JobsListedStep, FetchDocStep, DocReceivedStep, StartJobStep, ExecutingStep, PostDownloadStep,
     RebootStep, ErrorStep, RecoveryStep DEF Worker
<1>2. CASE Loop
  BY <1>2, SubscribedStep, QuietSteps, AnswerSteps DEF Loop
<1>3. CASE UNCHANGED vars
  <2>1. Shape'
    BY <1>3 DEF vars, ctl, work, time, down, stat, net, disk, Verified, Shape
  <2> QED BY <1>3, <2>1, FrameLemma DEF vars, ctl, work, time, down, stat, net, disk
<1>4. CASE \E j \in Jobs : ProgressLost(j) \/ SettledUnheard(j) \/ CreateJob(j) \/ CancelJob(j)
  BY <1>4, AnswerSteps
<1>5. CASE DownloadProgress \/ DownloadSucceeds \/ DownloadFails
  BY <1>5, DownloadSteps
<1>6. CASE Enable \/ EnableFails \/ MarkValid \/ MarkInvalid \/ StateInit \/ PowerLoss
  BY <1>6, EnableStep, EnableFailsStep, MarkValidStep, MarkInvalidStep, StateInitStep, PowerLossStep
<1>7. CASE \/ TimerExpires \/ TimerPosts \/ BackoffFires \/ Disconnected \/ JobsChanged
           \/ RequestFails \/ Redeliver \/ AppFinal \/ AppCustom \/ AppAsks
  BY <1>7, QuietSteps
<1> QED BY <1>1, <1>2, <1>3, <1>4, <1>5, <1>6, <1>7 DEF Next

(* For any jobs, documents and handlers and any number of faults, a        *)
(* firmware job whose execution the cloud holds SUCCEEDED has run its      *)
(* image, and that image was found valid (ota_jobs.c                       *)
(* handle_state_post_download and handle_state_reboot_check, ota_nvs.c     *)
(* esp_rmaker_ota_nvs_set_status_if_pending_verification), unless the      *)
(* job's fields were those of another document or the record of the        *)
(* awaited image was lost to another job.                                  *)
THEOREM SuccessSafety == Spec => []SuccessIsTrue
<1>1. Verified => SuccessIsTrue
  BY DEF Verified, Astray, Sound, Founded, Firmware, SuccessIsTrue
<1> QED BY <1>1, VerifiedInit, VerifiedNext, PTL DEF Spec

-----------------------------------------------------------------------------
(* The MQTT client.                                                        *)

(* The topic of every operation, begun or not.                             *)
Filters == Topics \cup {Fresh.topic}
Stages == {"new", "begun", "accepted", "sent", "denied", "refused", "ok", "failed"}
Places == {"idle", "list", "send", "undo", "remove"}
AgentStates == {"none", "new", "loop", "command", "drop", "cancel", "connect", "up", "exit", "exited"}

(* The types of the variables the proof speaks of.                         *)
ClientShape ==
    /\ xIsConnected \in BOOLEAN /\ alive \in BOOLEAN /\ session \in BOOLEAN
    /\ list \subseteq Filters /\ believed \subseteq Filters
    /\ xCommandQueue \in Seq(Ops \cup {0}) /\ pending \in Seq(Ops)
    /\ agent \in AgentStates
    /\ op \in [Ops -> [kind : OpKinds, topic : Filters, st : Stages]]
    /\ task \in [Tasks -> [op : Ops \cup {0}, at : Places, added : BOOLEAN]]
    /\ orphans \subseteq Ops

(* The operation has been queued and is not concluded.                     *)
Outstanding(i) == op[i].st \in {"accepted", "sent", "denied"}
(* Both change the subscription of one topic.                              *)
Same(i, j) == op[i].kind # "pub" /\ op[j].kind # "pub" /\ op[i].topic = op[j].topic

(* No two tasks are at once in calls that change one topic's subscription. *)
Alone ==
    \A s, t \in Tasks :
        task[s].at # "idle" /\ task[t].at # "idle" /\ Same(task[s].op, task[t].op) => s = t

(* The state of an operation says where it is; they begin in their order.  *)
Whereabouts ==
    /\ \A i \in Ops : /\ op[i].st = "accepted" <=> i \in Queued
                      /\ op[i].st \in {"sent", "denied"} <=> i \in Range(pending)
                      /\ op[i].st = "denied" => op[i].kind = "sub"
    /\ \A i, j \in Ops : op[j].st # "new" /\ i < j => op[i].st # "new"
    /\ \A i \in orphans : op[i].st # "new"

(* What a task in a call knows of its operation.                           *)
CallOf(t) ==
    /\ task[t].at = "idle" => task[t] = Free
    /\ task[t].at # "idle" => task[t].op \in Ops
    /\ task[t].at = "list" => op[task[t].op].st = "begun" /\ op[task[t].op].kind = "sub"
    /\ task[t].at \in {"list", "remove"} => ~task[t].added
    /\ task[t].at = "send" => op[task[t].op].st = "begun"
    /\ task[t].at = "undo" => op[task[t].op].st = "refused" /\ task[t].added
    /\ task[t].at = "remove" => /\ op[task[t].op].kind = "unsub"
                                /\ op[task[t].op].st \in {"accepted", "sent", "ok", "failed"}
    /\ task[t].added => op[task[t].op].kind = "sub"
Calls ==
    /\ \A t \in Tasks : CallOf(t)
    /\ \A s, t \in Tasks : task[s].at # "idle" /\ task[s].op = task[t].op => s = t

(* The connection and its agent: nothing is pending unless the commands    *)
(* are served, nothing is believed without the connection, and what waits  *)
(* for a connection to come was queued under none.                         *)
Connection ==
    /\ agent \in {"command", "drop"} => xIsConnected
    /\ agent \in {"cancel", "connect", "up"} => ~xIsConnected
    /\ pending # <<>> => agent \in {"command", "drop", "cancel"}
    /\ ~xIsConnected /\ agent # "up" => believed = {}
    /\ xIsConnected \/ agent = "up" => session
    /\ ~alive => agent \in {"none", "new"}
    /\ agent \in {"exited", "none", "new", "connect", "up"} \/ (agent = "loop" /\ ~xIsConnected)
          => Queued \subseteq orphans

Base == ClientShape /\ Whereabouts /\ Calls /\ Connection


LEMMA RangeAppend ==
    ASSUME NEW S, NEW s \in Seq(S), NEW e
    PROVE  Range(Append(s, e)) = Range(s) \cup {e}
  <1>1. /\ DOMAIN s = 1..Len(s) /\ Len(s) \in Nat /\ DOMAIN Append(s, e) = 1..(Len(s) + 1)
        /\ \A p \in 1..Len(s) : Append(s, e)[p] = s[p]
        /\ Append(s, e)[Len(s) + 1] = e
    OBVIOUS
  <1>2. \A p \in 1..(Len(s) + 1) : p \in 1..Len(s) \/ p = Len(s) + 1
    BY <1>1
  <1> QED BY <1>1, <1>2 DEF Range

LEMMA RangeTail ==
    ASSUME NEW S, NEW s \in Seq(S), s # <<>>
    PROVE  /\ Range(s) = Range(Tail(s)) \cup {Head(s)}
           /\ Tail(s) \in Seq(S) /\ Head(s) \in S
           /\ \A p \in DOMAIN Tail(s) : p + 1 \in DOMAIN s /\ Tail(s)[p] = s[p + 1] /\ 1 < p + 1
  <1>1. /\ Len(s) \in Nat \ {0} /\ Tail(s) \in Seq(S) /\ Head(s) = s[1] /\ DOMAIN s = 1..Len(s)
        /\ Len(Tail(s)) = Len(s) - 1 /\ DOMAIN Tail(s) = 1..Len(Tail(s))
        /\ \A p \in 1..Len(Tail(s)) : Tail(s)[p] = s[p + 1]
    OBVIOUS
  <1>2. \A n \in 1..Len(s) : n = 1 \/ (n - 1 \in 1..Len(Tail(s)) /\ s[n] = Tail(s)[n - 1])
    BY <1>1
  <1>3. /\ \A x : x \in Range(s) <=> \E p \in 1..Len(s) : x = s[p]
        /\ \A x : x \in Range(Tail(s)) <=> \E p \in 1..Len(Tail(s)) : x = Tail(s)[p]
    BY <1>1 DEF Range
  <1>4. ASSUME NEW x \in Range(s) PROVE x \in Range(Tail(s)) \cup {Head(s)}
    BY <1>1, <1>2, <1>3
  <1>5. ASSUME NEW x \in Range(Tail(s)) \cup {Head(s)} PROVE x \in Range(s)
    BY <1>1, <1>3
  <1>6. Range(s) = Range(Tail(s)) \cup {Head(s)}
    BY <1>4, <1>5
  <1> QED BY <1>1, <1>6

LEMMA NothingQueued == Range(<<>>) = {}
  BY DEF Range

LEMMA ClientInit == MqttInit => Base
  <1> SUFFICES ASSUME MqttInit PROVE Base
    OBVIOUS
  <1> USE DEF MqttInit
  <1>0. Fresh \in [kind : OpKinds, topic : Filters, st : Stages] /\ Fresh.st = "new"
    BY DEF Fresh, OpKinds, Filters, Stages
  <1>1. ClientShape
    <2>1. op \in [Ops -> [kind : OpKinds, topic : Filters, st : Stages]]
      BY <1>0
    <2>2. task \in [Tasks -> [op : Ops \cup {0}, at : Places, added : BOOLEAN]]
      BY DEF Free, Places
    <2>3. xIsConnected \in BOOLEAN /\ alive \in BOOLEAN /\ session \in BOOLEAN
      OBVIOUS
    <2>4. xCommandQueue \in Seq(Ops \cup {0}) /\ pending \in Seq(Ops)
      OBVIOUS
    <2>5. list \subseteq Filters /\ believed \subseteq Filters /\ orphans \subseteq Ops
      OBVIOUS
    <2>6. agent \in AgentStates
      BY DEF AgentStates
    <2> QED BY <2>1, <2>2, <2>3, <2>4, <2>5, <2>6 DEF ClientShape
  <1>2. Whereabouts
    BY <1>0, NothingQueued DEF Whereabouts, Queued
  <1>3. Calls
    BY DEF Calls, CallOf, Free
  <1>4. Connection
    BY NothingQueued DEF Connection, Queued
  <1> QED BY <1>1, <1>2, <1>3, <1>4 DEF Base

(* A step that touches neither operations nor topics.                      *)
Elsewhere == \/ Connect \/ WaitConnected \/ DisconnectFlag \/ WaitDisconnected \/ AgentStart
             \/ AgentLoop \/ Break \/ ConnectFails \/ ConnectUp \/ AgentEnd \/ UNCHANGED mqttVars

LEMMA QuietFrame ==
    ASSUME Elsewhere
    PROVE  /\ UNCHANGED <<list, xCommandQueue, pending, op, task, session, subs>>
           /\ UNCHANGED <<believed, unsure, orphans>>
  BY DEF Elsewhere, Connect, WaitConnected, DisconnectFlag, WaitDisconnected, AgentStart, AgentLoop,
         Break, ConnectFails, ConnectUp, AgentEnd, mqttVars, client, broker, hist

(* The operations and the calls stay as they are.                          *)
LEMMA CallsStay ==
    ASSUME Whereabouts, Calls, UNCHANGED <<op, task, pending, orphans>>, Queued' = Queued
    PROVE  Whereabouts' /\ Calls'
  BY DEF Whereabouts, Calls, CallOf

LEMMA QuietBase ==
    ASSUME Base, Elsewhere
    PROVE  Base'
  <1> USE DEF Base
  <1>1. Whereabouts' /\ Calls'
    BY QuietFrame, CallsStay DEF Queued
  <1>2. ClientShape' /\ Connection'
    <2> USE QuietFrame DEF ClientShape, Connection, AgentStates, Queued, client
    <2>1. CASE Connect
      BY <2>1 DEF Connect
    <2>2. CASE WaitConnected \/ DisconnectFlag \/ WaitDisconnected \/ UNCHANGED mqttVars
      BY <2>2 DEF WaitConnected, DisconnectFlag, WaitDisconnected, mqttVars
    <2>3. CASE AgentStart
      BY <2>3 DEF AgentStart
    <2>4. CASE AgentLoop
      BY <2>4 DEF AgentLoop
    <2>5. CASE Break \/ ConnectFails
      BY <2>5 DEF Break, ConnectFails
    <2>6. CASE ConnectUp
      BY <2>6 DEF ConnectUp
    <2>7. CASE AgentEnd
      BY <2>7 DEF AgentEnd
    <2> QED BY <2>1, <2>2, <2>3, <2>4, <2>5, <2>6, <2>7 DEF Elsewhere
  <1> QED BY <1>1, <1>2

(* The core asks for a disconnection, which is no operation.               *)
LEMMA DisconnectQueued ==
    ASSUME Base, DisconnectSend \/ ForceReconnect
    PROVE  /\ UNCHANGED <<list, pending, op, task, session, subs, believed, unsure, orphans>>
           /\ UNCHANGED <<agent, alive, xIsConnected>>
           /\ xCommandQueue' = xCommandQueue \/ xCommandQueue' = Append(xCommandQueue, Disconnect)
           /\ xCommandQueue' \in Seq(Ops \cup {0}) /\ Queued' = Queued
  <1>1. /\ UNCHANGED <<list, pending, op, task, session, subs, believed, unsure, orphans>>
        /\ UNCHANGED <<agent, alive, xIsConnected>>
        /\ xCommandQueue' = xCommandQueue \/ xCommandQueue' = Append(xCommandQueue, Disconnect)
    BY DEF DisconnectSend, ForceReconnect, client, broker, hist
  <1>2. xCommandQueue \in Seq(Ops \cup {0})
    BY DEF Base, ClientShape
  <1>3. xCommandQueue' \in Seq(Ops \cup {0})
    BY <1>1, <1>2 DEF Disconnect
  <1>4. Queued' = Queued
    <2>1. Range(Append(xCommandQueue, Disconnect)) = Range(xCommandQueue) \cup {Disconnect}
      BY <1>2, RangeAppend
    <2> QED BY <1>1, <2>1 DEF Queued
  <1> QED BY <1>1, <1>3, <1>4

LEMMA DisconnectBase ==
    ASSUME Base, DisconnectSend \/ ForceReconnect
    PROVE  Base'
  <1>1. Whereabouts' /\ Calls'
    BY DisconnectQueued, CallsStay DEF Base
  <1>2. ClientShape' /\ Connection'
    BY DisconnectQueued DEF Base, ClientShape, Connection
  <1> QED BY <1>1, <1>2 DEF Base

LEMMA BeginBase ==
    ASSUME Base, NEW t \in Tasks, Begin(t)
    PROVE  Base'
  <1> USE DEF Base
  <1>1. PICK i \in Ops, k \in OpKinds, f \in Topics :
          /\ op[i].st = "new" /\ \A j \in 1..(i - 1) : op[j].st # "new"
          /\ op' = [op EXCEPT ![i] = [kind |-> k, topic |-> f, st |-> op'[i].st]]
          /\ \/ /\ op'[i].st = "begun"
                /\ task' = [task EXCEPT ![t] = [op |-> i, added |-> FALSE,
                                                at |-> IF k = "sub" THEN "list" ELSE "send"]]
             \/ op'[i].st = "refused" /\ task' = task
    BY DEF Begin, ClientShape
  <1>2. /\ task[t].at = "idle" /\ UNCHANGED <<list, xCommandQueue, pending, session, believed, orphans>>
        /\ UNCHANGED <<agent, alive, xIsConnected>>
    BY DEF Begin, client, broker, hist
  <1>3. /\ \A j \in Ops \ {i} : op'[j] = op[j]
        /\ op'[i] = [kind |-> k, topic |-> f, st |-> op'[i].st] /\ op'[i].st \in {"begun", "refused"}
    BY <1>1 DEF ClientShape
  <1>4. /\ \A s \in Tasks \ {t} : task'[s] = task[s]
        /\ task'[t] = task[t] \/ (/\ op'[i].st = "begun" /\ task'[t].op = i /\ ~task'[t].added
                                  /\ task'[t].at = IF k = "sub" THEN "list" ELSE "send")
    BY <1>1 DEF ClientShape
  <1>5. ClientShape'
    <2>1. op' \in [Ops -> [kind : OpKinds, topic : Filters, st : Stages]]
      BY <1>1, <1>3 DEF ClientShape, Filters, Stages
    <2>2. task' \in [Tasks -> [op : Ops \cup {0}, at : Places, added : BOOLEAN]]
      <3>1. [op |-> i, added |-> FALSE, at |-> IF k = "sub" THEN "list" ELSE "send"]
               \in [op : Ops \cup {0}, at : Places, added : BOOLEAN]
        BY DEF Places
      <3> QED BY <3>1, <1>1 DEF ClientShape
    <2> QED BY <2>1, <2>2, <1>2 DEF ClientShape
  <1>6. Whereabouts'
    <2>1. i \notin Queued /\ i \notin Range(pending) /\ i \notin orphans
      BY <1>1 DEF Whereabouts
    <2>2. \A j \in Ops : /\ op'[j].st = "accepted" <=> j \in Queued
                         /\ op'[j].st \in {"sent", "denied"} <=> j \in Range(pending)
                         /\ op'[j].st = "denied" => op'[j].kind = "sub"
      BY <2>1, <1>3 DEF Whereabouts
    <2>3. \A j \in Ops : j < i => op[j].st # "new"
      BY <1>1 DEF Ops
    <2>4. \A j, l \in Ops : op'[l].st # "new" /\ j < l => op'[j].st # "new"
      BY <2>3, <1>3 DEF Whereabouts
    <2>5. \A j \in orphans : op'[j].st # "new"
      BY <2>1, <1>3 DEF Whereabouts, ClientShape
    <2> QED BY <2>2, <2>4, <2>5, <1>2 DEF Whereabouts, Queued
  <1>7. Calls'
    <2>1. \A s \in Tasks : task[s].at # "idle" => task[s].op \in Ops \ {i}
      <3>1. \A s \in Tasks : task[s].at \in Places
        BY DEF ClientShape
      <3>2. ASSUME NEW s \in Tasks, task[s].at # "idle" PROVE op[task[s].op].st # "new"
        BY <3>1, <3>2 DEF Calls, CallOf, Places
      <3> QED BY <3>2, <1>1 DEF Calls, CallOf
    <2>2. ASSUME NEW s \in Tasks PROVE CallOf(s)'
      <3>1. CASE task'[s] = task[s] /\ task[s].at = "idle"
        BY <3>1, <1>3 DEF Calls, CallOf, Free
      <3>2. CASE task'[s] = task[s] /\ task[s].at # "idle"
        BY <3>2, <2>1, <1>3 DEF Calls, CallOf
      <3>3. CASE task'[s] # task[s]
        BY <3>3, <1>3, <1>4 DEF CallOf
      <3> QED BY <3>1, <3>2, <3>3
    <2>3. ASSUME NEW r \in Tasks, NEW s \in Tasks, task'[r].at # "idle", task'[r].op = task'[s].op
          PROVE  r = s
      <3>1. \A u \in Tasks : task[u].at = "idle" => task[u].op = 0
        BY DEF Calls, CallOf, Free
      <3>2. i # 0
        BY DEF Ops
      <3> QED BY <2>1, <2>3, <1>2, <1>4, <3>1, <3>2 DEF Calls
    <2> QED BY <2>2, <2>3 DEF Calls
  <1>8. Connection'
    BY <1>2 DEF Connection, Queued
  <1> QED BY <1>5, <1>6, <1>7, <1>8

(* What each step of a call does, in terms of its operation.               *)
Untouched == /\ UNCHANGED <<pending, session, subs>>
             /\ UNCHANGED <<agent, alive, xIsConnected>>

AddDone(t, i) ==
    /\ Untouched /\ UNCHANGED <<xCommandQueue, believed, unsure, orphans>>
    /\ task[t].at = "list" /\ i \in Ops /\ op[i].st = "begun" /\ op[i].kind = "sub" /\ ~task[t].added
    /\ \A s \in Tasks \ {t} : task'[s] = task[s]
    /\ \A j \in Ops \ {i} : op'[j] = op[j]
    /\ \/ /\ op[i].topic \in list /\ list' = list /\ op' = op
          /\ task'[t] = [op |-> i, at |-> "send", added |-> FALSE]
       \/ /\ op[i].topic \notin list /\ list' = list \cup {op[i].topic} /\ op' = op
          /\ task'[t] = [op |-> i, at |-> "send", added |-> TRUE]
       \/ /\ list' = list /\ op'[i] = [op[i] EXCEPT !.st = "refused"] /\ task'[t] = Free
    /\ op' \in [Ops -> [kind : OpKinds, topic : Filters, st : Stages]]
    /\ task' \in [Tasks -> [op : Ops \cup {0}, at : Places, added : BOOLEAN]]

LEMMA AddFacts ==
    ASSUME Base, NEW t \in Tasks, AddEntry(t)
    PROVE  AddDone(t, task[t].op)
  <1> USE DEF AddDone
  <1> SUFFICES ASSUME NEW i, i = task[t].op
               PROVE  AddDone(t, i)
    OBVIOUS
  <1>1. /\ task \in [Tasks -> [op : Ops \cup {0}, at : Places, added : BOOLEAN]]
        /\ op \in [Ops -> [kind : OpKinds, topic : Filters, st : Stages]]
    BY DEF Base, ClientShape
  <1>2. /\ task[t].at = "list" /\ Untouched /\ UNCHANGED <<xCommandQueue, believed, unsure, orphans>>
    BY DEF AddEntry, Untouched, client, broker, hist
  <1>3. i \in Ops /\ op[i].st = "begun" /\ op[i].kind = "sub" /\ ~task[t].added
    BY <1>2 DEF Base, Calls, CallOf
  <1>4. \/ op[i].topic \in list /\ list' = list /\ op' = op /\ task' = [task EXCEPT ![t].at = "send"]
        \/ /\ op[i].topic \notin list /\ list' = list \cup {op[i].topic} /\ op' = op
           /\ task' = [task EXCEPT ![t].at = "send", ![t].added = TRUE]
        \/ list' = list /\ op' = [op EXCEPT ![i].st = "refused"] /\ task' = [task EXCEPT ![t] = Free]
    BY DEF AddEntry
  <1>5. Free \in [op : Ops \cup {0}, at : Places, added : BOOLEAN] /\ "send" \in Places /\ "refused" \in Stages
    BY DEF Free, Places, Stages
  <1>6. task[t] = [op |-> i, at |-> "list", added |-> FALSE]
    BY <1>1, <1>2, <1>3
  <1>7. CASE list' = list /\ op' = [op EXCEPT ![i].st = "refused"] /\ task' = [task EXCEPT ![t] = Free]
    BY <1>1, <1>2, <1>3, <1>5, <1>7
  <1>8. CASE op' = op /\ task' = [task EXCEPT ![t].at = "send"] /\ list' = list /\ op[i].topic \in list
    BY <1>1, <1>2, <1>3, <1>5, <1>6, <1>8
  <1>9. CASE /\ op[i].topic \notin list /\ list' = list \cup {op[i].topic} /\ op' = op
             /\ task' = [task EXCEPT ![t].at = "send", ![t].added = TRUE]
    BY <1>1, <1>2, <1>3, <1>5, <1>6, <1>9
  <1> QED BY <1>4, <1>7, <1>8, <1>9

SendDone(t, i) ==
    /\ Untouched /\ UNCHANGED <<list, believed, unsure>>
    /\ task[t].at = "send" /\ i \in Ops /\ op[i].st = "begun"
    /\ task[t].added => op[i].kind = "sub"
    /\ \A s \in Tasks \ {t} : task'[s] = task[s]
    /\ \A j \in Ops \ {i} : op'[j] = op[j]
    /\ \/ /\ xCommandQueue' = Append(xCommandQueue, i) /\ Queued' = Queued \cup {i}
          /\ op'[i] = [op[i] EXCEPT !.st = "accepted"]
          /\ orphans' = orphans \/ orphans' = orphans \cup {i}
          /\ ~(xIsConnected /\ agent \in {"loop", "command"}) => i \in orphans'
          /\ \/ /\ op[i].kind = "unsub" /\ task'[t] = [op |-> i, at |-> "remove", added |-> FALSE]
             \/ op[i].kind # "unsub" /\ task'[t] = Free
       \/ /\ UNCHANGED <<xCommandQueue, orphans>> /\ Queued' = Queued
          /\ op'[i] = [op[i] EXCEPT !.st = "refused"]
          /\ \/ task[t].added /\ task'[t] = [op |-> i, at |-> "undo", added |-> TRUE]
             \/ ~task[t].added /\ task'[t] = Free
    /\ op' \in [Ops -> [kind : OpKinds, topic : Filters, st : Stages]]
    /\ task' \in [Tasks -> [op : Ops \cup {0}, at : Places, added : BOOLEAN]]
    /\ xCommandQueue' \in Seq(Ops \cup {0})

LEMMA SendFacts ==
    ASSUME Base, NEW t \in Tasks, Send(t)
    PROVE  SendDone(t, task[t].op)
  <1> USE DEF SendDone
  <1> SUFFICES ASSUME NEW i, i = task[t].op
               PROVE  SendDone(t, i)
    OBVIOUS
  <1>1. /\ task \in [Tasks -> [op : Ops \cup {0}, at : Places, added : BOOLEAN]]
        /\ op \in [Ops -> [kind : OpKinds, topic : Filters, st : Stages]]
        /\ xCommandQueue \in Seq(Ops \cup {0})
    BY DEF Base, ClientShape
  <1>2. task[t].at = "send" /\ Untouched /\ UNCHANGED <<list, believed, unsure>>
    BY DEF Send, Untouched, client, broker
  <1>3. i \in Ops /\ op[i].st = "begun" /\ (task[t].added => op[i].kind = "sub")
    BY <1>2 DEF Base, Calls, CallOf
  <1>4. \/ /\ xCommandQueue' = Append(xCommandQueue, i)
           /\ op' = [op EXCEPT ![i].st = "accepted"]
           /\ orphans' = IF xIsConnected /\ agent \in {"loop", "command"} THEN orphans
                         ELSE orphans \cup {i}
           /\ task' = [task EXCEPT ![t] = IF op[i].kind = "unsub" THEN [@ EXCEPT !.at = "remove"] ELSE Free]
        \/ /\ UNCHANGED <<xCommandQueue, orphans>>
           /\ op' = [op EXCEPT ![i].st = "refused"]
           /\ task' = [task EXCEPT ![t] = IF @.added THEN [@ EXCEPT !.at = "undo"] ELSE Free]
    BY DEF Send
  <1>5. /\ Free \in [op : Ops \cup {0}, at : Places, added : BOOLEAN]
        /\ {"remove", "undo"} \subseteq Places /\ {"accepted", "refused"} \subseteq Stages
    BY DEF Free, Places, Stages
  <1>6. task[t] = [op |-> i, at |-> "send", added |-> task[t].added]
    BY <1>1, <1>2, <1>3
  <1>7. CASE /\ xCommandQueue' = Append(xCommandQueue, i)
             /\ op' = [op EXCEPT ![i].st = "accepted"]
             /\ orphans' = IF xIsConnected /\ agent \in {"loop", "command"} THEN orphans
                           ELSE orphans \cup {i}
             /\ task' = [task EXCEPT ![t] = IF op[i].kind = "unsub" THEN [@ EXCEPT !.at = "remove"] ELSE Free]
    <2>1. xCommandQueue' \in Seq(Ops \cup {0})
      BY <1>1, <1>3, <1>7
    <2>2. Queued' = Queued \cup {i}
      <3>1. Range(Append(xCommandQueue, i)) = Range(xCommandQueue) \cup {i}
        BY <1>1, RangeAppend
      <3>2. i # Disconnect
        BY <1>3 DEF Disconnect, Ops
      <3> QED BY <3>1, <3>2, <1>7 DEF Queued
    <2>3. op' \in [Ops -> [kind : OpKinds, topic : Filters, st : Stages]]
      BY <1>1, <1>3, <1>5, <1>7
    <2>4. CASE op[i].kind = "unsub"
      <3>1. ~task[t].added /\ task[t] = [op |-> i, at |-> "send", added |-> FALSE]
        BY <2>4, <1>1, <1>3, <1>6
      <3>2. task'[t] = [op |-> i, at |-> "remove", added |-> FALSE]
        BY <3>1, <2>4, <1>1, <1>7
      <3>3. /\ task' \in [Tasks -> [op : Ops \cup {0}, at : Places, added : BOOLEAN]]
            /\ \A s \in Tasks \ {t} : task'[s] = task[s]
        BY <3>1, <2>4, <1>1, <1>3, <1>5, <1>7
      <3> QED BY <1>1, <1>2, <1>3, <1>7, <2>1, <2>2, <2>3, <2>4, <3>2, <3>3
    <2>5. CASE op[i].kind # "unsub"
      <3>1. /\ task' \in [Tasks -> [op : Ops \cup {0}, at : Places, added : BOOLEAN]]
            /\ \A s \in Tasks \ {t} : task'[s] = task[s]
            /\ task'[t] = Free
        BY <2>5, <1>1, <1>5, <1>7
      <3> QED BY <1>1, <1>2, <1>3, <1>7, <2>1, <2>2, <2>3, <2>5, <3>1
    <2> QED BY <2>4, <2>5
  <1>8. CASE /\ UNCHANGED <<xCommandQueue, orphans>>
             /\ op' = [op EXCEPT ![i].st = "refused"]
             /\ task' = [task EXCEPT ![t] = IF @.added THEN [@ EXCEPT !.at = "undo"] ELSE Free]
    <2>1. op' \in [Ops -> [kind : OpKinds, topic : Filters, st : Stages]] /\ Queued' = Queued
      BY <1>1, <1>3, <1>5, <1>8 DEF Queued
    <2>2. CASE task[t].added
      <3>1. task[t] = [op |-> i, at |-> "send", added |-> TRUE]
        BY <2>2, <1>1, <1>6
      <3>2. /\ task' \in [Tasks -> [op : Ops \cup {0}, at : Places, added : BOOLEAN]]
            /\ \A s \in Tasks \ {t} : task'[s] = task[s]
            /\ task'[t] = [op |-> i, at |-> "undo", added |-> TRUE]
        BY <3>1, <2>2, <1>1, <1>3, <1>5, <1>8
      <3> QED BY <1>1, <1>2, <1>3, <1>8, <2>1, <2>2, <3>2
    <2>3. CASE ~task[t].added
      <3>1. /\ task' \in [Tasks -> [op : Ops \cup {0}, at : Places, added : BOOLEAN]]
            /\ \A s \in Tasks \ {t} : task'[s] = task[s]
            /\ task'[t] = Free
        BY <2>3, <1>1, <1>5, <1>8
      <3> QED BY <1>1, <1>2, <1>3, <1>8, <2>1, <2>3, <3>1
    <2> QED BY <2>2, <2>3
  <1> QED BY <1>4, <1>7, <1>8

RemoveDone(t, i) ==
    /\ Untouched /\ UNCHANGED <<xCommandQueue, op, orphans>>
    /\ task[t].at \in {"undo", "remove"} /\ i \in Ops
    /\ list' = list \ {op[i].topic} /\ believed' = believed \ {op[i].topic}
    /\ unsure' = unsure \ {op[i].topic}
    /\ task'[t] = Free /\ \A s \in Tasks \ {t} : task'[s] = task[s]
    /\ task' \in [Tasks -> [op : Ops \cup {0}, at : Places, added : BOOLEAN]]

LEMMA RemoveFacts ==
    ASSUME Base, NEW t \in Tasks, RemoveEntry(t)
    PROVE  RemoveDone(t, task[t].op)
  <1> USE DEF RemoveDone
  <1> SUFFICES ASSUME NEW i, i = task[t].op
               PROVE  RemoveDone(t, i)
    OBVIOUS
  <1>1. Free \in [op : Ops \cup {0}, at : Places, added : BOOLEAN]
    BY DEF Free, Places
  <1>2. task \in [Tasks -> [op : Ops \cup {0}, at : Places, added : BOOLEAN]]
    BY DEF Base, ClientShape
  <1>3. task[t].at \in {"undo", "remove"} /\ i \in Ops
    BY DEF Base, Calls, CallOf, RemoveEntry
  <1> QED BY <1>1, <1>2, <1>3 DEF RemoveEntry, Untouched, client, broker, hist

(* A call of one task goes on; the others know what they knew.             *)
LEMMA CallsStep ==
    ASSUME Base, NEW t \in Tasks, task[t].at # "idle",
           \A s \in Tasks \ {t} : task'[s] = task[s],
           \A j \in Ops \ {task[t].op} : op'[j] = op[j],
           task'[t] = Free \/ task'[t].op = task[t].op,
           CallOf(t)'
    PROVE  Calls'
  <1>1. task[t].op \in Ops /\ 0 \notin Ops
    BY DEF Base, Calls, CallOf, Ops
  <1>2. ASSUME NEW s \in Tasks \ {t} PROVE CallOf(s)'
    <2>1. CASE task[s].at = "idle"
      <3>1. CallOf(s) /\ task'[s] = task[s]
        BY DEF Base, Calls
      <3> QED BY <3>1, <2>1 DEF CallOf, Free
    <2>2. CASE task[s].at # "idle"
      <3>1. CallOf(s) /\ task'[s] = task[s] /\ task[s].op # task[t].op /\ task[s].op \in Ops
        BY <2>2 DEF Base, Calls, CallOf
      <3> QED BY <3>1, <2>2 DEF CallOf
    <2> QED BY <2>1, <2>2
  <1>3. ASSUME NEW r \in Tasks, NEW s \in Tasks, task'[r].at # "idle", task'[r].op = task'[s].op
        PROVE  r = s
    <2>1. task'[t] = Free => task'[t].at = "idle" /\ task'[t].op = 0
      BY DEF Free
    <2>2. \A u \in Tasks : task[u].at # "idle" => task[u].op \in Ops
      BY DEF Base, Calls, CallOf
    <2>3. CASE task'[t] # Free
      BY <2>3, <2>2, <1>3 DEF Base, Calls
    <2>4. CASE task'[t] = Free
      BY <2>4, <2>1, <2>2, <1>1, <1>3 DEF Base, Calls
    <2> QED BY <2>3, <2>4
  <1> QED BY <1>2, <1>3 DEF Calls

LEMMA AddBase ==
    ASSUME Base, NEW t \in Tasks, AddEntry(t)
    PROVE  Base'
  <1>0. ClientShape /\ Whereabouts /\ Calls /\ Connection
    BY DEF Base
  <1>f. PICK i : i = task[t].op /\ AddDone(t, i)
    BY AddFacts
  <1>1. ClientShape'
    <2>1. op[i].topic \in Filters
      BY <1>0, <1>f DEF AddDone, ClientShape
    <2>2. list' \subseteq Filters
      BY <2>1, <1>0, <1>f DEF AddDone, ClientShape
    <2> QED BY <1>0, <1>f, <2>2 DEF AddDone, ClientShape, Untouched
  <1>2. Whereabouts'
    <2>1. /\ \A j \in Ops \ {i} : op'[j] = op[j]
          /\ UNCHANGED <<pending, xCommandQueue, orphans>> /\ op[i].st = "begun" /\ i \in Ops
      BY <1>f DEF AddDone, Untouched
    <2>2. op'[i].kind = op[i].kind /\ op'[i].st \in {"begun", "refused"}
      BY <1>0, <1>f DEF AddDone, ClientShape
    <2> QED BY <1>0, <2>1, <2>2 DEF Whereabouts, Queued, ClientShape
  <1>4. Calls'
    <2>1. /\ task[t].at # "idle" /\ task[t].op = i
          /\ \A s \in Tasks \ {t} : task'[s] = task[s]
          /\ \A j \in Ops \ {i} : op'[j] = op[j]
      BY <1>f DEF AddDone
    <2>2. (task'[t] = Free \/ task'[t].op = i)
      BY <1>f DEF AddDone
    <2>3. CallOf(t)'
      BY <1>f DEF AddDone, CallOf, Free
    <2> QED BY <2>1, <2>2, <2>3, CallsStep
  <1>5. Connection'
    BY <1>0, <1>f DEF AddDone, Connection, Queued, Untouched
  <1> QED BY <1>1, <1>2, <1>4, <1>5 DEF Base

LEMMA SendBase ==
    ASSUME Base, NEW t \in Tasks, Send(t)
    PROVE  Base'
  <1>0. ClientShape /\ Whereabouts /\ Calls /\ Connection
    BY DEF Base
  <1>f. PICK i : i = task[t].op /\ SendDone(t, i)
    BY SendFacts
  <1>1. ClientShape'
    <2>1. orphans' \subseteq Ops
      BY <1>0, <1>f DEF SendDone, ClientShape
    <2> QED BY <1>0, <1>f, <2>1 DEF SendDone, ClientShape, Untouched
  <1>2. Whereabouts'
    <2>1. /\ \A j \in Ops \ {i} : op'[j] = op[j]
          /\ UNCHANGED pending /\ op[i].st = "begun" /\ i \in Ops
      BY <1>f DEF SendDone, Untouched
    <2>2. \/ op'[i].kind = op[i].kind /\ op'[i].st = "accepted" /\ Queued' = Queued \cup {i}
          \/ op'[i].kind = op[i].kind /\ op'[i].st = "refused" /\ Queued' = Queued
      <3>1. op[i] \in [kind : OpKinds, topic : Filters, st : Stages]
        BY <1>0, <2>1 DEF ClientShape
      <3> QED BY <3>1, <1>f DEF SendDone
    <2>3. orphans' \subseteq orphans \cup {i}
      BY <1>f DEF SendDone
    <2> QED BY <1>0, <2>1, <2>2, <2>3 DEF Whereabouts, ClientShape
  <1>4. Calls'
    <2>1. /\ task[t].at # "idle" /\ task[t].op = i
          /\ \A s \in Tasks \ {t} : task'[s] = task[s]
          /\ \A j \in Ops \ {i} : op'[j] = op[j]
      BY <1>f DEF SendDone
    <2>2. (task'[t] = Free \/ task'[t].op = i)
      BY <1>f DEF SendDone
    <2>3. CallOf(t)'
      <3>1. op[i] \in [kind : OpKinds, topic : Filters, st : Stages] /\ i \in Ops
        BY <1>0, <1>f DEF ClientShape, SendDone
      <3>2. CASE task'[t] = Free
        BY <3>2 DEF CallOf, Free
      <3>3. CASE task'[t] # Free
        BY <3>1, <3>3, <1>f DEF SendDone, CallOf
      <3> QED BY <3>2, <3>3
    <2> QED BY <2>1, <2>2, <2>3, CallsStep
  <1>5. Connection'
    BY <1>0, <1>f DEF SendDone, Connection, Untouched
  <1> QED BY <1>1, <1>2, <1>4, <1>5 DEF Base

LEMMA RemoveBase ==
    ASSUME Base, NEW t \in Tasks, RemoveEntry(t)
    PROVE  Base'
  <1>0. ClientShape /\ Whereabouts /\ Calls /\ Connection
    BY DEF Base
  <1>1. ClientShape' /\ Connection' /\ Whereabouts'
    BY <1>0, RemoveFacts DEF RemoveDone, ClientShape, Connection, Whereabouts, Queued, Untouched
  <1>2. CallOf(t)'
    BY RemoveFacts DEF RemoveDone, CallOf, Free
  <1>3. Calls'
    BY <1>2, RemoveFacts, CallsStep DEF RemoveDone
  <1> QED BY <1>0, <1>1, <1>3 DEF Base

-----------------------------------------------------------------------------
(* The agent's steps.                                                      *)

(* Serve: the head of the queue is sent; an unsubscribe takes the topic    *)
(* from the broker, a subscribe brings it or is denied.                    *)
ServeDone(i) ==
    /\ UNCHANGED <<list, task, session, believed, unsure, orphans, alive, xIsConnected>>
    /\ agent = "command" /\ xCommandQueue # <<>> /\ xCommandQueue' = Tail(xCommandQueue)
    /\ xCommandQueue' \in Seq(Ops \cup {0})
    /\ \/ /\ i = Disconnect /\ agent' = "drop" /\ UNCHANGED <<pending, subs, op>>
          /\ Queued' = Queued
       \/ /\ i # Disconnect /\ i \in Ops /\ op[i].st = "accepted" /\ agent' = agent
          /\ pending' = Append(pending, i) /\ Range(pending') = Range(pending) \cup {i}
          /\ Queued = Queued' \cup {i}
          /\ \A j \in Ops \ {i} : op'[j] = op[j]
          /\ \/ /\ op'[i] = [op[i] EXCEPT !.st = "sent"]
                /\ op[i].kind = "sub" => subs' = subs \cup {op[i].topic}
                /\ op[i].kind = "unsub" => subs' = subs \ {op[i].topic}
                /\ op[i].kind = "pub" => subs' = subs
             \/ /\ op[i].kind = "sub" /\ subs' = subs
                /\ op'[i] = [op[i] EXCEPT !.st = "denied"]
    /\ op' \in [Ops -> [kind : OpKinds, topic : Filters, st : Stages]] /\ pending' \in Seq(Ops)

LEMMA ServeFacts ==
    ASSUME Base, Serve
    PROVE  ServeDone(Head(xCommandQueue))
  <1> USE DEF ServeDone
  <1> SUFFICES ASSUME NEW i, i = Head(xCommandQueue)
               PROVE  ServeDone(i)
    OBVIOUS
  <1>1. /\ op \in [Ops -> [kind : OpKinds, topic : Filters, st : Stages]]
        /\ xCommandQueue \in Seq(Ops \cup {0}) /\ pending \in Seq(Ops)
    BY DEF Base, ClientShape
  <1>2. /\ UNCHANGED <<list, task, session, believed, unsure, orphans, alive, xIsConnected>>
        /\ agent = "command" /\ xCommandQueue # <<>> /\ xCommandQueue' = Tail(xCommandQueue)
    BY DEF Serve, client, hist
  <1>3. /\ xCommandQueue' \in Seq(Ops \cup {0}) /\ i \in Ops \cup {0}
        /\ Range(xCommandQueue) = Range(xCommandQueue') \cup {i}
    <2> HIDE DEF Ops
    <2> QED BY <1>1, <1>2, RangeTail
  <1>4. CASE i = Disconnect
    BY <1>1, <1>2, <1>3, <1>4 DEF Serve, Queued
  <1>5. CASE i # Disconnect
    <2>1. i \in Ops /\ Queued = Queued' \cup {i} /\ i \in Queued
      BY <1>3, <1>5 DEF Queued, Disconnect
    <2>2. op[i].st = "accepted"
      BY <2>1 DEF Base, Whereabouts
    <2>3. /\ pending' = Append(pending, i) /\ agent' = agent
          /\ \/ /\ op' = [op EXCEPT ![i].st = "sent"]
                /\ subs' = CASE op[i].kind = "sub"   -> subs \cup {op[i].topic}
                             [] op[i].kind = "unsub" -> subs \ {op[i].topic}
                             [] OTHER -> subs
             \/ op[i].kind = "sub" /\ op' = [op EXCEPT ![i].st = "denied"] /\ subs' = subs
      BY <1>5 DEF Serve
    <2>4. pending' \in Seq(Ops) /\ Range(pending') = Range(pending) \cup {i}
      BY <1>1, <2>1, <2>3, RangeAppend
    <2>5. /\ op' \in [Ops -> [kind : OpKinds, topic : Filters, st : Stages]]
          /\ \A j \in Ops \ {i} : op'[j] = op[j]
      <3>1. {"sent", "denied"} \subseteq Stages
        BY DEF Stages
      <3> QED BY <3>1, <1>1, <2>1, <2>3
    <2>6. CASE op' = [op EXCEPT ![i].st = "sent"] /\ subs' = CASE op[i].kind = "sub"   -> subs \cup {op[i].topic}
                             [] op[i].kind = "unsub" -> subs \ {op[i].topic}
                             [] OTHER -> subs
      <3>1. op'[i] = [op[i] EXCEPT !.st = "sent"]
        BY <1>1, <2>1, <2>6
      <3> QED BY <1>2, <1>3, <1>5, <2>1, <2>2, <2>3, <2>4, <2>5, <2>6, <3>1
    <2>7. CASE op[i].kind = "sub" /\ op' = [op EXCEPT ![i].st = "denied"] /\ subs' = subs
      <3>1. op'[i] = [op[i] EXCEPT !.st = "denied"]
        BY <1>1, <2>1, <2>7
      <3> QED BY <1>2, <1>3, <1>5, <2>1, <2>2, <2>3, <2>4, <2>5, <2>7, <3>1
    <2> QED BY <2>3, <2>6, <2>7
  <1> QED BY <1>4, <1>5

(* Ack: the oldest operation is concluded.                                 *)
AckDone(i) ==
    /\ UNCHANGED <<list, xCommandQueue, agent, task, session, subs, alive, xIsConnected, orphans>>
    /\ agent = "command" /\ pending # <<>> /\ pending' = Tail(pending) /\ pending' \in Seq(Ops)
    /\ i \in Ops /\ Range(pending) = Range(pending') \cup {i}
    /\ \A j \in Ops \ {i} : op'[j] = op[j]
    /\ \/ /\ op[i].st = "sent" /\ op'[i] = [op[i] EXCEPT !.st = "ok"]
          /\ op[i].kind = "sub" => believed' = believed \cup {op[i].topic} /\ unsure' = unsure \ {op[i].topic}
          /\ op[i].kind = "unsub" => believed' = believed \ {op[i].topic} /\ unsure' = unsure
          /\ op[i].kind = "pub" => believed' = believed /\ unsure' = unsure
       \/ /\ op[i].st = "denied" /\ op[i].kind = "sub" /\ op'[i] = [op[i] EXCEPT !.st = "failed"]
          /\ believed' = believed \ {op[i].topic} /\ unsure' = unsure \cup ({op[i].topic} \cap list)
    /\ op' \in [Ops -> [kind : OpKinds, topic : Filters, st : Stages]]

LEMMA AckFacts ==
    ASSUME Base, Ack
    PROVE  AckDone(Head(pending))
  <1> USE DEF AckDone
  <1> SUFFICES ASSUME NEW i, i = Head(pending)
               PROVE  AckDone(i)
    OBVIOUS
  <1>1. op \in [Ops -> [kind : OpKinds, topic : Filters, st : Stages]] /\ pending \in Seq(Ops)
    BY DEF Base, ClientShape
  <1>2. /\ UNCHANGED <<list, xCommandQueue, agent, task, session, subs, alive, xIsConnected, orphans>>
        /\ agent = "command" /\ pending # <<>> /\ pending' = Tail(pending)
    BY DEF Ack, client, broker
  <1>3. pending' \in Seq(Ops) /\ i \in Ops /\ Range(pending) = Range(pending') \cup {i}
    <2> HIDE DEF Ops
    <2> QED BY <1>1, <1>2, RangeTail
  <1>4. op[i].st \in {"sent", "denied"} /\ (op[i].st = "denied" => op[i].kind = "sub")
    BY <1>3 DEF Base, Whereabouts
  <1>5. ASSUME NEW s, s \in {"ok", "failed"}, op' = Concluded({i}, s)
        PROVE  /\ op' \in [Ops -> [kind : OpKinds, topic : Filters, st : Stages]]
               /\ op'[i] = [op[i] EXCEPT !.st = s] /\ \A j \in Ops \ {i} : op'[j] = op[j]
    BY <1>1, <1>3, <1>5 DEF Concluded, Stages
  <1>6. /\ op[i].kind = "sub" => SubTopics({i}) = {op[i].topic}
        /\ op[i].kind # "sub" => SubTopics({i}) = {}
    BY DEF SubTopics
  <1>7. CASE op[i].st = "sent"
    <2>1. /\ op' = Concluded({i}, "ok")
          /\ believed' = CASE op[i].kind = "sub"   -> believed \cup {op[i].topic}
                           [] op[i].kind = "unsub" -> believed \ {op[i].topic}
                           [] OTHER -> believed
          /\ unsure' = unsure \ SubTopics({i})
      BY <1>7 DEF Ack
    <2>2. /\ op' \in [Ops -> [kind : OpKinds, topic : Filters, st : Stages]]
          /\ op'[i] = [op[i] EXCEPT !.st = "ok"] /\ \A j \in Ops \ {i} : op'[j] = op[j]
      BY <1>5, <2>1
    <2>3. /\ op[i].kind = "sub" => believed' = believed \cup {op[i].topic} /\ unsure' = unsure \ {op[i].topic}
          /\ op[i].kind = "unsub" => believed' = believed \ {op[i].topic} /\ unsure' = unsure
          /\ op[i].kind = "pub" => believed' = believed /\ unsure' = unsure
      BY <1>6, <2>1
    <2> QED BY <1>2, <1>3, <1>7, <2>2, <2>3
  <1>8. CASE op[i].st = "denied"
    <2>1. /\ op' = Concluded({i}, "failed")
          /\ believed' = believed \ {op[i].topic}
          /\ unsure' = unsure \cup (SubTopics({i}) \cap list)
      BY <1>8 DEF Ack
    <2> QED BY <1>2, <1>3, <1>4, <1>5, <1>6, <1>8, <2>1
  <1> QED BY <1>4, <1>7, <1>8

-----------------------------------------------------------------------------
(* The order of the operations on a topic.                                 *)

(* No operation is twice in the sequence, and those on one topic stand in  *)
(* the order in which they began.                                          *)
Sorted(s) ==
    \A p, n \in DOMAIN s :
        p < n /\ s[p] # Disconnect /\ s[n] # Disconnect
            => s[p] # s[n] /\ (Same(s[p], s[n]) => s[p] < s[n])

(* A task in a call has the last operation begun on its topic.             *)
Turn == \A t \in Tasks, i \in Ops :
            task[t].at # "idle" /\ Outstanding(i) /\ Same(i, task[t].op) => i <= task[t].op

Order ==
    /\ Sorted(xCommandQueue) /\ Sorted(pending)
    /\ \A i \in Range(pending), j \in Queued : Same(i, j) => i < j
    /\ Turn

LEMMA SortedAppend ==
    ASSUME NEW s \in Seq(Ops \cup {0}), Sorted(s), NEW e \in Ops \cup {0},
           e # Disconnect => \A j \in Range(s) \ {Disconnect} : j # e /\ (Same(j, e) => j < e)
    PROVE  Sorted(Append(s, e))
  <1>1. /\ DOMAIN s = 1..Len(s) /\ Len(s) \in Nat /\ DOMAIN Append(s, e) = 1..(Len(s) + 1)
        /\ \A p \in 1..Len(s) : Append(s, e)[p] = s[p]
        /\ Append(s, e)[Len(s) + 1] = e
    OBVIOUS
  <1> DEFINE r == Append(s, e)
  <1>2. SUFFICES ASSUME NEW p \in 1..(Len(s) + 1), NEW n \in 1..(Len(s) + 1), p < n,
                        r[p] # Disconnect, r[n] # Disconnect
                 PROVE  r[p] # r[n] /\ (Same(r[p], r[n]) => r[p] < r[n])
    BY <1>1 DEF Sorted
  <1>3. p \in 1..Len(s) /\ r[p] = s[p] /\ r[p] \in Range(s)
    BY <1>1, <1>2 DEF Range
  <1>4. CASE n \in 1..Len(s)
    <2>1. r[n] = s[n]
      BY <1>1, <1>4
    <2> HIDE DEF r
    <2> QED BY <2>1, <1>1, <1>2, <1>3, <1>4 DEF Sorted
  <1>5. CASE n = Len(s) + 1
    <2>1. r[n] = e
      BY <1>1, <1>5
    <2> HIDE DEF r
    <2> QED BY <2>1, <1>2, <1>3
  <1> QED BY <1>1, <1>4, <1>5

LEMMA SortedTail ==
    ASSUME NEW s \in Seq(Ops \cup {0}), s # <<>>, Sorted(s)
    PROVE  /\ Sorted(Tail(s))
           /\ Head(s) # Disconnect =>
                 \A j \in Range(Tail(s)) \ {Disconnect} :
                     j # Head(s) /\ (Same(Head(s), j) => Head(s) < j)
  <1>1. /\ Len(s) \in Nat \ {0} /\ Head(s) = s[1] /\ DOMAIN s = 1..Len(s)
        /\ DOMAIN Tail(s) = 1..(Len(s) - 1)
        /\ \A p \in 1..(Len(s) - 1) : Tail(s)[p] = s[p + 1]
    OBVIOUS
  <1> DEFINE r == Tail(s)
  <1>2. \A p \in 1..(Len(s) - 1) : r[p] = s[p + 1] /\ p + 1 \in DOMAIN s /\ 1 < p + 1
    BY <1>1
  <1>3. DOMAIN r = 1..(Len(s) - 1) /\ 1 \in DOMAIN s
    BY <1>1
  <1> HIDE DEF r
  <1>4. Sorted(r)
    <2> SUFFICES ASSUME NEW p \in 1..(Len(s) - 1), NEW n \in 1..(Len(s) - 1), p < n,
                        r[p] # Disconnect, r[n] # Disconnect
                 PROVE  r[p] # r[n] /\ (Same(r[p], r[n]) => r[p] < r[n])
      BY <1>3 DEF Sorted
    <2>1. /\ p + 1 \in DOMAIN s /\ n + 1 \in DOMAIN s /\ p + 1 < n + 1
          /\ r[p] = s[p + 1] /\ r[n] = s[n + 1]
      BY <1>2
    <2> QED BY <2>1 DEF Sorted
  <1>5. ASSUME Head(s) # Disconnect, NEW j \in Range(r) \ {Disconnect}
        PROVE  j # Head(s) /\ (Same(Head(s), j) => Head(s) < j)
    <2>1. PICK p \in 1..(Len(s) - 1) : j = r[p]
      BY <1>3 DEF Range
    <2>2. j = s[p + 1] /\ p + 1 \in DOMAIN s /\ 1 < p + 1 /\ Head(s) = s[1]
      BY <1>1, <1>2, <2>1
    <2> QED BY <2>2, <1>3, <1>5 DEF Sorted
  <1> QED BY <1>4, <1>5 DEF r

(* The order is that of operations whose kind and topic stay.              *)
LEMMA SortedKept ==
    ASSUME NEW s \in Seq(Ops \cup {0}), Sorted(s),
           \A j \in Range(s) \ {Disconnect} : op'[j].kind = op[j].kind /\ op'[j].topic = op[j].topic
    PROVE  Sorted(s)'
  <1>1. \A p \in DOMAIN s : s[p] \in Range(s)
    BY DEF Range
  <1> QED BY <1>1 DEF Sorted, Same

(* Every operation under way keeps its kind and its topic.                 *)
Named == \A j \in Ops : op[j].st # "new" => op'[j].kind = op[j].kind /\ op'[j].topic = op[j].topic

(* What is in a sequence or in a call has begun.                           *)
LEMMA Begun ==
    ASSUME Base
    PROVE  /\ \A j \in Queued : j \in Ops /\ op[j].st = "accepted"
           /\ \A j \in Range(pending) : j \in Ops /\ op[j].st \in {"sent", "denied"}
           /\ \A t \in Tasks : task[t].at # "idle" => task[t].op \in Ops /\ op[task[t].op].st # "new"
  <1>1. /\ xCommandQueue \in Seq(Ops \cup {0}) /\ pending \in Seq(Ops)
        /\ \A t \in Tasks : task[t].at \in Places
    BY DEF Base, ClientShape
  <1>2. Range(xCommandQueue) \subseteq Ops \cup {0} /\ Range(pending) \subseteq Ops
    <2> HIDE DEF Ops
    <2> QED BY <1>1 DEF Range
  <1>3. ASSUME NEW t \in Tasks, task[t].at # "idle"
        PROVE  task[t].op \in Ops /\ op[task[t].op].st # "new"
    BY <1>1, <1>3 DEF Base, Calls, CallOf, Places
  <1> QED BY <1>2, <1>3 DEF Base, Whereabouts, Queued, Disconnect

(* The two sequences stay, or a disconnection is queued.                   *)
LEMMA OrderKept ==
    ASSUME Base, Order, Named, UNCHANGED pending, Queued' = Queued,
           xCommandQueue' = xCommandQueue \/ xCommandQueue' = Append(xCommandQueue, Disconnect),
           Turn'
    PROVE  Order'
  <1>1. xCommandQueue \in Seq(Ops \cup {0}) /\ pending \in Seq(Ops \cup {0})
    BY DEF Base, ClientShape
  <1>2. PICK s \in Seq(Ops \cup {0}) : s = xCommandQueue' /\ Sorted(s)
    <2>1. Sorted(Append(xCommandQueue, Disconnect))
      BY <1>1, SortedAppend DEF Order, Disconnect
    <2>2. xCommandQueue' \in Seq(Ops \cup {0})
      BY <1>1 DEF Disconnect
    <2> QED BY <1>1, <2>1, <2>2 DEF Order
  <1>3. Range(s) \ {Disconnect} = Queued
    BY <1>2 DEF Queued
  <1>4. Sorted(s)'
    BY <1>2, <1>3, Begun, SortedKept DEF Named
  <1>5. PICK r \in Seq(Ops \cup {0}) : r = pending
    BY <1>1
  <1>6. Sorted(r)'
    BY <1>5, Begun, SortedKept DEF Named, Order
  <1>7. (Sorted(xCommandQueue) /\ Sorted(pending))'
    BY <1>2, <1>4, <1>5, <1>6 DEF Sorted
  <1>8. \A i \in Range(pending)', j \in Queued' : Same(i, j)' => i < j
    BY Begun DEF Order, Same, Named
  <1> QED BY <1>7, <1>8 DEF Order

(* No operation is newly open and no call is new.                          *)
LEMMA TurnKept ==
    ASSUME Base, Order, Named,
           \A j \in Ops : Outstanding(j)' => Outstanding(j),
           \A s \in Tasks : task'[s].at # "idle" => task[s].at # "idle" /\ task'[s].op = task[s].op
    PROVE  Turn'
  <1> SUFFICES ASSUME NEW s \in Tasks, NEW j \in Ops, task'[s].at # "idle", Outstanding(j)', Same(j, task[s].op)'
               PROVE  j <= task'[s].op
    BY DEF Turn
  <1>1. task[s].at # "idle" /\ task'[s].op = task[s].op /\ Outstanding(j)
    OBVIOUS
  <1>2. task[s].op \in Ops /\ op[task[s].op].st # "new" /\ op[j].st # "new"
    BY <1>1, Begun DEF Outstanding
  <1>3. Same(j, task[s].op)
    BY <1>1, <1>2 DEF Same, Named
  <1> QED BY <1>1, <1>3 DEF Order, Turn

LEMMA QuietOrder ==
    ASSUME Base, Order, Elsewhere
    PROVE  Order' /\ Named
  <1>1. Named /\ UNCHANGED <<op, task, xCommandQueue, pending>> /\ Queued' = Queued
    BY QuietFrame DEF Named, Queued
  <1>2. Turn'
    BY <1>1, TurnKept DEF Outstanding
  <1> QED BY <1>1, <1>2, OrderKept

LEMMA DisconnectOrder ==
    ASSUME Base, Order, DisconnectSend \/ ForceReconnect
    PROVE  Order' /\ Named
  <1>1. Named
    BY DisconnectQueued DEF Named
  <1>2. Turn'
    BY <1>1, DisconnectQueued, TurnKept DEF Outstanding
  <1> QED BY <1>1, <1>2, DisconnectQueued, OrderKept

(* What a beginning operation changes.                                     *)
BeginDone(t, i) ==
    /\ task[t].at = "idle" /\ UNCHANGED <<list, xCommandQueue, pending, session, subs>>
    /\ UNCHANGED <<believed, unsure, orphans, agent, alive, xIsConnected>>
    /\ i \in Ops /\ op[i].st = "new" /\ \A j \in Ops : j < i => op[j].st # "new"
    /\ \A j \in Ops \ {i} : op'[j] = op[j]
    /\ op'[i].st \in {"begun", "refused"}
    /\ \A s \in Tasks \ {t} : task'[s] = task[s]
    /\ \/ task'[t] = task[t]
       \/ /\ task'[t].op = i /\ ~task'[t].added /\ task'[t].at \in {"list", "send"}
          /\ task'[t].at = "send" => op'[i].kind # "sub"

LEMMA BeginFacts ==
    ASSUME Base, NEW t \in Tasks, Begin(t)
    PROVE  \E i : BeginDone(t, i)
  <1>1. PICK i \in Ops, k \in OpKinds, f \in Topics :
          /\ op[i].st = "new" /\ \A j \in 1..(i - 1) : op[j].st # "new"
          /\ op' = [op EXCEPT ![i] = [kind |-> k, topic |-> f, st |-> op'[i].st]]
          /\ \/ /\ op'[i].st = "begun"
                /\ task' = [task EXCEPT ![t] = [op |-> i, added |-> FALSE,
                                                at |-> IF k = "sub" THEN "list" ELSE "send"]]
             \/ op'[i].st = "refused" /\ task' = task
    BY DEF Begin, Base, ClientShape
  <1>2. /\ task[t].at = "idle" /\ UNCHANGED <<list, xCommandQueue, pending, session, subs>>
        /\ UNCHANGED <<believed, unsure, orphans, agent, alive, xIsConnected>>
    BY DEF Begin, client, broker, hist
  <1>3. \A j \in Ops : j < i => op[j].st # "new"
    BY <1>1 DEF Ops
  <1>4. \A j \in Ops \ {i} : op'[j] = op[j]
    BY <1>1 DEF Base, ClientShape
  <1>5. /\ \A s \in Tasks \ {t} : task'[s] = task[s]
        /\ \/ task'[t] = task[t]
           \/ /\ task'[t].op = i /\ ~task'[t].added /\ task'[t].at \in {"list", "send"}
              /\ task'[t].at = "send" => op'[i].kind # "sub"
    <2>1. op'[i].kind = k
      BY <1>1 DEF Base, ClientShape
    <2> QED BY <1>1, <2>1 DEF Base, ClientShape
  <1> QED BY <1>1, <1>2, <1>3, <1>4, <1>5 DEF BeginDone

LEMMA BeginOrder ==
    ASSUME Base, Order, NEW t \in Tasks, Begin(t)
    PROVE  Order' /\ Named
  <1>1. PICK i : BeginDone(t, i)
    BY BeginFacts
  <1>2. Named
    BY <1>1 DEF BeginDone, Named
  <1>3. Turn'
    <2> SUFFICES ASSUME NEW s \in Tasks, NEW j \in Ops, task'[s].at # "idle", Outstanding(j)',
                        Same(j, task[s].op)'
                 PROVE  j <= task'[s].op
      BY DEF Turn
    <2>1. j # i /\ op'[j] = op[j] /\ Outstanding(j) /\ op[j].st # "new"
      BY <1>1 DEF BeginDone, Outstanding
    <2>2. CASE task'[s] = task[s]
      <3>1. task[s].op \in Ops /\ op[task[s].op].st # "new"
        BY <2>2, Begun
      <3>2. Same(j, task[s].op)
        BY <2>1, <2>2, <3>1, <1>2 DEF Named, Same
      <3> QED BY <2>1, <2>2, <3>2 DEF Order, Turn
    <2>3. CASE task'[s] # task[s]
      <3>1. task'[s].op = i /\ i \in Ops /\ op[i].st = "new"
        BY <2>3, <1>1 DEF BeginDone
      <3>2. ~(i < j)
        BY <2>1, <3>1 DEF Base, Whereabouts
      <3> QED BY <3>1, <3>2 DEF Ops
    <2> QED BY <2>2, <2>3
  <1>4. UNCHANGED <<pending, xCommandQueue>> /\ Queued' = Queued
    BY <1>1 DEF BeginDone, Queued
  <1> QED BY <1>2, <1>3, <1>4, OrderKept

LEMMA AddOrder ==
    ASSUME Base, Order, NEW t \in Tasks, AddEntry(t)
    PROVE  Order' /\ Named
  <1>1. PICK i : i = task[t].op /\ AddDone(t, i)
    BY AddFacts
  <1>2. Named /\ \A j \in Ops : Outstanding(j)' => Outstanding(j)
    <2>1. op \in [Ops -> [kind : OpKinds, topic : Filters, st : Stages]]
      BY DEF Base, ClientShape
    <2>2. op'[i].kind = op[i].kind /\ op'[i].topic = op[i].topic /\ (op'[i] = op[i] \/ op'[i].st = "refused")
      BY <2>1, <1>1 DEF AddDone
    <2>3. \A j \in Ops \ {i} : op'[j] = op[j]
      BY <1>1 DEF AddDone
    <2> QED BY <2>2, <2>3 DEF Named, Outstanding
  <1>3. ASSUME NEW s \in Tasks, task'[s].at # "idle" PROVE task[s].at # "idle" /\ task'[s].op = task[s].op
    BY <1>1, <1>3 DEF AddDone, Free
  <1>4. UNCHANGED <<pending, xCommandQueue>> /\ Queued' = Queued
    BY <1>1 DEF AddDone, Queued, Untouched
  <1> QED BY <1>2, <1>3, <1>4, TurnKept, OrderKept

LEMMA RemoveOrder ==
    ASSUME Base, Order, NEW t \in Tasks, RemoveEntry(t)
    PROVE  Order' /\ Named
  <1>1. PICK i : i = task[t].op /\ RemoveDone(t, i)
    BY RemoveFacts
  <1>2. Named /\ \A j \in Ops : Outstanding(j)' => Outstanding(j)
    BY <1>1 DEF RemoveDone, Named, Outstanding
  <1>3. ASSUME NEW s \in Tasks, task'[s].at # "idle" PROVE task[s].at # "idle" /\ task'[s].op = task[s].op
    BY <1>1, <1>3 DEF RemoveDone, Free
  <1>4. UNCHANGED <<pending, xCommandQueue>> /\ Queued' = Queued
    BY <1>1 DEF RemoveDone, Queued, Untouched
  <1> QED BY <1>2, <1>3, <1>4, TurnKept, OrderKept

(* A queued operation is the last of its topic, since its task had the     *)
(* turn and no other is in a call on that topic.                           *)
LEMMA SendOrder ==
    ASSUME Base, Order, Alone, NEW t \in Tasks, Send(t)
    PROVE  Order' /\ Named
  <1>1. PICK i : i = task[t].op /\ SendDone(t, i)
    BY SendFacts
  <1>2. /\ i \in Ops /\ op[i].st = "begun" /\ task[t].at # "idle" /\ pending' = pending
        /\ \A j \in Ops \ {i} : op'[j] = op[j]
        /\ op'[i].kind = op[i].kind /\ op'[i].topic = op[i].topic
    <2>1. op \in [Ops -> [kind : OpKinds, topic : Filters, st : Stages]]
      BY DEF Base, ClientShape
    <2>2. /\ i \in Ops /\ op[i].st = "begun" /\ task[t].at # "idle" /\ pending' = pending
          /\ \A j \in Ops \ {i} : op'[j] = op[j]
      BY <1>1 DEF SendDone, Untouched
    <2> QED BY <2>1, <2>2, <1>1 DEF SendDone
  <1>3. Named
    BY <1>2 DEF Named
  <1>4. \A s \in Tasks : task'[s].at # "idle" => task[s].at # "idle" /\ task'[s].op = task[s].op
    BY <1>1 DEF SendDone, Free
  <1>5. Turn'
    <2> SUFFICES ASSUME NEW s \in Tasks, NEW j \in Ops, task'[s].at # "idle", Outstanding(j)',
                        Same(j, task[s].op)'
                 PROVE  j <= task'[s].op
      BY DEF Turn
    <2>1. task[s].at # "idle" /\ task'[s].op = task[s].op /\ task[s].op \in Ops
      BY <1>4, Begun
    <2>2. Same(j, task[s].op)
      BY <1>2, <2>1 DEF Same
    <2>3. CASE j # i
      BY <2>1, <2>2, <2>3, <1>2 DEF Outstanding, Order, Turn
    <2>4. CASE j = i
      <3>1. s = t
        BY <2>1, <2>2, <2>4, <1>1, <1>2 DEF Alone, Same
      <3> QED BY <3>1, <2>1, <2>4, <1>1 DEF Ops
    <2> QED BY <2>3, <2>4
  <1>6. CASE xCommandQueue' = Append(xCommandQueue, i) /\ Queued' = Queued \cup {i}
    <2>1. \A j \in Queued \cup Range(pending) : j \in Ops /\ j # i /\ (Same(j, i) => j < i)
      <3> SUFFICES ASSUME NEW j \in Queued \cup Range(pending)
                   PROVE  j \in Ops /\ j # i /\ (Same(j, i) => j < i)
        OBVIOUS
      <3>1. j \in Ops /\ Outstanding(j) /\ j # i
        BY <1>2, Begun DEF Outstanding
      <3> QED BY <3>1, <1>1, <1>2 DEF Order, Turn, Ops
    <2>2. xCommandQueue \in Seq(Ops \cup {0}) /\ pending \in Seq(Ops \cup {0}) /\ i # Disconnect
      <3>1. i # Disconnect
        BY <1>2 DEF Disconnect, Ops
      <3> QED BY <3>1 DEF Base, ClientShape
    <2>3. PICK s \in Seq(Ops \cup {0}) : s = xCommandQueue' /\ Sorted(s)
      <3>1. Sorted(Append(xCommandQueue, i))
        BY <2>1, <2>2, <1>2, SortedAppend DEF Order, Queued
      <3>2. Append(xCommandQueue, i) \in Seq(Ops \cup {0})
        BY <2>2, <1>2
      <3> QED BY <3>1, <3>2, <1>6
    <2>4. \A j \in Range(s) \ {Disconnect} : op'[j].kind = op[j].kind /\ op'[j].topic = op[j].topic
      <3>1. Range(s) \ {Disconnect} = Queued \cup {i}
        BY <2>3, <1>6 DEF Queued
      <3> QED BY <3>1, <2>1, <1>2
    <2>5. Sorted(s)'
      BY <2>3, <2>4, SortedKept
    <2>6. PICK r \in Seq(Ops \cup {0}) : r = pending
      BY <2>2
    <2>7. Sorted(r)'
      BY <2>6, Begun, <1>3, SortedKept DEF Named, Order
    <2>8. (Sorted(xCommandQueue) /\ Sorted(pending))'
      BY <2>3, <2>5, <2>6, <2>7, <1>2 DEF Sorted
    <2>9. ASSUME NEW j \in Range(pending), NEW k \in Queued', Same(j, k)' PROVE j < k
      <3>1. CASE k = i
        <4>1. j \in Ops /\ j # i /\ op'[j] = op[j]
          BY <2>1, <1>2
        <4>2. Same(j, i)
          BY <4>1, <2>9, <3>1, <1>2 DEF Same
        <4> QED BY <4>2, <3>1, <2>1
      <3>2. CASE k # i
        <4>1. k \in Queued /\ op'[j] = op[j] /\ op'[k] = op[k]
          BY <2>1, <3>2, <1>2, <1>6
        <4> QED BY <4>1, <2>9 DEF Same, Order
      <3> QED BY <3>1, <3>2
    <2>10. Range(pending)' = Range(pending)
      BY <1>2
    <2>11. (\A j \in Range(pending), k \in Queued : Same(j, k) => j < k)'
      BY <2>9, <2>10
    <2> QED BY <2>8, <2>11, <1>3, <1>5 DEF Order
  <1>7. CASE xCommandQueue' = xCommandQueue /\ Queued' = Queued
    BY <1>2, <1>3, <1>5, <1>7, OrderKept
  <1>8. \/ xCommandQueue' = Append(xCommandQueue, i) /\ Queued' = Queued \cup {i}
        \/ xCommandQueue' = xCommandQueue /\ Queued' = Queued
    BY <1>1 DEF SendDone
  <1> QED BY <1>3, <1>6, <1>7, <1>8

(* The head of the queue is before all else on its topic, behind what is   *)
(* pending.                                                                *)
LEMMA ServeFirst ==
    ASSUME Base, Order, NEW i, ServeDone(i), i = Head(xCommandQueue), i # Disconnect
    PROVE  /\ i \in Queued /\ \A j \in Queued' : j # i /\ (Same(i, j) => i < j)
           /\ \A j \in Range(pending) : j # i /\ (Same(j, i) => j < i)
           /\ Sorted(Tail(xCommandQueue)) /\ Sorted(Append(pending, i))
  <1>1. /\ xCommandQueue \in Seq(Ops \cup {0}) /\ pending \in Seq(Ops \cup {0}) /\ xCommandQueue # <<>>
        /\ xCommandQueue' = Tail(xCommandQueue) /\ i \in Queued /\ i \in Ops
    BY DEF Base, ClientShape, ServeDone
  <1>2. /\ Sorted(Tail(xCommandQueue))
        /\ \A j \in Range(Tail(xCommandQueue)) \ {Disconnect} : j # i /\ (Same(i, j) => i < j)
    BY <1>1, SortedTail DEF Order
  <1>3. \A j \in Queued' : j # i /\ (Same(i, j) => i < j)
    BY <1>1, <1>2 DEF Queued
  <1>4. \A j \in Range(pending) : j # i /\ (Same(j, i) => j < i)
    BY <1>1, Begun DEF Order
  <1>5. Sorted(Append(pending, i))
    BY <1>1, <1>4, SortedAppend DEF Order
  <1> QED BY <1>1, <1>2, <1>3, <1>4, <1>5

LEMMA ServeNamed ==
    ASSUME Base, NEW i, ServeDone(i)
    PROVE  /\ Named /\ \A j \in Ops : Outstanding(j)' => Outstanding(j)
           /\ i # Disconnect => /\ op'[i].st \in {"sent", "denied"}
                                /\ op'[i].kind = op[i].kind /\ op'[i].topic = op[i].topic
                                /\ op'[i].st = "denied" => op[i].kind = "sub"
  <1>1. CASE i = Disconnect
    BY <1>1 DEF ServeDone, Named, Outstanding
  <1>2. CASE i # Disconnect
    <2>1. i \in Ops /\ op[i] \in [kind : OpKinds, topic : Filters, st : Stages]
      BY <1>2 DEF Base, ClientShape, ServeDone
    <2>2. /\ op'[i].st \in {"sent", "denied"} /\ op[i].st = "accepted"
          /\ op'[i].kind = op[i].kind /\ op'[i].topic = op[i].topic
          /\ op'[i].st = "denied" => op[i].kind = "sub"
      BY <2>1, <1>2 DEF ServeDone
    <2>3. \A j \in Ops \ {i} : op'[j] = op[j]
      BY <1>2 DEF ServeDone
    <2> QED BY <1>2, <2>2, <2>3 DEF Named, Outstanding
  <1> QED BY <1>1, <1>2

LEMMA ServeBase ==
    ASSUME Base, Order, Serve
    PROVE  Base' /\ Order'
  <1>0. ClientShape /\ Whereabouts /\ Calls /\ Connection
    BY DEF Base
  <1>f. PICK i : i = Head(xCommandQueue) /\ ServeDone(i)
    BY ServeFacts
  <1>1. ClientShape'
    <2>1. agent' \in AgentStates
      BY <1>0, <1>f DEF ServeDone, ClientShape, AgentStates
    <2> QED BY <1>0, <1>f, <2>1 DEF ServeDone, ClientShape
  <1>t. Turn' /\ UNCHANGED <<task, orphans>>
    <2>1. UNCHANGED <<task, orphans>>
      BY <1>f DEF ServeDone
    <2> QED BY <2>1, <1>f, ServeNamed, TurnKept
  <1>2. CASE i = Disconnect
    <2>1. op' = op /\ pending' = pending /\ Queued' = Queued /\ agent' = "drop"
      BY <1>2, <1>f DEF ServeDone, Ops, Disconnect
    <2>2. Whereabouts' /\ Calls'
      BY <1>0, <1>t, <2>1, CallsStay
    <2>3. Connection'
      BY <1>0, <1>2, <2>1, <1>f DEF ServeDone, Connection
    <2>4. PICK s \in Seq(Ops \cup {0}) : s = xCommandQueue' /\ Sorted(s)
      <3>1. xCommandQueue \in Seq(Ops \cup {0}) /\ xCommandQueue # <<>> /\ xCommandQueue' = Tail(xCommandQueue)
            /\ xCommandQueue' \in Seq(Ops \cup {0})
        BY <1>0, <1>f DEF ServeDone, ClientShape
      <3> QED BY <3>1, SortedTail DEF Order
    <2>5. Order'
      BY <2>1, <2>4, <1>t DEF Order, Sorted, Same
    <2> QED BY <1>0, <1>1, <2>2, <2>3, <2>5 DEF Base
  <1>3. CASE i # Disconnect
    <2>1. /\ i \in Ops /\ op[i].st = "accepted" /\ agent' = agent /\ agent = "command"
          /\ Range(pending') = Range(pending) \cup {i} /\ Queued = Queued' \cup {i}
          /\ pending' = Append(pending, i) /\ xCommandQueue' = Tail(xCommandQueue)
          /\ \A j \in Ops \ {i} : op'[j] = op[j]
          /\ UNCHANGED <<xIsConnected, alive, session, believed>>
          /\ pending' \in Seq(Ops) /\ xCommandQueue' \in Seq(Ops \cup {0})
      BY <1>3, <1>f DEF ServeDone
    <2>2. /\ op'[i].kind = op[i].kind /\ op'[i].st \in {"sent", "denied"}
          /\ op'[i].st = "denied" => op[i].kind = "sub"
      BY <1>3, <1>f, ServeNamed
    <2>3. Whereabouts'
      <3>1. i \notin Queued' /\ i \notin Range(pending)
        BY <1>3, <1>f, ServeFirst
      <3>2. \A j \in Ops : /\ op'[j].st = "accepted" <=> j \in Queued'
                           /\ op'[j].st \in {"sent", "denied"} <=> j \in Range(pending')
                           /\ op'[j].st = "denied" => op'[j].kind = "sub"
        BY <3>1, <2>1, <2>2, <1>0 DEF Whereabouts
      <3>3. \A j, k \in Ops : op'[k].st # "new" /\ j < k => op'[j].st # "new"
        BY <2>1, <2>2, <1>0 DEF Whereabouts
      <3>4. \A j \in orphans : op'[j].st # "new"
        BY <2>1, <2>2, <1>0 DEF Whereabouts, ClientShape
      <3> QED BY <3>2, <3>3, <3>4, <1>t DEF Whereabouts
    <2>4. Calls'
      <3>1. \A s \in Tasks : CallOf(s)'
        <4> SUFFICES ASSUME NEW s \in Tasks PROVE CallOf(s)'
          OBVIOUS
        <4>1. CASE task[s].at # "idle" /\ task[s].op = i
          BY <4>1, <1>0, <1>t, <2>1, <2>2 DEF Calls, CallOf
        <4>2. CASE task[s].at # "idle" /\ task[s].op # i
          BY <4>2, <1>0, <1>t, <2>1 DEF Calls, CallOf
        <4>3. CASE task[s].at = "idle"
          BY <4>3, <1>0, <1>t DEF Calls, CallOf, Free
        <4> QED BY <4>1, <4>2, <4>3
      <3> QED BY <3>1, <1>0, <1>t DEF Calls
    <2>5. Connection'
      BY <1>0, <2>1, <1>t DEF Connection
    <2>6. PICK s \in Seq(Ops \cup {0}), r \in Seq(Ops \cup {0}) :
             s = xCommandQueue' /\ Sorted(s) /\ r = pending' /\ Sorted(r)
      <3>1. pending' \in Seq(Ops \cup {0})
        BY <2>1
      <3> QED BY <3>1, <2>1, <1>f, <1>3, ServeFirst
    <2>7. (Sorted(xCommandQueue) /\ Sorted(pending))'
      <3>1. Range(s) \ {Disconnect} = Queued' /\ Range(r) = Range(pending')
        BY <2>6 DEF Queued
      <3>2. Named /\ \A j \in Queued \cup Range(pending) : j \in Ops /\ op[j].st # "new"
        BY <1>f, ServeNamed, Begun
      <3>3. \A j \in Queued' \cup Range(pending') : op'[j].kind = op[j].kind /\ op'[j].topic = op[j].topic
        BY <3>2, <2>1 DEF Named
      <3>4. Sorted(s)' /\ Sorted(r)'
        BY <3>1, <3>3, <2>6, SortedKept
      <3> QED BY <3>4, <2>6 DEF Sorted
    <2>8. (\A j \in Range(pending), k \in Queued : Same(j, k) => j < k)'
      <3> SUFFICES ASSUME NEW j \in Range(pending'), NEW k \in Queued', Same(j, k)' PROVE j < k
        OBVIOUS
      <3>1. k \in Ops /\ j \in Ops /\ op[j].st # "new" /\ op[k].st # "new"
        BY <2>1, Begun
      <3>2. Same(j, k)
        BY <3>1, <1>f, ServeNamed DEF Same, Named
      <3>3. CASE j = i
        BY <3>2, <3>3, <1>3, <1>f, ServeFirst
      <3>4. CASE j # i
        BY <3>2, <3>4, <2>1 DEF Order
      <3> QED BY <3>3, <3>4
    <2>9. Order'
      BY <2>7, <2>8, <1>t DEF Order
    <2> QED BY <1>1, <2>3, <2>4, <2>5, <2>9 DEF Base
  <1> QED BY <1>2, <1>3

(* The oldest pending operation is the first of its topic.                 *)
LEMMA AckFirst ==
    ASSUME Base, Order, NEW i, AckDone(i), i = Head(pending)
    PROVE  /\ i \in Range(pending) /\ \A j \in Range(pending') : j # i /\ (Same(i, j) => i < j)
           /\ \A j \in Queued : Same(i, j) => i < j
           /\ Sorted(Tail(pending))
  <1>1. /\ pending \in Seq(Ops \cup {0}) /\ pending # <<>> /\ pending' = Tail(pending)
        /\ i \in Range(pending) /\ i \in Ops
    BY DEF Base, ClientShape, AckDone
  <1>2. i # Disconnect /\ Disconnect \notin Range(pending')
    <2>1. pending' \in Seq(Ops)
      BY DEF AckDone
    <2>2. Range(pending') \subseteq Ops
      <3> HIDE DEF Ops
      <3> QED BY <2>1 DEF Range
    <2> QED BY <1>1, <2>2 DEF Disconnect, Ops
  <1>3. /\ Sorted(Tail(pending))
        /\ \A j \in Range(Tail(pending)) \ {Disconnect} : j # i /\ (Same(i, j) => i < j)
    BY <1>1, <1>2, SortedTail DEF Order
  <1> QED BY <1>1, <1>2, <1>3 DEF Order

LEMMA AckNamed ==
    ASSUME Base, NEW i, AckDone(i)
    PROVE  /\ Named /\ \A j \in Ops : Outstanding(j)' => Outstanding(j)
           /\ op'[i].st \in {"ok", "failed"} /\ op'[i].kind = op[i].kind /\ op'[i].topic = op[i].topic
           /\ op[i].kind = "unsub" => op[i].st = "sent"
  <1>1. i \in Ops /\ op[i] \in [kind : OpKinds, topic : Filters, st : Stages]
    BY DEF Base, ClientShape, AckDone
  <1>2. /\ op'[i].st \in {"ok", "failed"} /\ op'[i].kind = op[i].kind /\ op'[i].topic = op[i].topic
        /\ op[i].kind = "unsub" => op[i].st = "sent"
    BY <1>1 DEF AckDone
  <1>3. \A j \in Ops \ {i} : op'[j] = op[j]
    BY DEF AckDone
  <1> QED BY <1>2, <1>3 DEF Named, Outstanding

LEMMA AckBase ==
    ASSUME Base, Order, Ack
    PROVE  Base' /\ Order'
  <1>0. ClientShape /\ Whereabouts /\ Calls /\ Connection
    BY DEF Base
  <1>f. PICK i : i = Head(pending) /\ AckDone(i)
    BY AckFacts
  <1>1. ClientShape'
    <2>1. believed' \subseteq Filters
      <3>1. op[i].topic \in Filters /\ op[i].kind \in OpKinds
        BY <1>0, <1>f DEF AckDone, ClientShape
      <3> QED BY <3>1, <1>0, <1>f DEF AckDone, ClientShape, OpKinds
    <2> QED BY <1>0, <1>f, <2>1 DEF AckDone, ClientShape
  <1>2. /\ i \in Ops /\ op[i].st \in {"sent", "denied"} /\ agent = "command"
        /\ UNCHANGED <<agent, alive, xIsConnected, session, task, orphans, xCommandQueue>>
        /\ Range(pending) = Range(pending') \cup {i} /\ pending' = Tail(pending)
        /\ \A j \in Ops \ {i} : op'[j] = op[j]
        /\ pending' \in Seq(Ops \cup {0})
    BY <1>f DEF AckDone
  <1>3. op'[i].st \in {"ok", "failed"} /\ op'[i].kind = op[i].kind /\ Queued' = Queued
    BY <1>2, <1>f, AckNamed DEF Queued
  <1>4. Whereabouts'
    <2>1. i \notin Queued /\ i \notin Range(pending')
      BY <1>0, <1>2, <1>f, AckFirst DEF Whereabouts
    <2>2. \A j \in Ops : /\ op'[j].st = "accepted" <=> j \in Queued'
                         /\ op'[j].st \in {"sent", "denied"} <=> j \in Range(pending')
                         /\ op'[j].st = "denied" => op'[j].kind = "sub"
      BY <2>1, <1>0, <1>2, <1>3 DEF Whereabouts
    <2>3. \A j, k \in Ops : op'[k].st # "new" /\ j < k => op'[j].st # "new"
      BY <1>0, <1>2, <1>3 DEF Whereabouts
    <2>4. \A j \in orphans : op'[j].st # "new"
      BY <1>0, <1>2, <1>3 DEF Whereabouts, ClientShape
    <2> QED BY <2>2, <2>3, <2>4, <1>2 DEF Whereabouts
  <1>5. Calls'
    <2>1. ASSUME NEW s \in Tasks PROVE CallOf(s)'
      <3>1. CASE task[s].at # "idle" /\ task[s].op = i
        <4>1. op[i].st = "sent" /\ op[i].kind = "unsub" /\ task[s].at = "remove"
          BY <3>1, <1>0, <1>2 DEF Calls, CallOf, ClientShape, Places
        <4> QED BY <4>1, <3>1, <1>0, <1>2, <1>3 DEF Calls, CallOf
      <3>2. CASE task[s].at # "idle" /\ task[s].op # i
        BY <3>2, <1>0, <1>2 DEF Calls, CallOf
      <3>3. CASE task[s].at = "idle"
        BY <3>3, <1>0, <1>2 DEF Calls, CallOf, Free
      <3> QED BY <3>1, <3>2, <3>3
    <2> QED BY <2>1, <1>0, <1>2 DEF Calls
  <1>6. Connection'
    <2>1. xIsConnected
      BY <1>0, <1>2 DEF Connection
    <2> QED BY <2>1, <1>0, <1>2, <1>3 DEF Connection
  <1>7. Order'
    <2>1. Turn' /\ Named
      BY <1>f, <1>2, AckNamed, TurnKept
    <2>2. PICK s \in Seq(Ops \cup {0}), r \in Seq(Ops \cup {0}) :
             s = xCommandQueue /\ Sorted(s) /\ r = pending' /\ Sorted(r)
      BY <1>0, <1>2, <1>f, AckFirst DEF Order, ClientShape
    <2>3. (Sorted(xCommandQueue) /\ Sorted(pending))'
      <3>1. Range(s) \ {Disconnect} = Queued /\ Range(r) = Range(pending')
        BY <2>2 DEF Queued
      <3>2. Sorted(s)' /\ Sorted(r)'
        BY <3>1, <2>1, <2>2, <1>2, Begun, SortedKept DEF Named
      <3> QED BY <3>2, <2>2, <1>2 DEF Sorted
    <2>4. (\A j \in Range(pending), k \in Queued : Same(j, k) => j < k)'
      <3> SUFFICES ASSUME NEW j \in Range(pending'), NEW k \in Queued', Same(j, k)' PROVE j < k
        OBVIOUS
      <3>1. /\ k \in Ops /\ j \in Ops /\ op[j].st # "new" /\ op[k].st # "new"
            /\ j \in Range(pending) /\ k \in Queued
        BY <1>2, <1>3, Begun
      <3>2. Same(j, k)
        BY <3>1, <2>1 DEF Same, Named
      <3> QED BY <3>1, <3>2 DEF Order
    <2> QED BY <2>1, <2>3, <2>4 DEF Order
  <1> QED BY <1>1, <1>4, <1>5, <1>6, <1>7 DEF Base

(* Every open operation is concluded, and nothing is under way.            *)
Cancelled ==
    /\ UNCHANGED <<list, task, session, subs, believed, orphans, alive, xIsConnected>>
    /\ xCommandQueue' = <<>> /\ pending' = <<>> /\ Queued' = {}
    /\ \A j \in Ops : ~Outstanding(j)'
    /\ \A j \in Ops : op'[j] = op[j] \/ (/\ Outstanding(j) /\ op'[j].st = "failed"
                                         /\ op'[j].kind = op[j].kind /\ op'[j].topic = op[j].topic)
    /\ unsure \subseteq unsure'
    /\ \A j \in Ops : Outstanding(j) /\ op[j].kind = "sub" /\ op[j].topic \in list => op[j].topic \in unsure'
    /\ op' \in [Ops -> [kind : OpKinds, topic : Filters, st : Stages]]

LEMMA CancelFacts ==
    ASSUME Base, DropCancel \/ AgentExit
    PROVE  Cancelled
  <1>1. /\ UNCHANGED <<list, task, session, subs, believed, orphans, alive, xIsConnected>> /\ CancelAll
    BY DEF DropCancel, AgentExit, client, broker
  <1>2. op \in [Ops -> [kind : OpKinds, topic : Filters, st : Stages]]
    BY DEF Base, ClientShape
  <1>3. PICK done : /\ done = Queued \cup Range(pending) /\ op' = Concluded(done, "failed")
                    /\ xCommandQueue' = <<>> /\ pending' = <<>>
                    /\ unsure' = unsure \cup (SubTopics(done) \cap list)
    BY <1>1 DEF CancelAll
  <1>4. Queued' = {}
    BY <1>3, NothingQueued DEF Queued
  <1>5. \A j \in Ops : j \in done <=> Outstanding(j)
    BY <1>3 DEF Base, Whereabouts, Outstanding
  <1>6. \A j \in Ops : op'[j] = IF j \in done THEN [op[j] EXCEPT !.st = "failed"] ELSE op[j]
    BY <1>3 DEF Concluded
  <1>7. op' \in [Ops -> [kind : OpKinds, topic : Filters, st : Stages]]
    <2>1. "failed" \in Stages
      BY DEF Stages
    <2>2. \A j \in Ops : [op[j] EXCEPT !.st = "failed"] \in [kind : OpKinds, topic : Filters, st : Stages]
      BY <2>1, <1>2
    <2> QED BY <2>2, <1>2, <1>3 DEF Concluded
  <1>8. \A j \in Ops : j \in done => /\ op'[j].st = "failed"
                                     /\ op'[j].kind = op[j].kind /\ op'[j].topic = op[j].topic
    BY <1>2, <1>6
  <1>9. \A j \in Ops : ~Outstanding(j)'
    BY <1>5, <1>6, <1>8 DEF Outstanding
  <1>10. \A j \in Ops : j \in done /\ op[j].kind = "sub" => op[j].topic \in SubTopics(done)
    BY DEF SubTopics
  <1> QED BY <1>1, <1>3, <1>4, <1>5, <1>6, <1>7, <1>8, <1>9, <1>10 DEF Cancelled

LEMMA CancelBase ==
    ASSUME Base, Order, DropCancel \/ AgentExit
    PROVE  Base' /\ Order' /\ Named
  <1>0. ClientShape /\ Whereabouts /\ Calls /\ Connection
    BY DEF Base
  <1>f. Cancelled
    BY CancelFacts
  <1>n. Named
    BY <1>f DEF Cancelled, Named
  <1>a. \/ agent = "cancel" /\ agent' = "loop"
        \/ agent = "exit" /\ agent' = "exited"
    BY DEF DropCancel, AgentExit
  <1>1. ClientShape'
    BY <1>0, <1>a, <1>f DEF ClientShape, AgentStates, Cancelled
  <1>2. Whereabouts'
    <2>1. \A j \in Ops : op'[j].st \notin {"accepted", "sent", "denied"}
      BY <1>f DEF Cancelled, Outstanding
    <2>2. Queued' = {} /\ Range(pending') = {} /\ orphans' = orphans
      BY <1>f, NothingQueued DEF Cancelled
    <2>3. \A j \in Ops : op'[j].st # "new" <=> op[j].st # "new"
      BY <1>f DEF Cancelled, Outstanding
    <2> QED BY <2>1, <2>2, <2>3, <1>0 DEF Whereabouts, ClientShape
  <1>3. Calls'
    <2>1. task' = task
      BY <1>f DEF Cancelled
    <2>2. ASSUME NEW s \in Tasks PROVE CallOf(s)'
      <3>1. CASE task[s].at = "idle"
        BY <3>1, <2>1, <1>0 DEF Calls, CallOf, Free
      <3>2. CASE task[s].at # "idle"
        <4>1. /\ task[s].op \in Ops /\ op'[task[s].op].kind = op[task[s].op].kind
              /\ \/ op'[task[s].op] = op[task[s].op]
                 \/ op'[task[s].op].st = "failed" /\ op[task[s].op].st \in {"accepted", "sent", "denied"}
          BY <3>2, <1>0, <1>f DEF Calls, CallOf, Cancelled, Outstanding
        <4> QED BY <4>1, <3>2, <2>1, <1>0 DEF Calls, CallOf
      <3> QED BY <3>1, <3>2
    <2> QED BY <2>1, <2>2, <1>0 DEF Calls
  <1>4. Connection'
    BY <1>0, <1>a, <1>f DEF Connection, Cancelled
  <1>5. Order'
    <2>1. Turn'
      BY <1>f, <1>n, TurnKept DEF Cancelled
    <2>2. (Sorted(xCommandQueue) /\ Sorted(pending))'
      BY <1>f DEF Cancelled, Sorted
    <2>3. (\A j \in Range(pending), k \in Queued : Same(j, k) => j < k)'
      BY <1>f DEF Cancelled
    <2> QED BY <2>1, <2>2, <2>3 DEF Order
  <1> QED BY <1>n, <1>1, <1>2, <1>3, <1>4, <1>5 DEF Base

(* The connection goes down, comes up, or the broker forgets it.           *)
LEMMA LinkFacts ==
    ASSUME Drop \/ ConnectAccepted \/ SessionExpires
    PROVE  /\ UNCHANGED <<xCommandQueue, pending, op, task, alive>> /\ Queued' = Queued
           /\ Drop => /\ UNCHANGED <<list, session, subs, unsure, orphans>>
                      /\ agent = "drop" /\ agent' = "cancel" /\ ~xIsConnected' /\ believed' = {}
           /\ ConnectAccepted => /\ agent = "connect" /\ agent' = "up" /\ session' /\ UNCHANGED xIsConnected
                                 /\ orphans' = orphans \cup Crossing
                                 /\ \/ list' = {} /\ believed' = {}
                                    \/ /\ session /\ UNCHANGED <<list, subs, unsure>>
                                       /\ believed' = list
           /\ SessionExpires => /\ UNCHANGED <<list, agent, believed, unsure, orphans, xIsConnected>>
                                /\ agent = "connect" /\ ~session'
  BY DEF Drop, ConnectAccepted, SessionExpires, Queued, client, hist

LEMMA LinkBase ==
    ASSUME Base, Order, Drop \/ ConnectAccepted \/ SessionExpires
    PROVE  Base' /\ Order' /\ Named
  <1>0. ClientShape /\ Whereabouts /\ Calls /\ Connection
    BY DEF Base
  <1>1. ClientShape' /\ Crossing \subseteq Ops
    <2>1. ASSUME NEW s \in Tasks PROVE task[s].op \in Ops \cup {0}
      BY <1>0 DEF ClientShape
    <2>2. Crossing \subseteq Ops
      BY <2>1 DEF Crossing
    <2>3. session' \in BOOLEAN /\ xIsConnected' \in BOOLEAN
      BY <1>0 DEF Drop, ConnectAccepted, SessionExpires, ClientShape, client
    <2> QED BY <2>2, <2>3, <1>0, LinkFacts DEF ClientShape, AgentStates
  <1>2. Whereabouts'
    <2>1. \A j \in Crossing : op[j].st # "new"
      <3>1. \A s \in Tasks : task[s].at = "idle" => task[s].op = 0
        BY <1>0 DEF Calls, CallOf, Free
      <3> QED BY <3>1, Begun DEF Crossing
    <2> QED BY <2>1, <1>0, LinkFacts DEF Whereabouts
  <1>3. Calls'
    BY <1>0, LinkFacts DEF Calls, CallOf
  <1>4. Connection'
    BY <1>0, LinkFacts DEF Connection
  <1>5. Named /\ Turn'
    <2>1. Named
      BY LinkFacts DEF Named
    <2> QED BY <2>1, LinkFacts, TurnKept DEF Outstanding
  <1> QED BY <1>1, <1>2, <1>3, <1>4, <1>5, LinkFacts, OrderKept DEF Base

-----------------------------------------------------------------------------
(* What holds of a topic no SUBSCRIBE of which crossed a reconnection.     *)

Clear(f) == \A j \in orphans : ~(op[j].kind = "sub" /\ op[j].topic = f)

(* The open operations on the topic, and whether one to unsubscribe comes  *)
(* after this one.                                                         *)
Sub(i, f)     == Outstanding(i) /\ op[i].kind = "sub" /\ op[i].topic = f
Unsub(i, f)   == Outstanding(i) /\ op[i].kind = "unsub" /\ op[i].topic = f
Covered(i, f) == \E j \in Ops : i < j /\ Unsub(j, f)

(* The tasks about to send a SUBSCRIBE, to rely on the entry they added,   *)
(* and to remove the topic's entries.                                      *)
Sending(t, f)  == task[t].at = "send" /\ op[task[t].op].kind = "sub" /\ op[task[t].op].topic = f
Adding(t, f)   == task[t].added /\ op[task[t].op].topic = f
Removing(t, f) == task[t].at = "remove" /\ op[task[t].op].topic = f

(* A SUBSCRIBE under way, or about to be sent, has its entry, unless an    *)
(* UNSUBSCRIBE comes after it; so has what is believed.                    *)
InList(f)  == /\ \A i \in Ops : Sub(i, f) => f \in list \/ Covered(i, f)
              /\ \A t \in Tasks : Sending(t, f) => f \in list
Trusted(f) == f \in believed =>
                 f \in list \/ (agent \in {"command", "drop"} /\ \E j \in Ops : Unsub(j, f))

(* Who takes the entry out leaves none of them without it.                 *)
Taken(f) == \A t \in Tasks :
    /\ Adding(t, f) => \A i \in Ops : Sub(i, f) => Covered(i, f)
    /\ Removing(t, f) => Unsub(task[t].op, f) \/ \A i \in Ops : ~Sub(i, f)

(* Somebody will see to the entry of a topic.                              *)
Coming(f) == \E t \in Tasks : Adding(t, f) \/ Removing(t, f)

(* An entry is subscribed, unsure, or somebody sees to it; one that an     *)
(* UNSUBSCRIBE under way will leave behind as well; and a SUBSCRIBE that   *)
(* was sent has subscribed it, unless an UNSUBSCRIBE follows.              *)
Served(f)  == session /\ f \in list =>
                 f \in subs \/ f \in unsure \/ Coming(f) \/ \E i \in Ops : Sub(i, f)
Renewed(f) == f \in list =>
                 \A j \in Ops : Unsub(j, f) => Coming(f) \/ \E i \in Ops : j < i /\ Sub(i, f)
Sent(f)    == \A i \in Ops : Sub(i, f) /\ op[i].st = "sent" => f \in subs \/ Covered(i, f)

Kept(f) == InList(f) /\ Trusted(f) /\ Taken(f) /\ Served(f) /\ Renewed(f) /\ Sent(f)
AllKept == \A f \in Filters : Clear(f) => Kept(f)

LEMMA KeptInit == MqttInit => Order /\ AllKept
  <1> SUFFICES ASSUME MqttInit PROVE Order /\ AllKept
    OBVIOUS
  <1>1. /\ list = {} /\ xCommandQueue = <<>> /\ pending = <<>> /\ believed = {}
        /\ \A i \in Ops : ~Outstanding(i)
        /\ \A t \in Tasks : task[t].at = "idle" /\ ~task[t].added
    BY DEF MqttInit, Fresh, Free, Outstanding
  <1>2. Order
    BY <1>1, NothingQueued DEF Order, Sorted, Turn, Queued
  <1>3. AllKept
    BY <1>1 DEF AllKept, Kept, InList, Trusted, Taken, Served, Renewed, Sent, Sub, Unsub, Sending,
                Adding, Removing
  <1> QED BY <1>2, <1>3

(* The step is not about the topic: open operations and calls on it are    *)
(* the same.                                                               *)
OpsStay(f) == \A j \in Ops :
    /\ Sub(j, f)' <=> Sub(j, f)
    /\ Unsub(j, f)' <=> Unsub(j, f)
CallsOn(f) == \A s \in Tasks :
    /\ Sending(s, f)' => Sending(s, f) \/ f \in list'
    /\ Adding(s, f)' <=> Adding(s, f)
    /\ Removing(s, f)' <=> Removing(s, f)
    /\ Removing(s, f) => task'[s].op = task[s].op /\ task[s].op \in Ops

Aside(f) ==
    /\ OpsStay(f) /\ CallsOn(f)
    /\ f \in list' <=> f \in list
    /\ f \in believed' =>
          f \in list' \/ (f \in believed /\ (agent \in {"command", "drop"} => agent' \in {"command", "drop"}))
    /\ session' => session /\ (f \in subs => f \in subs') /\ (f \in unsure => f \in unsure')
    /\ \A j \in Ops : Sub(j, f)' /\ op'[j].st = "sent" => op[j].st = "sent" /\ (f \in subs => f \in subs')

LEMMA AsideKept ==
    ASSUME NEW f, Kept(f), Aside(f)
    PROVE  Kept(f)'
  <1>1. \A i \in Ops : Covered(i, f)' <=> Covered(i, f)
    BY DEF Aside, OpsStay, Covered
  <1>2. Coming(f)' <=> Coming(f)
    BY DEF Aside, CallsOn, Coming
  <1>3. InList(f)'
    BY <1>1 DEF Kept, InList, Aside, OpsStay, CallsOn
  <1>4. Trusted(f)'
    BY <1>1 DEF Kept, Trusted, Aside, OpsStay
  <1>5. Taken(f)'
    <2>1. ASSUME NEW t \in Tasks, Removing(t, f)' PROVE Unsub(task[t].op, f)' \/ \A i \in Ops : ~Sub(i, f)'
      <3>1. PICK i \in Ops : Removing(t, f) /\ i = task[t].op /\ i = task'[t].op
        BY <2>1 DEF Aside, CallsOn
      <3>2. Unsub(i, f) \/ \A j \in Ops : ~Sub(j, f)
        BY <3>1 DEF Kept, Taken
      <3>3. Unsub(i, f)' \/ \A j \in Ops : ~Sub(j, f)'
        BY <3>2 DEF Aside, OpsStay
      <3> QED BY <3>1, <3>3 DEF Unsub, Outstanding
    <2> QED BY <2>1, <1>1 DEF Kept, Taken, Aside, OpsStay, CallsOn
  <1>6. Served(f)'
    BY <1>2 DEF Kept, Served, Aside, OpsStay
  <1>7. Renewed(f)'
    BY <1>2 DEF Kept, Renewed, Aside, OpsStay
  <1>8. Sent(f)'
    BY <1>1 DEF Kept, Sent, Aside, OpsStay
  <1> QED BY <1>3, <1>4, <1>5, <1>6, <1>7, <1>8 DEF Kept

LEMMA ClearBefore ==
    ASSUME Base, Named, orphans \subseteq orphans', NEW f, Clear(f)'
    PROVE  Clear(f)
  <1>1. \A j \in orphans : j \in Ops /\ op[j].st # "new"
    BY DEF Base, ClientShape, Whereabouts
  <1> QED BY <1>1 DEF Clear, Named

LEMMA OpsSame ==
    ASSUME Named, \A j \in Ops : Outstanding(j)' <=> Outstanding(j), NEW f
    PROVE  OpsStay(f)
  <1>1. \A j \in Ops : Outstanding(j) => op[j].st # "new"
    BY DEF Outstanding
  <1> QED BY <1>1 DEF OpsStay, Sub, Unsub, Named

(* A call that adds or removes an entry is one of a begun operation.       *)
LEMMA CallsBegun ==
    ASSUME Base
    PROVE  \A s \in Tasks : task[s].added \/ task[s].at # "idle" =>
              task[s].at # "idle" /\ task[s].op \in Ops /\ op[task[s].op].st # "new"
  <1>1. \A s \in Tasks : task[s].added => task[s].at # "idle"
    BY DEF Base, Calls, CallOf, Free
  <1> QED BY <1>1, Begun

(* A task whose record stays is about the same topic.                      *)
LEMMA CallSame ==
    ASSUME Base, Named, NEW s \in Tasks, task'[s] = task[s], NEW f
    PROVE  /\ Sending(s, f)' <=> Sending(s, f)
           /\ Adding(s, f)' <=> Adding(s, f)
           /\ Removing(s, f)' <=> Removing(s, f)
           /\ Removing(s, f) => task'[s].op = task[s].op /\ task[s].op \in Ops
  <1>1. CASE task[s].added \/ task[s].at # "idle"
    <2>1. PICK i \in Ops : i = task[s].op /\ op[i].st # "new"
      BY <1>1, CallsBegun
    <2>2. op'[i].kind = op[i].kind /\ op'[i].topic = op[i].topic
      BY <2>1 DEF Named
    <2> QED BY <2>1, <2>2 DEF Sending, Adding, Removing
  <1>2. CASE ~(task[s].added \/ task[s].at # "idle")
    BY <1>2 DEF Sending, Adding, Removing
  <1> QED BY <1>1, <1>2

LEMMA QuietKept ==
    ASSUME Base, Order, Elsewhere, NEW f, Kept(f)
    PROVE  Kept(f)'
  <1>1. Named /\ UNCHANGED <<op, task, list, session, subs, believed, unsure>>
    BY QuietOrder, QuietFrame
  <1>2. OpsStay(f)
    BY <1>1, OpsSame DEF Outstanding
  <1>3. CallsOn(f)
    BY <1>1, CallSame DEF CallsOn
  <1>4. agent \in {"command", "drop"} => agent' \in {"command", "drop"}
    <2>1. agent \in {"command", "drop"} => alive
      BY DEF Base, Connection
    <2> QED BY <2>1 DEF Elsewhere, Connect, WaitConnected, DisconnectFlag, WaitDisconnected, AgentStart,
                        AgentLoop, Break, ConnectFails, ConnectUp, AgentEnd, mqttVars, client, ClientShape, Base
  <1> QED BY <1>1, <1>2, <1>3, <1>4, AsideKept DEF Aside

LEMMA DisconnectKept ==
    ASSUME Base, Order, DisconnectSend \/ ForceReconnect, NEW f, Kept(f)
    PROVE  Kept(f)'
  <1>1. Named /\ UNCHANGED <<op, task, list, session, subs, believed, unsure, agent>>
    BY DisconnectOrder, DisconnectQueued
  <1>2. OpsStay(f)
    BY <1>1, OpsSame DEF Outstanding
  <1>3. CallsOn(f)
    BY <1>1, CallSame DEF CallsOn
  <1> QED BY <1>1, <1>2, <1>3, AsideKept DEF Aside

LEMMA BeginKept ==
    ASSUME Base, Order, NEW t \in Tasks, Begin(t), NEW f, Kept(f)
    PROVE  Kept(f)'
  <1>1. PICK i : BeginDone(t, i)
    BY BeginFacts
  <1>2. Named /\ UNCHANGED <<list, session, subs, believed, unsure, agent>>
    BY <1>1, BeginOrder DEF BeginDone
  <1>3. \A j \in Ops : op'[j] = op[j] \/ (~Outstanding(j) /\ ~Outstanding(j)')
    BY <1>1 DEF BeginDone, Outstanding
  <1>4. OpsStay(f)
    BY <1>2, <1>3, OpsSame DEF Outstanding
  <1>5. CallsOn(f)
    <2>1. CASE task'[t] = task[t]
      BY <2>1, <1>1, <1>2, CallSame DEF CallsOn, BeginDone
    <2>2. CASE task'[t] # task[t]
      <3>1. ASSUME NEW s \in Tasks \ {t}
            PROVE  /\ Sending(s, f)' => Sending(s, f)
                   /\ Adding(s, f)' <=> Adding(s, f)
                   /\ Removing(s, f)' <=> Removing(s, f)
                   /\ Removing(s, f) => task'[s].op = task[s].op /\ task[s].op \in Ops
        BY <1>1, <1>2, CallSame DEF BeginDone
      <3>2. ~task[t].added /\ task[t].at = "idle" /\ ~task'[t].added /\ task'[t].at \in {"list", "send"}
        BY <2>2, <1>1 DEF BeginDone, Base, Calls, CallOf, Free
      <3>3. ~Sending(t, f)'
        BY <2>2, <1>1 DEF BeginDone, Sending
      <3> QED BY <3>1, <3>2, <3>3 DEF CallsOn, Adding, Removing
    <2> QED BY <2>1, <2>2
  <1> QED BY <1>2, <1>3, <1>4, <1>5, AsideKept DEF Aside, Sub

(* The connection: what is believed goes with it, and comes back with the  *)
(* list.  Without the old session the list is cleared; then no SUBSCRIBE   *)
(* of a clear topic is under way.                                          *)
LEMMA LinkKept ==
    ASSUME Base, Order, Drop \/ ConnectAccepted \/ SessionExpires, NEW f, Clear(f)', Kept(f)
    PROVE  Kept(f)'
  <1>1. Named /\ UNCHANGED <<op, task>>
    BY LinkBase, LinkFacts
  <1>2. OpsStay(f) /\ CallsOn(f)
    BY <1>1, OpsSame, CallSame DEF Outstanding, CallsOn
  <1>3. CASE Drop
    BY <1>1, <1>2, <1>3, LinkFacts, AsideKept DEF Aside
  <1>4. agent = "connect" => pending = <<>> /\ Queued \subseteq orphans
    BY DEF Base, Connection
  <1>5. agent = "connect" => \A j \in Ops : op[j].st # "sent"
    BY <1>4, NothingQueued DEF Base, Whereabouts
  <1>6. CASE SessionExpires
    BY <1>1, <1>2, <1>5, <1>6, LinkFacts, AsideKept DEF Aside
  <1>7. CASE ConnectAccepted /\ session /\ UNCHANGED <<list, subs, unsure>> /\ believed' = list
    BY <1>1, <1>2, <1>5, <1>7, LinkFacts, AsideKept DEF Aside
  <1>8. CASE ConnectAccepted /\ list' = {} /\ believed' = {}
    <2>1. agent = "connect" /\ orphans' = orphans \cup Crossing
      BY <1>8, LinkFacts
    <2>2. ASSUME NEW j \in Ops PROVE ~Sub(j, f)
      <3>1. Outstanding(j) => j \in Queued
        BY <1>4, <2>1, NothingQueued DEF Base, Whereabouts, Outstanding
      <3>2. Outstanding(j) => j \in orphans'
        BY <3>1, <1>4, <2>1
      <3> QED BY <3>2, <1>1 DEF Clear, Sub
    <2>3. ASSUME NEW s \in Tasks PROVE ~Sending(s, f)
      <3>1. task[s].at = "send" => task[s].op \in Ops /\ task[s].op # 0
        BY DEF Base, Calls, CallOf, Ops
      <3>2. task[s].at = "send" => task[s].op \in orphans'
        BY <3>1, <2>1 DEF Crossing
      <3> QED BY <3>2, <1>1 DEF Clear, Sending
    <2>4. (\A j \in Ops : ~Sub(j, f))' /\ (\A s \in Tasks : ~Sending(s, f))'
      BY <2>2, <2>3, <1>2, <1>8 DEF OpsStay, CallsOn
    <2> QED BY <2>4, <1>8 DEF Kept, InList, Trusted, Taken, Served, Renewed, Sent
  <1> QED BY <1>3, <1>6, <1>7, <1>8, LinkFacts

(* Nobody else is in a call on the topic.                                  *)
LEMMA NobodyElse ==
    ASSUME Base, Alone, NEW t \in Tasks, task[t].at # "idle", op[task[t].op].kind # "pub",
           NEW s \in Tasks \ {t}, NEW f, f = op[task[t].op].topic
    PROVE  ~Sending(s, f) /\ ~Adding(s, f) /\ ~Removing(s, f)
  <1>1. task[s].added => task[s].at # "idle" /\ op[task[s].op].kind = "sub"
    BY DEF Base, Calls, CallOf, Free
  <1>2. task[s].at = "remove" => op[task[s].op].kind = "unsub"
    BY DEF Base, Calls, CallOf
  <1> QED BY <1>1, <1>2 DEF Alone, Same, Sending, Adding, Removing

(* The new entry: every SUBSCRIBE under way has none and is covered, and   *)
(* the task that added it will send another.                               *)
LEMMA AddKept ==
    ASSUME Base, Order, Alone, NEW t \in Tasks, AddEntry(t), NEW f, Kept(f)
    PROVE  Kept(f)'
  <1>1. PICK i : i = task[t].op /\ AddDone(t, i)
    BY AddFacts
  <1>2. /\ Named /\ UNCHANGED <<session, subs, believed, unsure, agent>>
        /\ \A s \in Tasks \ {t} : task'[s] = task[s]
        /\ \A j \in Ops \ {i} : op'[j] = op[j]
        /\ i \in Ops /\ op[i].st = "begun" /\ op[i].kind = "sub" /\ task[t].at = "list" /\ ~task[t].added
    BY <1>1, AddOrder DEF AddDone, Untouched
  <1>3. op'[i].kind = "sub" /\ op'[i].topic = op[i].topic /\ op'[i].st \in {"begun", "refused"}
    <2>1. op \in [Ops -> [kind : OpKinds, topic : Filters, st : Stages]]
      BY DEF Base, ClientShape
    <2> QED BY <2>1, <1>1, <1>2 DEF AddDone
  <1>4. OpsStay(f)
    BY <1>2, <1>3, OpsSame DEF Outstanding
  <1>5. ASSUME NEW s \in Tasks \ {t}
        PROVE  /\ Sending(s, f)' <=> Sending(s, f)
               /\ Adding(s, f)' <=> Adding(s, f)
               /\ Removing(s, f)' <=> Removing(s, f)
               /\ Removing(s, f) => task'[s].op = task[s].op /\ task[s].op \in Ops
    BY <1>2, CallSame
  <1>6. ~Removing(t, f) /\ ~Removing(t, f)' /\ ~Adding(t, f)
    BY <1>1, <1>2 DEF AddDone, Removing, Adding, Free
  <1>7. CASE list' = list \/ f # op[i].topic
    <2>1. f \in list' <=> f \in list
      BY <1>1, <1>7 DEF AddDone
    <2>2. ~Adding(t, f)'
      BY <1>1, <1>3, <1>7 DEF AddDone, Adding, Free
    <2>3. Sending(t, f)' => f \in list'
      BY <1>1, <1>3, <1>7 DEF AddDone, Sending, Free
    <2>4. CallsOn(f)
      BY <1>5, <1>6, <2>2, <2>3 DEF CallsOn
    <2>5. \A j \in Ops : Sub(j, f)' /\ op'[j].st = "sent" => op[j].st = "sent"
      BY <1>2, <1>3
    <2> QED BY <1>2, <1>4, <2>1, <2>4, <2>5, AsideKept DEF Aside
  <1>8. CASE f = op[i].topic /\ f \notin list /\ f \in list' /\ task'[t].added /\ task'[t].op = i
    <2>1. Adding(t, f)' /\ Coming(f)'
      BY <1>3, <1>8 DEF Adding, Coming
    <2>2. \A j \in Ops : Covered(j, f)' <=> Covered(j, f)
      BY <1>4 DEF OpsStay, Covered
    <2>3. \A j \in Ops : Sub(j, f)' => Covered(j, f)'
      BY <1>4, <1>8, <2>2 DEF Kept, InList, OpsStay
    <2>4. Taken(f)'
      <3>1. \A s \in Tasks : ~Removing(s, f)'
        BY <1>2, <1>5, <1>6, <1>8, <1>1, NobodyElse
      <3> QED BY <3>1, <2>3 DEF Taken
    <2>5. InList(f)' /\ Trusted(f)' /\ Served(f)' /\ Renewed(f)'
      BY <1>8, <2>1 DEF InList, Trusted, Served, Renewed
    <2>6. Sent(f)'
      BY <2>3 DEF Sent
    <2> QED BY <2>4, <2>5, <2>6 DEF Kept
  <1>9. list' = list \/ f # op[i].topic
        \/ (f = op[i].topic /\ f \notin list /\ f \in list' /\ task'[t].added /\ task'[t].op = i)
    BY <1>1 DEF AddDone
  <1> QED BY <1>7, <1>8, <1>9

(* The entry is taken out by the last in a call on the topic, and all that *)
(* are under way are covered.                                              *)
LEMMA RemoveKept ==
    ASSUME Base, Order, Alone, NEW t \in Tasks, RemoveEntry(t), NEW f, Kept(f)
    PROVE  Kept(f)'
  <1>1. PICK i : i = task[t].op /\ RemoveDone(t, i)
    BY RemoveFacts
  <1>2. /\ Named /\ UNCHANGED <<session, subs, agent, op>>
        /\ \A s \in Tasks \ {t} : task'[s] = task[s]
        /\ i \in Ops /\ task[t].at \in {"undo", "remove"} /\ task'[t] = Free
        /\ list' = list \ {op[i].topic} /\ believed' = believed \ {op[i].topic}
        /\ unsure' = unsure \ {op[i].topic}
    BY <1>1, RemoveOrder DEF RemoveDone, Untouched
  <1>3. /\ task[t].at = "undo" => op[i].kind = "sub" /\ task[t].added
        /\ task[t].at = "remove" => op[i].kind = "unsub" /\ ~task[t].added
    BY <1>1, <1>2 DEF Base, Calls, CallOf
  <1>4. OpsStay(f)
    BY <1>2, OpsSame DEF Outstanding
  <1>5. ASSUME NEW s \in Tasks \ {t}
        PROVE  /\ Sending(s, f)' <=> Sending(s, f)
               /\ Adding(s, f)' <=> Adding(s, f)
               /\ Removing(s, f)' <=> Removing(s, f)
               /\ Removing(s, f) => task'[s].op = task[s].op /\ task[s].op \in Ops
    BY <1>2, CallSame
  <1>6. ~Removing(t, f)' /\ ~Adding(t, f)' /\ ~Sending(t, f)'
    BY <1>2 DEF Removing, Adding, Sending, Free
  <1>7. CASE f # op[i].topic
    <2>1. ~Adding(t, f) /\ ~Removing(t, f)
      BY <1>1, <1>7 DEF Adding, Removing
    <2>2. CallsOn(f)
      BY <1>5, <1>6, <2>1 DEF CallsOn
    <2> QED BY <1>2, <1>4, <1>7, <2>2, AsideKept DEF Aside
  <1>8. CASE f = op[i].topic
    <2>1. f \notin list' /\ f \notin believed'
      BY <1>2, <1>8
    <2>2. \A j \in Ops : Covered(j, f)' <=> Covered(j, f)
      BY <1>4 DEF OpsStay, Covered
    <2>3. \A s \in Tasks : ~Sending(s, f)' /\ ~Adding(s, f)' /\ ~Removing(s, f)'
      BY <1>1, <1>2, <1>3, <1>5, <1>6, <1>8, NobodyElse
    <2>4. \A j \in Ops : Sub(j, f) => Covered(j, f)
      <3>1. CASE task[t].at = "undo"
        <4>1. Adding(t, f)
          BY <3>1, <1>1, <1>3, <1>8 DEF Adding
        <4> QED BY <4>1 DEF Kept, Taken
      <3>2. CASE task[t].at = "remove"
        <4>1. Unsub(i, f) \/ \A j \in Ops : ~Sub(j, f)
          BY <3>2, <1>1, <1>8 DEF Removing, Kept, Taken
        <4>2. ASSUME NEW j \in Ops, Sub(j, f) PROVE j < i
          <5>1. Same(j, i) /\ Outstanding(j) /\ j # i
            BY <4>2, <3>2, <1>3, <1>8 DEF Same, Sub
          <5>2. j <= i
            BY <5>1, <3>2, <1>1 DEF Order, Turn
          <5> QED BY <5>1, <5>2, <1>2 DEF Ops
        <4> QED BY <4>1, <4>2, <1>2 DEF Covered
      <3> QED BY <3>1, <3>2, <1>2
    <2>5. InList(f)'
      BY <2>2, <2>3, <2>4, <1>4 DEF InList, OpsStay
    <2>6. Trusted(f)' /\ Served(f)' /\ Renewed(f)' /\ Taken(f)'
      BY <2>1, <2>3 DEF Trusted, Served, Renewed, Taken
    <2>7. Sent(f)'
      BY <2>2, <2>4, <1>4 DEF Sent, OpsStay
    <2> QED BY <2>5, <2>6, <2>7 DEF Kept
  <1> QED BY <1>7, <1>8

(* What is queued is the last on its topic.                                *)
LEMMA SendKept ==
    ASSUME Base, Order, Alone, NEW t \in Tasks, Send(t), NEW f, Clear(f)', Kept(f)
    PROVE  Kept(f)'
  <1>1. PICK i : i = task[t].op /\ SendDone(t, i)
    BY SendFacts
  <1>2. /\ Named /\ UNCHANGED <<session, subs, believed, unsure, agent, list>>
        /\ \A s \in Tasks \ {t} : task'[s] = task[s]
        /\ \A j \in Ops \ {i} : op'[j] = op[j]
        /\ i \in Ops /\ op[i].st = "begun" /\ task[t].at = "send"
    BY <1>1, SendOrder DEF SendDone, Untouched
  <1>3. op'[i].kind = op[i].kind /\ op'[i].topic = op[i].topic /\ op'[i].st \in {"accepted", "refused"}
        /\ op[i].kind \in OpKinds
    <2>1. op \in [Ops -> [kind : OpKinds, topic : Filters, st : Stages]]
      BY DEF Base, ClientShape
    <2> QED BY <2>1, <1>1, <1>2 DEF SendDone
  <1>4. ~Outstanding(i)
    BY <1>2 DEF Outstanding
  <1>5. ASSUME NEW s \in Tasks \ {t}
        PROVE  /\ Sending(s, f)' <=> Sending(s, f)
               /\ Adding(s, f)' <=> Adding(s, f)
               /\ Removing(s, f)' <=> Removing(s, f)
               /\ Removing(s, f) => task'[s].op = task[s].op /\ task[s].op \in Ops
    BY <1>2, CallSame
  <1>6. ~Sending(t, f)' /\ ~Removing(t, f)
    BY <1>1, <1>2 DEF SendDone, Sending, Removing, Free
  <1>7. \A j \in Ops : op'[j].st = "sent" => op[j].st = "sent"
    BY <1>2, <1>3
  <1>8. CASE op'[i].st = "refused"
    <2>1. OpsStay(f)
      BY <1>2, <1>3, <1>4, <1>8, OpsSame DEF Outstanding
    <2>2. Adding(t, f)' <=> Adding(t, f)
      <3>1. task'[t] = IF task[t].added THEN [op |-> i, at |-> "undo", added |-> TRUE] ELSE Free
        BY <1>1, <1>3, <1>8 DEF SendDone, Base, ClientShape
      <3> QED BY <3>1, <1>1, <1>3 DEF Adding, Free
    <2>3. ~Removing(t, f)'
      BY <1>1, <1>3, <1>8 DEF SendDone, Removing, Free, Base, ClientShape
    <2>4. CallsOn(f)
      BY <1>5, <1>6, <2>2, <2>3 DEF CallsOn
    <2> QED BY <1>2, <1>7, <2>1, <2>4, AsideKept DEF Aside
  <1>9. CASE op'[i].st = "accepted"
    <2>1. /\ task'[t] = IF op[i].kind = "unsub" THEN [op |-> i, at |-> "remove", added |-> FALSE] ELSE Free
          /\ ~Adding(t, f)'
      <3>1. task'[t] = IF op[i].kind = "unsub" THEN [op |-> i, at |-> "remove", added |-> FALSE] ELSE Free
        BY <1>1, <1>3, <1>9 DEF SendDone, Base, ClientShape
      <3> QED BY <3>1 DEF Adding, Free
    <2>2. CASE op[i].kind = "pub" \/ op[i].topic # f
      <3>1. OpsStay(f)
        BY <1>2, <1>3, <1>4, <2>2 DEF OpsStay, Sub, Unsub, Outstanding
      <3>2. ~Adding(t, f) /\ ~Removing(t, f)'
        BY <1>1, <1>3, <2>1, <2>2 DEF Adding, Removing, Free, SendDone
      <3>3. CallsOn(f)
        BY <1>5, <1>6, <2>1, <3>2 DEF CallsOn
      <3> QED BY <1>2, <1>7, <3>1, <3>3, AsideKept DEF Aside
    <2>3. CASE op[i].kind # "pub" /\ op[i].topic = f
      <3>1. \A s \in Tasks \ {t} : ~Sending(s, f)' /\ ~Adding(s, f)' /\ ~Removing(s, f)'
        BY <1>1, <1>2, <1>5, <2>3, NobodyElse
      <3>2. \A j \in Ops : /\ Sub(j, f) => Sub(j, f)'
                           /\ Unsub(j, f) => Unsub(j, f)'
                           /\ j # i => /\ Sub(j, f)' => Sub(j, f)
                                       /\ Unsub(j, f)' => Unsub(j, f)
        BY <1>2, <1>4 DEF Sub, Unsub, Outstanding
      <3>3. \A j \in Ops : Covered(j, f) => Covered(j, f)'
        BY <3>2 DEF Covered
      <3>4. Trusted(f)'
        BY <3>2, <1>2 DEF Kept, Trusted
      <3>5. Sent(f)'
        BY <3>2, <3>3, <1>2, <1>3, <1>7, <1>9 DEF Kept, Sent
      <3>6. CASE op[i].kind = "sub"
        <4>1. Sub(i, f)' /\ ~Unsub(i, f)'
          BY <1>3, <1>9, <2>3, <3>6 DEF Sub, Unsub, Outstanding
        <4>2. f \in list'
          BY <1>1, <1>2, <2>3, <3>6 DEF Kept, InList, Sending
        <4>3. InList(f)'
          BY <4>2 DEF InList
        <4>4. Taken(f)'
          BY <2>1, <3>1, <3>6 DEF Taken, Removing, Free
        <4>5. Served(f)'
          BY <4>1, <1>2 DEF Served
        <4>6. ASSUME NEW j \in Ops, Unsub(j, f)' PROVE j < i
          <5>1. Outstanding(j) /\ Same(j, i) /\ j # i
            BY <4>1, <4>6, <3>2, <2>3, <3>6 DEF Unsub, Same
          <5>2. j <= i
            BY <5>1, <1>1, <1>2 DEF Order, Turn
          <5> QED BY <5>1, <5>2, <1>2 DEF Ops
        <4>7. Renewed(f)'
          BY <4>1, <4>6, <1>2 DEF Renewed
        <4> QED BY <3>4, <3>5, <4>3, <4>4, <4>5, <4>7 DEF Kept
      <3>7. CASE op[i].kind = "unsub"
        <4>1. Unsub(i, f)' /\ ~Sub(i, f)' /\ task'[t].op = i /\ Removing(t, f)'
          BY <1>3, <1>9, <2>1, <2>3, <3>7 DEF Sub, Unsub, Outstanding, Removing
        <4>2. InList(f)'
          BY <3>1, <3>2, <3>3, <4>1, <1>2, <1>6 DEF Kept, InList
        <4>3. Taken(f)'
          <5>1. Unsub(task[t].op, f)'
            BY <4>1 DEF Unsub, Outstanding
          <5> QED BY <5>1, <2>1, <3>1 DEF Taken
        <4>4. Served(f)' /\ Renewed(f)'
          BY <4>1 DEF Served, Renewed, Coming
        <4> QED BY <3>4, <3>5, <4>2, <4>3, <4>4 DEF Kept
      <3> QED BY <1>3, <2>3, <3>6, <3>7 DEF OpKinds
    <2> QED BY <2>2, <2>3
  <1> QED BY <1>3, <1>8, <1>9

(* The broker acts on the first of the queue: what was sent before on the  *)
(* topic is covered by an UNSUBSCRIBE sent now.                            *)
LEMMA ServeKept ==
    ASSUME Base, Order, Serve, NEW f, Kept(f)
    PROVE  Kept(f)'
  <1>1. PICK i : i = Head(xCommandQueue) /\ ServeDone(i)
    BY ServeFacts
  <1>2. /\ Named /\ UNCHANGED <<list, task, session, believed, unsure>>
        /\ agent' \in {"command", "drop"} /\ agent = "command"
    BY <1>1, ServeNamed DEF ServeDone
  <1>3. \A j \in Ops : Outstanding(j)' <=> Outstanding(j)
    <2>1. i # Disconnect => Outstanding(i) /\ Outstanding(i)'
      BY <1>1, ServeNamed DEF ServeDone, Outstanding
    <2> QED BY <2>1, <1>1 DEF ServeDone, Outstanding
  <1>4. OpsStay(f) /\ CallsOn(f)
    BY <1>2, <1>3, OpsSame, CallSame DEF CallsOn
  <1>5. CASE i = Disconnect \/ ~Same(i, i) \/ op[i].topic # f \/ op'[i].st = "denied"
    <2>1. f \in subs' <=> f \in subs
      <3>1. i # Disconnect => op[i].kind \in OpKinds
        BY <1>1 DEF ServeDone, Base, ClientShape
      <3>2. i # Disconnect /\ op'[i].st = "denied" => subs' = subs
        <4>1. i # Disconnect => op[i] \in [kind : OpKinds, topic : Filters, st : Stages]
          BY <1>1 DEF ServeDone, Base, ClientShape
        <4> QED BY <4>1, <1>1 DEF ServeDone
      <3> QED BY <3>1, <3>2, <1>1, <1>5 DEF ServeDone, Same, OpKinds
    <2>2. \A j \in Ops : Sub(j, f)' /\ op'[j].st = "sent" => op[j].st = "sent"
      <3>1. i # Disconnect => /\ op'[i].kind = op[i].kind /\ op'[i].topic = op[i].topic
                              /\ \A j \in Ops \ {i} : op'[j] = op[j]
        BY <1>1, ServeNamed DEF ServeDone
      <3>2. i = Disconnect => op' = op
        BY <1>1 DEF ServeDone, Ops, Disconnect
      <3> QED BY <3>1, <3>2, <1>5 DEF Sub, Same
    <2> QED BY <1>2, <1>4, <2>1, <2>2, AsideKept DEF Aside
  <1>6. CASE i # Disconnect /\ op[i].kind # "pub" /\ op[i].topic = f /\ op'[i].st = "sent"
    <2>1. /\ i \in Ops /\ op[i].st = "accepted" /\ \A j \in Ops \ {i} : op'[j] = op[j]
          /\ op[i] \in [kind : OpKinds, topic : Filters, st : Stages]
          /\ Outstanding(i)
      BY <1>1, <1>6 DEF ServeDone, Base, ClientShape, Outstanding
    <2>2. subs' = IF op[i].kind = "sub" THEN subs \cup {f} ELSE subs \ {f}
      BY <1>1, <1>6, <2>1 DEF ServeDone, OpKinds
    <2>3. \A j \in Ops : Covered(j, f)' <=> Covered(j, f)
      BY <1>4 DEF OpsStay, Covered
    <2>4. Coming(f)' <=> Coming(f)
      BY <1>4 DEF CallsOn, Coming
    <2>5. InList(f)' /\ Trusted(f)' /\ Renewed(f)'
      BY <2>3, <2>4, <1>2, <1>4 DEF Kept, InList, Trusted, Renewed, OpsStay, CallsOn
    <2>6. Taken(f)'
      <3>1. ASSUME NEW t \in Tasks, Removing(t, f)'
            PROVE  Unsub(task[t].op, f)' \/ \A j \in Ops : ~Sub(j, f)'
        <4>1. PICK k \in Ops : Removing(t, f) /\ k = task[t].op /\ k = task'[t].op
          BY <3>1, <1>4 DEF CallsOn
        <4>2. Unsub(k, f) \/ \A j \in Ops : ~Sub(j, f)
          BY <4>1 DEF Kept, Taken
        <4>3. Unsub(k, f)' \/ \A j \in Ops : ~Sub(j, f)'
          BY <4>2, <1>4 DEF OpsStay
        <4> QED BY <4>1, <4>3 DEF Unsub, Outstanding
      <3> QED BY <3>1, <2>3, <1>4 DEF Kept, Taken, OpsStay, CallsOn
    <2>7. CASE op[i].kind = "sub"
      <3>1. Served(f)' /\ Sent(f)'
        BY <2>2, <2>7 DEF Served, Sent
      <3> QED BY <3>1, <2>5, <2>6 DEF Kept
    <2>8. CASE op[i].kind = "unsub"
      <3>1. Unsub(i, f) /\ Unsub(i, f)'
        BY <2>1, <2>8, <1>4, <1>6 DEF Unsub, OpsStay
      <3>2. Served(f)'
        <4>1. f \in list => Coming(f) \/ \E j \in Ops : Sub(j, f)
          BY <2>1, <3>1 DEF Kept, Renewed
        <4> QED BY <4>1, <2>4, <1>2, <1>4 DEF Served, OpsStay
      <3>3. Sent(f)'
        <4> SUFFICES ASSUME NEW j \in Ops, Sub(j, f)', op'[j].st = "sent" PROVE Covered(j, f)'
          BY DEF Sent
        <4>1. j # i /\ Sub(j, f) /\ op[j].st = "sent"
          <5>1. Sub(j, f) /\ j # i
            BY <1>4, <2>8 DEF OpsStay, Sub
          <5> QED BY <5>1, <2>1
        <4>2. j \in Range(pending) /\ Same(j, i)
          BY <4>1, <2>8, <1>6 DEF Base, Whereabouts, Same, Sub
        <4>3. j < i
          BY <4>2, <1>1, <1>6, ServeFirst
        <4> QED BY <4>3, <2>1, <3>1 DEF Covered
      <3> QED BY <3>2, <3>3, <2>5, <2>6 DEF Kept
    <2> QED BY <2>1, <2>7, <2>8, <1>6 DEF OpKinds
  <1>7. i # Disconnect => op'[i].st \in {"sent", "denied"}
    BY <1>1, ServeNamed
  <1> QED BY <1>5, <1>6, <1>7 DEF Same

(* The answer to the first that was sent: the rest on the topic comes      *)
(* after it.                                                               *)
LEMMA AckKept ==
    ASSUME Base, Order, Ack, NEW f, Kept(f)
    PROVE  Kept(f)'
  <1>1. PICK i : i = Head(pending) /\ AckDone(i)
    BY AckFacts
  <1>2. /\ Named /\ UNCHANGED <<list, task, session, subs, agent>>
        /\ agent = "command" /\ i \in Ops /\ Outstanding(i) /\ ~Outstanding(i)'
        /\ \A j \in Ops \ {i} : op'[j] = op[j]
        /\ op[i].kind \in OpKinds
    BY <1>1, AckNamed DEF AckDone, Outstanding, Base, ClientShape
  <1>3. CallsOn(f)
    BY <1>2, CallSame DEF CallsOn
  <1>4. \A j \in Ops : /\ Sub(j, f)' <=> Sub(j, f) /\ j # i
                       /\ Unsub(j, f)' <=> Unsub(j, f) /\ j # i
    BY <1>2 DEF Sub, Unsub, Outstanding
  <1>5. \A j \in Ops \ {i} : Outstanding(j) /\ Same(i, j) => i < j
    <2> SUFFICES ASSUME NEW j \in Ops \ {i}, Outstanding(j), Same(i, j) PROVE i < j
      OBVIOUS
    <2>1. CASE j \in Queued
      BY <2>1, <1>1, AckFirst
    <2>2. CASE j \in Range(pending)
      <3>1. j \in Range(pending')
        BY <2>2, <1>1 DEF AckDone
      <3> QED BY <3>1, <1>1, AckFirst
    <2> QED BY <2>1, <2>2 DEF Base, Whereabouts, Outstanding
  <1>6. CASE op[i].kind = "pub" \/ op[i].topic # f
    <2>1. OpsStay(f)
      BY <1>4, <1>6 DEF OpsStay, Sub, Unsub
    <2>2. (f \in believed' => f \in believed) /\ (f \in unsure => f \in unsure')
      BY <1>1, <1>2, <1>6 DEF AckDone, OpKinds
    <2>3. \A j \in Ops : Sub(j, f)' /\ op'[j].st = "sent" => op[j].st = "sent"
      BY <1>2, <1>4
    <2> QED BY <1>2, <1>3, <2>1, <2>2, <2>3, AsideKept DEF Aside
  <1>7. CASE op[i].kind # "pub" /\ op[i].topic = f
    <2>1. Coming(f)' <=> Coming(f)
      BY <1>3 DEF CallsOn, Coming
    <2>2. ASSUME NEW j \in Ops, Outstanding(j), j # i, op[j].kind # "pub", op[j].topic = f
          PROVE  i < j
      BY <2>2, <1>5, <1>7 DEF Same
    <2>3. \A j \in Ops : j # i /\ (Sub(j, f) \/ Unsub(j, f)) => i < j
      BY <2>2 DEF Sub, Unsub
    (* What covered an operation that is still open is behind it, and so   *)
    (* not the one concluded.                                              *)
    <2>4. \A j \in Ops : Sub(j, f)' /\ Covered(j, f) => Covered(j, f)'
      <3> SUFFICES ASSUME NEW j \in Ops, Sub(j, f)', Covered(j, f) PROVE Covered(j, f)'
        OBVIOUS
      <3>1. PICK k \in Ops : j < k /\ Unsub(k, f)
        BY DEF Covered
      <3>2. i < j /\ k # i
        BY <3>1, <2>3, <1>2, <1>4 DEF Ops
      <3> QED BY <3>1, <3>2, <1>4 DEF Covered
    <2>5. InList(f)'
      BY <2>4, <1>2, <1>3, <1>4 DEF Kept, InList, CallsOn
    <2>6. Taken(f)'
      <3>1. ASSUME NEW t \in Tasks, Removing(t, f)'
            PROVE  Unsub(task[t].op, f)' \/ \A j \in Ops : ~Sub(j, f)'
        <4>1. PICK k \in Ops : Removing(t, f) /\ k = task[t].op /\ k = task'[t].op
          BY <3>1, <1>3 DEF CallsOn
        <4>2. CASE k = i
          <5>1. ASSUME NEW j \in Ops, Sub(j, f)' PROVE FALSE
            <6>1. Sub(j, f) /\ i < j /\ Same(j, i)
              BY <5>1, <2>3, <1>4, <1>7 DEF Sub, Same
            <6>2. j <= i
              BY <6>1, <4>1, <4>2 DEF Order, Turn, Removing, Sub
            <6> QED BY <6>1, <6>2, <1>2 DEF Ops
          <5> QED BY <5>1
        <4>3. CASE k # i
          <5>1. Unsub(k, f) \/ \A j \in Ops : ~Sub(j, f)
            BY <4>1 DEF Kept, Taken
          <5>2. Unsub(k, f)' \/ \A j \in Ops : ~Sub(j, f)'
            BY <5>1, <4>3, <1>4
          <5> QED BY <4>1, <5>2 DEF Unsub, Outstanding
        <4> QED BY <4>2, <4>3
      <3>2. ASSUME NEW t \in Tasks, Adding(t, f)', NEW j \in Ops, Sub(j, f)' PROVE Covered(j, f)'
        BY <3>2, <2>4, <1>3, <1>4 DEF Kept, Taken, CallsOn
      <3> QED BY <3>1, <3>2 DEF Taken
    <2>7. Renewed(f)'
      <3> SUFFICES ASSUME f \in list, NEW j \in Ops, Unsub(j, f)', ~Coming(f)
                   PROVE  \E k \in Ops : j < k /\ Sub(k, f)'
        BY <2>1, <1>2 DEF Renewed
      <3>1. Unsub(j, f) /\ i < j
        BY <2>3, <1>4
      <3>2. PICK k \in Ops : j < k /\ Sub(k, f)
        BY <3>1 DEF Kept, Renewed
      <3> QED BY <3>1, <3>2, <1>2, <1>4 DEF Ops
    <2>8. Sent(f)'
      <3> SUFFICES ASSUME NEW j \in Ops, Sub(j, f)', op'[j].st = "sent", f \notin subs PROVE Covered(j, f)'
        BY <1>2 DEF Sent
      <3>1. Sub(j, f) /\ op[j].st = "sent"
        BY <1>2, <1>4
      <3> QED BY <3>1, <2>4 DEF Kept, Sent
    <2>9. CASE op[i].kind = "sub" /\ op[i].st = "sent"
      <3>1. Sub(i, f) /\ (f \in subs \/ Covered(i, f)) /\ (f \in list \/ Covered(i, f))
        BY <2>9, <1>2, <1>7 DEF Kept, Sent, InList, Sub
      <3>2. Trusted(f)'
        <4>1. Covered(i, f) => \E j \in Ops : Unsub(j, f)'
          BY <1>2, <1>4 DEF Covered, Ops
        <4> QED BY <3>1, <4>1, <1>2 DEF Trusted
      <3>3. Served(f)'
        <4>1. Covered(i, f) /\ f \in list => Coming(f) \/ \E k \in Ops : Sub(k, f) /\ k # i
          <5> SUFFICES ASSUME NEW j \in Ops, i < j, Unsub(j, f), f \in list, ~Coming(f)
                       PROVE  \E k \in Ops : Sub(k, f) /\ k # i
            BY DEF Covered
          <5>1. PICK k \in Ops : j < k /\ Sub(k, f)
            BY DEF Kept, Renewed
          <5> QED BY <5>1, <1>2 DEF Ops
        <4> QED BY <3>1, <4>1, <2>1, <1>2, <1>4 DEF Served
      <3> QED BY <3>2, <3>3, <2>5, <2>6, <2>7, <2>8 DEF Kept
    <2>10. CASE op[i].kind = "sub" /\ op[i].st = "denied"
      <3>1. f \notin believed' /\ (f \in list => f \in unsure')
        BY <2>10, <1>1, <1>7 DEF AckDone
      <3>2. Trusted(f)' /\ Served(f)'
        BY <3>1, <1>2 DEF Trusted, Served
      <3> QED BY <3>2, <2>5, <2>6, <2>7, <2>8 DEF Kept
    <2>11. CASE op[i].kind = "unsub"
      <3>1. f \notin believed' /\ (f \in unsure => f \in unsure')
        BY <2>11, <1>1, <1>7 DEF AckDone
      <3>2. \A j \in Ops : Sub(j, f)' <=> Sub(j, f)
        BY <2>11, <1>4 DEF Sub
      <3>3. Trusted(f)' /\ Served(f)'
        BY <3>1, <3>2, <2>1, <1>2 DEF Trusted, Served, Kept
      <3> QED BY <3>3, <2>5, <2>6, <2>7, <2>8 DEF Kept
    <2>12. op[i].st \in {"sent", "denied"}
      BY <1>1 DEF AckDone
    <2> QED BY <2>9, <2>10, <2>11, <2>12, <1>2, <1>7 DEF OpKinds
  <1> QED BY <1>6, <1>7

(* Nothing is under way any more; a SUBSCRIBE that was leaves its topic    *)
(* unsure.                                                                 *)
LEMMA CancelKept ==
    ASSUME Base, Order, DropCancel \/ AgentExit, NEW f, Kept(f)
    PROVE  Kept(f)'
  <1>1. Cancelled /\ Named
    BY CancelFacts, CancelBase
  <1>2. UNCHANGED <<list, task, session, subs, believed>> /\ (f \in unsure => f \in unsure')
    BY <1>1 DEF Cancelled
  <1>3. CallsOn(f)
    BY <1>1, <1>2, CallSame DEF CallsOn
  <1>4. \A j \in Ops : ~Sub(j, f)' /\ ~Unsub(j, f)'
    BY <1>1 DEF Cancelled, Sub, Unsub
  <1>5. InList(f)' /\ Taken(f)' /\ Renewed(f)' /\ Sent(f)'
    BY <1>2, <1>3, <1>4 DEF Kept, InList, Taken, Renewed, Sent, CallsOn
  <1>6. Trusted(f)'
    <2>1. agent \in {"cancel", "exit"}
      BY DEF DropCancel, AgentExit
    <2>2. agent = "cancel" => believed = {}
      BY DEF Base, Connection
    <2> QED BY <2>1, <2>2, <1>2 DEF Kept, Trusted
  <1>7. Served(f)'
    <2>1. Coming(f)' <=> Coming(f)
      BY <1>3 DEF CallsOn, Coming
    <2>2. f \in list /\ (\E j \in Ops : Sub(j, f)) => f \in unsure'
      BY <1>1 DEF Cancelled, Sub
    <2> QED BY <2>1, <2>2, <1>2 DEF Kept, Served
  <1> QED BY <1>5, <1>6, <1>7 DEF Kept

-----------------------------------------------------------------------------
(* The inductive invariant of BelievedIsSubscribed.                        *)
BelievedInv == Base /\ Order /\ AllKept

LEMMA BaseStep ==
    ASSUME Base, Order, Alone, [MqttNext]_mqttVars
    PROVE  Base' /\ Order' /\ Named /\ orphans \subseteq orphans'
  <1>1. CASE Elsewhere
    BY <1>1, QuietBase, QuietOrder, QuietFrame
  <1>2. CASE DisconnectSend \/ ForceReconnect
    BY <1>2, DisconnectBase, DisconnectOrder, DisconnectQueued
  <1>3. ASSUME NEW t \in Tasks, Begin(t) PROVE Base' /\ Order' /\ Named /\ orphans \subseteq orphans'
    BY <1>3, BeginBase, BeginOrder, BeginFacts DEF BeginDone
  <1>4. ASSUME NEW t \in Tasks, AddEntry(t) PROVE Base' /\ Order' /\ Named /\ orphans \subseteq orphans'
    BY <1>4, AddBase, AddOrder, AddFacts DEF AddDone
  <1>5. ASSUME NEW t \in Tasks, Send(t) PROVE Base' /\ Order' /\ Named /\ orphans \subseteq orphans'
    BY <1>5, SendBase, SendOrder, SendFacts DEF SendDone
  <1>6. ASSUME NEW t \in Tasks, RemoveEntry(t) PROVE Base' /\ Order' /\ Named /\ orphans \subseteq orphans'
    BY <1>6, RemoveBase, RemoveOrder, RemoveFacts DEF RemoveDone
  <1>7. CASE Serve
    BY <1>7, ServeBase, ServeFacts, ServeNamed DEF ServeDone
  <1>8. CASE Ack
    BY <1>8, AckBase, AckFacts, AckNamed DEF AckDone
  <1>9. CASE DropCancel \/ AgentExit
    BY <1>9, CancelBase, CancelFacts DEF Cancelled
  <1>10. CASE Drop \/ ConnectAccepted \/ SessionExpires
    BY <1>10, LinkBase, LinkFacts
  <1> QED BY <1>1, <1>2, <1>3, <1>4, <1>5, <1>6, <1>7, <1>8, <1>9, <1>10
          DEF MqttNext, Core, Agent, Task, Elsewhere

LEMMA KeptStep ==
    ASSUME Base, Order, Alone, [MqttNext]_mqttVars, NEW f, Clear(f)', Kept(f)
    PROVE  Kept(f)'
  <1>1. CASE Elsewhere
    BY <1>1, QuietKept
  <1>2. CASE DisconnectSend \/ ForceReconnect
    BY <1>2, DisconnectKept
  <1>3. ASSUME NEW t \in Tasks, Task(t) PROVE Kept(f)'
    BY <1>3, BeginKept, AddKept, SendKept, RemoveKept DEF Task
  <1>4. CASE Serve \/ Ack
    BY <1>4, ServeKept, AckKept
  <1>5. CASE DropCancel \/ AgentExit
    BY <1>5, CancelKept
  <1>6. CASE Drop \/ ConnectAccepted \/ SessionExpires
    BY <1>6, LinkKept
  <1> QED BY <1>1, <1>2, <1>3, <1>4, <1>5, <1>6 DEF MqttNext, Core, Agent, Elsewhere

LEMMA BelievedNext == BelievedInv /\ Alone /\ [MqttNext]_mqttVars => BelievedInv'
  <1> SUFFICES ASSUME BelievedInv, Alone, [MqttNext]_mqttVars PROVE BelievedInv'
    OBVIOUS
  <1>1. Base' /\ Order' /\ Named /\ orphans \subseteq orphans'
    BY BaseStep DEF BelievedInv
  <1>2. ASSUME NEW f \in Filters, Clear(f)' PROVE Kept(f)'
    <2>1. Clear(f)
      BY <1>1, <1>2, ClearBefore DEF BelievedInv
    <2>2. Kept(f)
      BY <2>1 DEF BelievedInv, AllKept
    <2> QED BY <2>2, <1>2, KeptStep DEF BelievedInv
  <1>3. AllKept'
    BY <1>2 DEF AllKept, Filters, Fresh
  <1> QED BY <1>1, <1>3 DEF BelievedInv

LEMMA BelievedImplies == BelievedInv => BelievedIsSubscribed
  <1> SUFFICES ASSUME BelievedInv, \A t \in Tasks : task[t].at = "idle",
                      NEW f \in believed \ (Underway \cup SubTopics(orphans))
               PROVE  f \in list /\ (f \in subs \/ f \in unsure)
    BY DEF BelievedIsSubscribed
  <1>1. Clear(f) /\ f \in Filters
    BY DEF Clear, SubTopics, BelievedInv, Base, ClientShape
  <1>2. Kept(f)
    BY <1>1 DEF BelievedInv, AllKept
  <1>3. \A j \in Ops : ~Sub(j, f) /\ ~Unsub(j, f)
    BY DEF Underway, Sub, Unsub, Outstanding
  <1>4. ~Coming(f)
    BY DEF BelievedInv, Base, Calls, CallOf, Free, Coming, Adding, Removing
  <1>5. session
    BY DEF BelievedInv, Base, Connection
  <1> QED BY <1>2, <1>3, <1>4, <1>5 DEF Kept, Trusted, Served

(* For any tasks, topics, operations and faults: as long as no two tasks   *)
(* are at once in calls that change one topic's subscription, what the     *)
(* services take for subscribed is in the list and subscribed at the       *)
(* broker (osal_mqtt_core_impl.c, prvCoreMqttAgentConnect), apart from the *)
(* topics the code leaves unsure and those whose commands crossed a        *)
(* reconnection.                                                           *)
THEOREM SubscribedSafety == MqttSpec /\ []Alone => []BelievedIsSubscribed
  <1>1. MqttInit => BelievedInv
    BY ClientInit, KeptInit DEF BelievedInv
  <1> QED BY <1>1, BelievedNext, BelievedImplies, PTL DEF MqttSpec

(* One task, as the run has it, is never beside another: for it the same   *)
(* holds of every behaviour.                                               *)
THEOREM OneTaskSubscribed ==
    ASSUME \A s, t \in Tasks : s = t
    PROVE  MqttSpec => []BelievedIsSubscribed
  <1>1. Alone
    BY DEF Alone
  <1> QED BY <1>1, SubscribedSafety, PTL
=============================================================================
