------------------------------ MODULE CloudSync ------------------------------
(***************************************************************************)
(* How a node keeps up with what the cloud holds for it: the cloud setup   *)
(* (esp_rmaker_core.c), the cloud manager (network/cloud/cloud_manager.c), *)
(* the version handshake (network/cloud/cloud_events.c) and the retry      *)
(* manager (retry/retry_manager.c).                                        *)
(*                                                                         *)
(* After every connection the node subscribes to its from_cloud topic,     *)
(* with the filters of its bridge children, waits until all are            *)
(* acknowledged, and asks for its group and the version of its schedules;  *)
(* a version it does not have makes it ask for the details, and the        *)
(* version is persisted once it has both.                                  *)
(*                                                                         *)
(* Four threads: the worker (one task at a time), the event loop           *)
(* (completions and connection events, in order), the timer thread of the  *)
(* two retry contexts, and the MQTT client that delivers messages.  Of the *)
(* services with a version (schedules and triggers) one is modelled, of    *)
(* the rest of the cloud information the group.  Details are the version   *)
(* they were made for; what becomes of them is module Schedules.           *)
(***************************************************************************)
EXTENDS Integers, Sequences, FiniteSets

CONSTANTS
    Filters,    \* the bridge's subscriptions, beside that to "self"
    MaxEdits,   \* bound: versions made in the cloud while the node is up
    MaxQueue,   \* bound: tasks in the work queue
    MaxDrops,   \* bound: connections lost
    MaxFaults   \* bound: other faults of the environment

ASSUME FiltersAssumption == IsFiniteSet(Filters) /\ "self" \notin Filters
ASSUME BoundsAssumption == MaxEdits \in Nat /\ MaxQueue \in Nat \ {0}
                             /\ MaxDrops \in Nat /\ MaxFaults \in Nat

VARIABLES
    up,         \* the client is connected
    broker,     \* the topics subscribed to at the broker
    subs,       \* subscribe requests on their way, counted by topic
    toCloud,    \* requests on their way, oldest first
    fromCloud,  \* messages on their way to the node, oldest first
    cloudVer,   \* the version of the schedules in the cloud
    events,     \* the event loop's queue
    comparing,  \* the event loop is within a SUBACK: the count it has read, or 0
    flag,       \* SUBSCRIBED_TO_CLOUD
    expected, completed, inFlight,  \* __listening_gate
    issued,     \* the topics the last start_listening has subscribed to
    dropped,    \* has_disconnected_before
    queue,      \* tasks in the work queue
    wpc,        \* the worker: "idle", "listen", "filters", "lower", "check",
                \* "wait", "ask" (in the setup), or "send"
    ask,        \* what the payload made the node ask for
    timers,     \* the retry contexts whose timer is armed
    version,    \* the persisted version, -1 when unknown
    progress,   \* is_new_version, is_new_details, pending_version
    details,    \* the version of the details that were handed over
    group,      \* whether the node knows its group
    holes,      \* history: losses that only a new connection makes good
    bare,       \* history: details came without their version
    drops, faults  \* connections lost, and other faults, so far

netVars    == <<up, broker, subs, toCloud, fromCloud, cloudVer, drops>>
gateVars   == <<flag, expected, completed, inFlight, issued>>
workerVars == <<wpc, ask>>
stateVars  == <<version, progress, details, group>>
history    == <<holes, bare>>

vars == <<netVars, events, comparing, gateVars, dropped, queue, workerVars, timers, stateVars, history, faults>>

Topics   == Filters \cup {"self"}
Contexts == {"setup", "version"}
Channels == Contexts \cup {"send"}
Versions == 1..(1 + MaxEdits)
None     == 0
(* A payload: whether it has the group, the version in it, and the version *)
(* its details were made for, which they may not name.                     *)
Payload  == [group : BOOLEAN, ver : Versions \cup {None}, details : Versions \cup {None}, bare : BOOLEAN]
NoMsg    == [group |-> FALSE, ver |-> None, details |-> None, bare |-> FALSE]
Task     == [task : Contexts \cup {"reconnect"}, arg : {NoMsg}] \cup [task : {"payload"}, arg : Payload]
Event    == [ev : {"up", "down", "sub"}, chan : {"none"}, ok : BOOLEAN]
              \cup [ev : {"pub"}, chan : Channels, ok : BOOLEAN]
Asks     == {"info", "ver", "details"}
Request  == [chan : Channels, ask : Asks]
Progress == [newVer : BOOLEAN, newDetails : BOOLEAN, pending : Versions \cup {-1}]
Fresh    == [newVer |-> FALSE, newDetails |-> FALSE, pending |-> -1]

Fault == faults < MaxFaults /\ faults' = faults + 1
Post(e, c, ok) == Append(events, [ev |-> e, chan |-> c, ok |-> ok])

(* The start task has seen the first connection and run the setup's retry  *)
(* context.                                                                *)
Init ==
    /\ up = TRUE /\ broker = {} /\ subs = [t \in Topics |-> 0]
    /\ toCloud = <<>> /\ fromCloud = <<>> /\ cloudVer = 1
    /\ events = <<>> /\ comparing = 0
    /\ flag = FALSE /\ expected = 0 /\ completed = 0 /\ inFlight = FALSE /\ issued = {}
    /\ dropped = FALSE
    /\ queue = <<[task |-> "setup", arg |-> NoMsg]>>
    /\ wpc = "idle" /\ ask = {} /\ timers = {}
    /\ version = -1 /\ progress = Fresh /\ details = None /\ group = FALSE
    /\ holes = {} /\ bare = FALSE
    /\ drops = 0 /\ faults = 0

-----------------------------------------------------------------------------
(* The retry manager                                                       *)

(* The work queue refuses a task when it is full, or short of memory.      *)
Accepts(q, t, arg) == Len(q) < MaxQueue /\ queue' = Append(q, [task |-> t, arg |-> arg])
Refuses(q) == /\ IF Len(q) < MaxQueue THEN Fault ELSE UNCHANGED faults
              /\ queue' = q

(* esp_rmaker_cloud_setup_on_failure: the cloud information goes back to   *)
(* its defaults.  The worker, the timer thread and the event loop run it.  *)
OnFailure(c) ==
    IF c = "setup"
    THEN group' = FALSE /\ version' = -1 /\ progress' = Fresh /\ UNCHANGED details
    ELSE UNCHANGED stateVars

(* __retry_manager_scheduler_task queues the task, or waits once more.     *)
Schedule(c, q) ==
    \/ Accepts(q, c, NoMsg) /\ timers' = timers \ {c} /\ UNCHANGED <<stateVars, faults>>
    \/ Refuses(q) /\ timers' = timers \cup {c} /\ OnFailure(c)

(* A timer goes off.                                                       *)
TimerFires(c) ==
    /\ c \in timers
    /\ Schedule(c, queue)
    /\ UNCHANGED <<netVars, events, comparing, gateVars, dropped, workerVars, history>>

(* retry_manager_stop_context: the acknowledgement of one attempt cancels  *)
(* the timer that a later attempt has armed.                               *)
Stop(c) == /\ timers' = timers \ {c}
           /\ holes' = IF c \in timers THEN holes \cup {"stopped"} ELSE holes

-----------------------------------------------------------------------------
(* The worker: setting up the cloud                                        *)

Takes(t) == wpc = "idle" /\ queue # <<>> /\ Head(queue).task = t
Idle == wpc' = "idle" /\ ask' = {}
Goto(l) == wpc' = l /\ UNCHANGED ask

(* __send_with_topic; a client that is not connected refuses at once.      *)
Publish(chan, what) == /\ up /\ UNCHANGED faults
                       /\ toCloud' = Append(toCloud, [chan |-> chan, ask |-> what])
                       /\ UNCHANGED <<up, broker, subs, fromCloud, cloudVer, drops>>
ClientRefuses == /\ IF up THEN Fault ELSE UNCHANGED faults
                 /\ UNCHANGED netVars

(* __retry_manager_work_queue_task when its function failed.               *)
TaskFails(c) == OnFailure(c) /\ timers' = timers \cup {c} /\ Idle

(* esp_rmaker_on_reconnect_task: the setup starts afresh.                  *)
Reconnected ==
    /\ Takes("reconnect")
    /\ Schedule("setup", Tail(queue))
    /\ UNCHANGED <<netVars, events, comparing, gateVars, dropped, workerVars, history>>

(* esp_rmaker_cloud_setup_work_fn: subscribe first, unless that is done.   *)
Setup ==
    /\ Takes("setup")
    /\ queue' = Tail(queue)
    /\ Goto(IF flag THEN "ask" ELSE "listen")
    /\ UNCHANGED <<netVars, events, comparing, gateVars, dropped, timers, stateVars, history, faults>>

(* A SUBACK of an earlier attempt is still to be counted, or has set the   *)
(* bit since the setup looked at it.                                       *)
LateAck == \/ \E t \in Topics : subs[t] > 0
           \/ \E i \in 1..Len(events) : events[i].ev = "sub"
           \/ comparing > 0

(* The worker is within start_listening.  It never looks whether the       *)
(* connection its subscribes went out on is still there.                   *)
InListen == wpc \in {"filters", "lower", "check", "wait"}

(* esp_rmaker_cloud_manager_start_listening resets the gate and subscribes *)
(* to the node's own topic ...                                             *)
Listen ==
    /\ wpc = "listen" /\ up
    /\ expected' = Cardinality(Topics) /\ completed' = 0 /\ inFlight' = TRUE
    /\ subs' = [subs EXCEPT !["self"] = @ + 1] /\ issued' = {"self"}
    /\ holes' = (holes \ {"stale", "late"}) \cup IF LateAck \/ flag THEN {"late"} ELSE {}
    /\ Goto("filters")
    /\ UNCHANGED <<up, broker, toCloud, fromCloud, cloudVer, drops, events, comparing, flag, dropped, queue,
                   timers, stateVars, bare, faults>>
ListenFails ==
    /\ wpc = "listen" /\ ClientRefuses
    /\ expected' = Cardinality(Topics) /\ completed' = 0 /\ inFlight' = FALSE
    /\ TaskFails("setup")
    /\ UNCHANGED <<events, comparing, flag, issued, dropped, queue, history>>

(* ... bridge_subscriber_subscribe_all to the filters, as many as the      *)
(* client takes ...                                                        *)
SubscribeFilters ==
    /\ wpc = "filters"
    /\ \E S \in SUBSET Filters :
        /\ ~up => S = {}
        /\ IF up /\ S # Filters THEN Fault ELSE UNCHANGED faults
        /\ subs' = [t \in Topics |-> IF t \in S THEN subs[t] + 1 ELSE subs[t]]
        /\ issued' = issued \cup S
        /\ Goto(IF S = Filters THEN "wait" ELSE "lower")
    /\ UNCHANGED <<up, broker, toCloud, fromCloud, cloudVer, drops, events, comparing, flag, expected, completed,
                   inFlight, dropped, queue, timers, stateVars, history>>

(* Mutant of Lower: the counts met already are not looked at.              *)
LowerUnchecked ==
    /\ wpc = "lower"
    /\ expected' = Cardinality(issued)
    /\ Goto("wait")
    /\ UNCHANGED <<netVars, events, comparing, flag, completed, inFlight, issued, dropped, queue, timers,
                   stateVars, history, faults>>

(* ... expects no SUBACK of those it could not issue ...                   *)
Lower ==
    /\ wpc = "lower"
    /\ expected' = Cardinality(issued)
    /\ Goto("check")
    /\ UNCHANGED <<netVars, events, comparing, flag, completed, inFlight, issued, dropped, queue, timers,
                   stateVars, history, faults>>

(* ... which the SUBACKs may have met by now ...                           *)
Check ==
    /\ wpc = "check"
    /\ flag' = (flag \/ completed >= expected)
    /\ Goto("wait")
    /\ UNCHANGED <<netVars, events, comparing, expected, completed, inFlight, issued, dropped, queue,
                   timers, stateVars, history, faults>>

(* ... and waits for the bit, or until the time is up.                     *)
Listening ==
    /\ wpc = "wait" /\ flag
    /\ inFlight' = FALSE
    /\ Goto("ask")
    /\ UNCHANGED <<netVars, events, comparing, flag, expected, completed, issued, dropped, queue, timers,
                   stateVars, history, faults>>
ListenTimesOut ==
    /\ wpc = "wait" /\ ~flag
    /\ IF LateAck THEN Fault ELSE UNCHANGED faults
    /\ inFlight' = FALSE
    /\ TaskFails("setup")
    /\ UNCHANGED <<netVars, events, comparing, flag, expected, completed, issued, dropped, queue, history>>

(* esp_rmaker_get_cloud_info asks for the group and the version.           *)
GetCloudInfo ==
    /\ wpc = "ask"
    /\ \/ Publish("setup", "info") /\ Idle /\ UNCHANGED <<timers, stateVars>>
       \/ ClientRefuses /\ TaskFails("setup")
    /\ UNCHANGED <<events, comparing, gateVars, dropped, queue, history>>

(* __version_retry_task asks for the version; if it cannot, the version is *)
(* unknown.                                                                *)
VersionRetry ==
    /\ Takes("version")
    /\ queue' = Tail(queue)
    /\ \/ Publish("version", "ver") /\ UNCHANGED <<timers, stateVars>>
       \/ /\ ClientRefuses
          /\ version' = -1 /\ progress' = Fresh /\ UNCHANGED <<details, group>>
          /\ timers' = timers \cup {"version"}
    /\ UNCHANGED <<events, comparing, gateVars, dropped, workerVars, history>>

-----------------------------------------------------------------------------
(* The worker: a payload and the version handshake                         *)

(* The outcome of a handshake step: the version, the progress and what is  *)
(* to be asked for.                                                        *)
Outcome(v, p, a) == [version |-> v, progress |-> p, ask |-> a]

(* Mutant of OnVersionUpdated: a new version is persisted at once.         *)
OnVersionAtOnce(v, o) ==
    IF v = None THEN o
    ELSE IF v = o.version THEN Outcome(o.version, Fresh, o.ask)
    ELSE Outcome(v, Fresh, {"details"})

(* __on_version_updated.                                                   *)
OnVersionUpdated(v, o) ==
    IF v = None THEN o
    ELSE IF v = o.version THEN Outcome(o.version, Fresh, o.ask)
    ELSE IF o.progress.newDetails THEN Outcome(v, Fresh, o.ask)
    ELSE Outcome(o.version, [o.progress EXCEPT !.newVer = TRUE, !.pending = v], o.ask \cup {"details"})

(* __on_details_updated: the details' own version wins.  What arrived with *)
(* the payload is not asked for.                                           *)
OnDetailsUpdated(d, isBare, o) ==
    LET p == IF isBare THEN [o.progress EXCEPT !.newDetails = TRUE]
             ELSE [newVer |-> TRUE, newDetails |-> TRUE, pending |-> d]
    IN  IF d = None THEN o
        ELSE IF p.newVer THEN Outcome(p.pending, Fresh, o.ask \ {"details"})
        ELSE Outcome(o.version, p, (o.ask \cup {"ver"}) \ {"details"})

(* __dispatch_parsed_payload: the group, the version and the details ...   *)
Dispatch ==
    /\ Takes("payload")
    /\ queue' = Tail(queue)
    /\ LET m == Head(queue).arg
           o == OnDetailsUpdated(m.details, m.bare, OnVersionUpdated(m.ver, Outcome(version, progress, {})))
           a == IF m.ver # None THEN o.ask \ {"ver"} ELSE o.ask IN
        /\ group' = (group \/ m.group)
        /\ version' = o.version /\ progress' = o.progress
        /\ details' = IF m.details # None THEN m.details ELSE details
        /\ bare' = (bare \/ m.bare)
        /\ ask' = a /\ wpc' = IF a = {} THEN "idle" ELSE "send"
    /\ UNCHANGED <<netVars, events, comparing, gateVars, dropped, timers, holes, faults>>

(* ... and __send_any_pending_events.  Details that cannot be asked for    *)
(* make the version be asked for again.                                    *)
Send ==
    /\ wpc = "send"
    /\ Publish("send", CHOOSE a \in ask : TRUE)
    /\ Idle
    /\ UNCHANGED <<events, comparing, gateVars, dropped, queue, timers, stateVars, history>>

(* Mutant of SendFails: only logged.                                       *)
SendFailsSilently ==
    /\ wpc = "send" /\ ClientRefuses
    /\ UNCHANGED <<queue, timers, stateVars, holes>>
    /\ Idle
    /\ UNCHANGED <<events, comparing, gateVars, dropped, bare>>

SendFails ==
    /\ wpc = "send" /\ ClientRefuses
    /\ IF "details" \in ask
       THEN /\ \/ Accepts(queue, "version", NoMsg) /\ timers' = timers \ {"version"}
               \/ Len(queue) = MaxQueue /\ UNCHANGED queue /\ timers' = timers \cup {"version"}
            /\ UNCHANGED holes
       ELSE UNCHANGED <<queue, timers>> /\ holes' = holes \cup {"asked"}
    /\ Idle
    /\ UNCHANGED <<events, comparing, gateVars, dropped, stateVars, bare>>

Worker == \/ Reconnected \/ Setup \/ Listen \/ ListenFails \/ SubscribeFilters \/ Lower \/ Check
          \/ Listening \/ ListenTimesOut \/ GetCloudInfo \/ VersionRetry
          \/ Dispatch \/ Send \/ SendFails

-----------------------------------------------------------------------------
(* The event loop                                                          *)

Handles(e) == comparing = 0 /\ events # <<>> /\ Head(events).ev = e /\ events' = Tail(events)

(* A SUBACK is counted while start_listening waits ...                     *)
SubscribeAck ==
    /\ Handles("sub")
    /\ IF Head(events).ok /\ inFlight
       THEN completed' = completed + 1 /\ comparing' = completed + 1
       ELSE UNCHANGED <<completed, comparing>>
    /\ UNCHANGED <<netVars, flag, expected, inFlight, issued, dropped, queue, workerVars, timers, stateVars,
                   history, faults>>

(* ... and the count compared with what is expected by then.               *)
CompareAck ==
    /\ comparing > 0
    /\ flag' = (flag \/ comparing >= expected)
    /\ comparing' = 0
    /\ UNCHANGED <<netVars, events, expected, completed, inFlight, issued, dropped, queue, workerVars,
                   timers, stateVars, history, faults>>

(* The completion of a publish: a failure resumes the retry of its         *)
(* channel, and only leaves a line in the log on the "send" channel.       *)
PublishAck ==
    /\ Handles("pub")
    /\ LET c == Head(events).chan IN
        \/ /\ c \in Contexts /\ Head(events).ok
           /\ Stop(c) /\ UNCHANGED stateVars
        \/ /\ c \in Contexts /\ ~Head(events).ok
           /\ OnFailure(c) /\ timers' = timers \cup {c} /\ UNCHANGED holes
        \/ /\ c = "send"
           /\ holes' = IF Head(events).ok THEN holes ELSE holes \cup {"asked"}
           /\ UNCHANGED <<timers, stateVars>>
    /\ UNCHANGED <<netVars, comparing, gateVars, dropped, queue, workerVars, bare, faults>>

(* __esp_rmaker_mqtt_connection_handler.                                   *)
ConnectionLost ==
    /\ Handles("down")
    /\ flag' = FALSE /\ dropped' = TRUE
    /\ holes' = IF InListen THEN holes ELSE holes \ {"stale", "late"}
    /\ UNCHANGED <<netVars, comparing, expected, completed, inFlight, issued, queue, workerVars, timers,
                   stateVars, bare, faults>>
Connected ==
    /\ Handles("up")
    /\ dropped
    /\ \/ /\ Accepts(queue, "reconnect", NoMsg) /\ UNCHANGED faults
          /\ holes' = holes \cap {"stale", "late"}
       \/ Refuses(queue) /\ holes' = holes \cup {"reconnect"}
    /\ UNCHANGED <<netVars, comparing, gateVars, dropped, workerVars, timers, stateVars, bare>>

EventLoop == SubscribeAck \/ CompareAck \/ PublishAck \/ ConnectionLost \/ Connected

-----------------------------------------------------------------------------
(* The network and the cloud                                               *)

(* External: the client passes a message to __cloud_manager_subscribe_cb,  *)
(* which queues it or drops it.                                            *)
Incoming ==
    /\ fromCloud # <<>>
    /\ \/ Accepts(queue, "payload", Head(fromCloud)) /\ UNCHANGED <<faults, holes>>
       \/ Refuses(queue) /\ holes' = holes \cup {"payload"}
    /\ fromCloud' = Tail(fromCloud)
    /\ UNCHANGED <<up, broker, subs, toCloud, cloudVer, drops, events, comparing, gateVars, dropped, workerVars,
                   timers, stateVars, bare>>

(* External: the broker accepts a subscription, or does not.               *)
BrokerSubscribes(t) ==
    /\ subs[t] > 0
    /\ subs' = [subs EXCEPT ![t] = @ - 1]
    /\ \/ broker' = broker \cup {t} /\ events' = Post("sub", "none", TRUE) /\ UNCHANGED faults
       \/ UNCHANGED broker /\ events' = Post("sub", "none", FALSE) /\ Fault
    /\ UNCHANGED <<up, toCloud, fromCloud, cloudVer, drops, comparing, gateVars, dropped, queue, workerVars, timers,
                   stateVars, history>>

ToNode(m) == IF "self" \in broker THEN Append(fromCloud, m) ELSE fromCloud
Answer(what, isBare) ==
    CASE what = "info"    -> [group |-> TRUE, ver |-> cloudVer, details |-> None, bare |-> FALSE]
      [] what = "ver"     -> [group |-> FALSE, ver |-> cloudVer, details |-> None, bare |-> FALSE]
      [] what = "details" -> [group |-> FALSE, ver |-> None, details |-> cloudVer, bare |-> isBare]

(* External: a request is acknowledged and answered ...                    *)
CloudAnswers ==
    /\ toCloud # <<>>
    /\ toCloud' = Tail(toCloud)
    /\ events' = Post("pub", Head(toCloud).chan, TRUE)
    /\ \E isBare \in BOOLEAN :
        /\ IF isBare THEN Head(toCloud).ask = "details" /\ Fault ELSE UNCHANGED faults
        /\ fromCloud' = ToNode(Answer(Head(toCloud).ask, isBare))
    /\ UNCHANGED <<up, broker, subs, cloudVer, drops, comparing, gateVars, dropped, queue, workerVars, timers,
                   stateVars, history>>

(* ... or not acknowledged, and perhaps answered all the same.             *)
RequestFails ==
    /\ toCloud # <<>> /\ Fault
    /\ toCloud' = Tail(toCloud)
    /\ events' = Post("pub", Head(toCloud).chan, FALSE)
    /\ fromCloud' \in {fromCloud, ToNode(Answer(Head(toCloud).ask, FALSE))}
    /\ UNCHANGED <<up, broker, subs, cloudVer, drops, comparing, gateVars, dropped, queue, workerVars, timers,
                   stateVars, history>>

(* External: a user edits a schedule; the cloud pushes the version or the  *)
(* details.                                                                *)
Edit ==
    /\ cloudVer < 1 + MaxEdits
    /\ cloudVer' = cloudVer + 1
    /\ \E what \in {"ver", "details"} :
        fromCloud' = IF "self" \in broker
                     THEN Append(fromCloud, [group |-> FALSE, bare |-> FALSE,
                              ver |-> IF what = "ver" THEN cloudVer + 1 ELSE None,
                              details |-> IF what = "details" THEN cloudVer + 1 ELSE None])
                     ELSE fromCloud
    /\ UNCHANGED <<up, broker, subs, toCloud, drops, events, comparing, gateVars, dropped, queue, workerVars, timers,
                   stateVars, history, faults>>

(* External: the connection breaks; the client reports that, then that     *)
(* every request failed.  The broker forgets the session.                  *)
Disconnect ==
    /\ up /\ drops < MaxDrops /\ drops' = drops + 1
    /\ up' = FALSE
    /\ broker' = {} /\ subs' = [t \in Topics |-> 0] /\ toCloud' = <<>> /\ fromCloud' = <<>>
    /\ events' = Post("down", "none", TRUE)
                   \o [i \in 1..Len(toCloud) |-> [ev |-> "pub", chan |-> toCloud[i].chan, ok |-> FALSE]]
    /\ holes' = IF InListen THEN holes \cup {"stale"} ELSE holes
    /\ UNCHANGED <<cloudVer, comparing, gateVars, dropped, queue, workerVars, timers, stateVars, bare, faults>>

(* External: the client connects again.                                    *)
Connect ==
    /\ ~up
    /\ up' = TRUE
    /\ events' = Post("up", "none", TRUE)
    /\ UNCHANGED <<broker, subs, toCloud, fromCloud, cloudVer, drops, comparing, gateVars, dropped, queue, workerVars,
                   timers, stateVars, history, faults>>

Subscribing == \E t \in Topics : BrokerSubscribes(t)
Network == Incoming \/ Subscribing \/ CloudAnswers \/ RequestFails \/ Connect

Next == \/ Worker \/ EventLoop \/ \E c \in Contexts : TimerFires(c)
        \/ Network \/ Edit \/ Disconnect

(* The threads run, armed timers go off, and the network delivers; nobody  *)
(* has to edit anything.                                                   *)
Fairness == /\ WF_vars(Worker) /\ WF_vars(EventLoop)
            /\ \A c \in Contexts : WF_vars(TimerFires(c))
            /\ WF_vars(Incoming) /\ WF_vars(Subscribing) /\ WF_vars(CloudAnswers) /\ WF_vars(Connect)

Spec == Init /\ [][Next]_vars
FairSpec == Spec /\ Fairness

-----------------------------------------------------------------------------
TypeOK ==
    /\ up \in BOOLEAN /\ broker \subseteq Topics /\ subs \in [Topics -> Nat]
    /\ toCloud \in Seq(Request) /\ fromCloud \in Seq(Payload) /\ cloudVer \in Versions
    /\ events \in Seq(Event) /\ comparing \in Nat
    /\ flag \in BOOLEAN /\ expected \in 0..Cardinality(Topics) /\ completed \in Nat
    /\ inFlight \in BOOLEAN /\ issued \subseteq Topics /\ dropped \in BOOLEAN
    /\ queue \in Seq(Task) /\ Len(queue) <= MaxQueue
    /\ wpc \in {"idle", "listen", "filters", "lower", "check", "wait", "ask", "send"}
    /\ ask \subseteq Asks /\ timers \subseteq Contexts
    /\ version \in Versions \cup {-1} /\ progress \in Progress
    /\ details \in Versions \cup {None} /\ group \in BOOLEAN
    /\ holes \subseteq {"stale", "late", "asked", "payload", "stopped", "reconnect"} /\ bare \in BOOLEAN
    /\ drops \in 0..MaxDrops /\ faults \in 0..MaxFaults

(* A persisted version is that of the details the node has, whatever       *)
(* pushes, answers, edits and failures come between the two halves of the  *)
(* handshake ("commits the new version to NVS only once it has both        *)
(* halves"), as long as the details name their version.                    *)
CommittedIsHeld == version # -1 => (details = version \/ bare)

(* The bit that lets the node go on says that every subscription issued is *)
(* in place ("all expected acks received successfully"), unless a SUBACK   *)
(* of an earlier attempt was counted or the connection was lost under it.  *)
DownAhead == \E i \in 1..Len(events) : events[i].ev = "down"
ListeningIsLive == (flag /\ up /\ ~DownAhead) => (issued \subseteq broker \/ holes # {})

(* No SUBACK is lost between the count and the target: when the target is  *)
(* met, however it was lowered meanwhile, the bit is set (unless SUBACKs   *)
(* of two attempts or of two connections are mixed up).                    *)
GateOpens ==
    (wpc = "wait" /\ comparing = 0 /\ completed >= expected) => (flag \/ {"stale", "late"} \cap holes # {})

(* When faults and edits end the node comes to know its group and to hold  *)
(* the cloud's details under their version: the retries of the setup and   *)
(* of the version, and the order subscribe, then ask, leave nothing        *)
(* behind, except what "holes" names and a new connection makes good.      *)
Synced == <>[](holes # {} \/ bare \/ (group /\ version = cloudVer /\ details = cloudVer))
=============================================================================
