--------------------------- MODULE CloudSync_proofs ---------------------------
(***************************************************************************)
(* Proofs about the version handshake and the listening gate, for any set  *)
(* of filters, any queue size and any number of edits, lost connections    *)
(* and other faults.                                                       *)
(***************************************************************************)
EXTENDS CloudSync, FiniteSetTheorems, TLAPS

(* Sequences: the one without its oldest element, and with a new one.      *)
LEMMA TailFacts ==
    ASSUME NEW S, NEW q \in Seq(S), q # <<>>
    PROVE  /\ Tail(q) \in Seq(S) /\ Head(q) \in S /\ Head(q) = q[1]
           /\ Len(q) \in Nat /\ Len(q) >= 1 /\ Len(Tail(q)) = Len(q) - 1
           /\ \A i \in 1..Len(Tail(q)) : Tail(q)[i] = q[i + 1]
  OBVIOUS

(* A new element comes last.                                               *)
LEMMA AppendFacts ==
    ASSUME NEW S, NEW q \in Seq(S), NEW e \in S
    PROVE  /\ Append(q, e) \in Seq(S)
           /\ Len(q) \in Nat /\ Len(Append(q, e)) = Len(q) + 1
           /\ \A i \in 1..Len(q) : Append(q, e)[i] = q[i]
           /\ Append(q, e)[Len(q) + 1] = e
  OBVIOUS

(* Two sequences one after the other.                                      *)
LEMMA ConcatFacts ==
    ASSUME NEW S, NEW q \in Seq(S), NEW r \in Seq(S)
    PROVE  q \o r \in Seq(S)
  OBVIOUS

(* The values the code builds have their types.                            *)
LEMMA NoMsgType == NoMsg \in Payload /\ \A c \in Contexts \cup {"reconnect"} : [task |-> c, arg |-> NoMsg] \in Task
  BY DEF NoMsg, Payload, Task, None

(* A handshake that has not begun.                                         *)
LEMMA FreshType == Fresh \in Progress
  BY DEF Fresh, Progress

(* What the cloud answers.                                                 *)
LEMMA AnswerType ==
    ASSUME cloudVer \in Versions, NEW what \in Asks, NEW isBare \in BOOLEAN
    PROVE  Answer(what, isBare) \in Payload
  BY DEF Answer, Payload, Asks

(* There is at least the topic of the node itself.                         *)
LEMMA TopicsFinite == IsFiniteSet(Topics) /\ Cardinality(Topics) \in Nat /\ Cardinality(Topics) >= 1
  <1>1. IsFiniteSet(Topics)
    BY FiltersAssumption, FS_AddElement DEF Topics
  <1>2. Cardinality(Topics) \in Nat /\ Cardinality(Topics) # 0
    BY <1>1, FS_CardinalityType, FS_EmptySet DEF Topics
  <1> QED BY <1>1, <1>2

(* The topics that were subscribed to can be counted.                      *)
LEMMA SubsetCardinality ==
    ASSUME NEW S \in SUBSET Topics
    PROVE  /\ Cardinality(S) \in 0..Cardinality(Topics)
           /\ S # {} => Cardinality(S) >= 1
  <1>1. IsFiniteSet(S) /\ Cardinality(S) <= Cardinality(Topics)
    BY TopicsFinite, FS_Subset
  <1>2. Cardinality(S) \in Nat /\ (S # {} => Cardinality(S) # 0)
    BY <1>1, FS_CardinalityType, FS_EmptySet
  <1> QED BY <1>1, <1>2, TopicsFinite

-----------------------------------------------------------------------------
(* Types, by the part of the state they are about.                         *)
NetType == /\ up \in BOOLEAN /\ broker \subseteq Topics /\ subs \in [Topics -> Nat]
           /\ toCloud \in Seq(Request) /\ fromCloud \in Seq(Payload) /\ cloudVer \in Versions
           /\ drops \in 0..MaxDrops
EventType == events \in Seq(Event) /\ comparing \in Nat
GateType == /\ flag \in BOOLEAN /\ expected \in 0..Cardinality(Topics) /\ completed \in Nat
            /\ inFlight \in BOOLEAN /\ issued \subseteq Topics /\ dropped \in BOOLEAN
QueueType(q) == q \in Seq(Task) /\ Len(q) <= MaxQueue
(* What is asked for is known when the worker comes to send it.            *)
WorkerType == /\ wpc \in {"idle", "listen", "filters", "lower", "check", "wait", "ask", "send"}
              /\ ask \subseteq Asks /\ (wpc = "send" => ask # {})
TimerType == timers \subseteq Contexts
StateType == /\ version \in Versions \cup {-1} /\ progress \in Progress
             /\ details \in Versions \cup {None} /\ group \in BOOLEAN
HistoryType == /\ holes \subseteq {"stale", "late", "asked", "payload", "stopped", "reconnect"}
               /\ bare \in BOOLEAN
FaultType == faults \in 0..MaxFaults

Types == /\ NetType /\ EventType /\ GateType /\ QueueType(queue) /\ WorkerType
         /\ TimerType /\ StateType /\ HistoryType /\ FaultType

(* The parts together.                                                     *)
LEMMA TypesAreTypeOK == Types => TypeOK
  BY DEF Types, TypeOK, NetType, EventType, GateType, QueueType, WorkerType, TimerType, StateType,
         HistoryType, FaultType

(* What the pieces of the actions keep.                                    *)
LEMMA FaultKept == ASSUME FaultType, Fault \/ UNCHANGED faults PROVE FaultType'
  BY BoundsAssumption DEF FaultType, Fault

(* The work queue takes a task only while it has room.                     *)
LEMMA AcceptsType ==
    ASSUME NEW q, QueueType(q), NEW t, NEW arg, [task |-> t, arg |-> arg] \in Task, Accepts(q, t, arg)
    PROVE  QueueType(queue')
  BY BoundsAssumption, AppendFacts DEF QueueType, Accepts

(* ... and otherwise stays as it is.                                       *)
LEMMA RefusesType ==
    ASSUME NEW q, QueueType(q), FaultType, Refuses(q)
    PROVE  QueueType(queue') /\ FaultType'
  BY FaultKept DEF Refuses

(* The defaults of the cloud information.                                  *)
LEMMA OnFailureType == ASSUME StateType, NEW c, OnFailure(c) PROVE StateType'
  <1>1. CASE UNCHANGED stateVars
    BY <1>1 DEF StateType, stateVars
  <1>2. CASE c = "setup"
    <2>1. group' \in BOOLEAN
      BY <1>2, Zenon DEF OnFailure
    <2> QED BY <1>2, <2>1, FreshType DEF StateType, OnFailure
  <1> QED BY <1>1, <1>2 DEF OnFailure

(* __retry_manager_scheduler_task.                                         *)
LEMMA ScheduleType ==
    ASSUME StateType, TimerType, FaultType, NEW c \in Contexts, NEW q, QueueType(q), Schedule(c, q)
    PROVE  QueueType(queue') /\ TimerType' /\ StateType' /\ FaultType'
  <1>1. CASE Accepts(q, c, NoMsg) /\ timers' = timers \ {c} /\ UNCHANGED <<stateVars, faults>>
    BY <1>1, AcceptsType, NoMsgType DEF TimerType, StateType, FaultType, stateVars
  <1>2. CASE Refuses(q) /\ timers' = timers \cup {c} /\ OnFailure(c)
    BY <1>2, RefusesType, OnFailureType DEF TimerType
  <1> QED BY <1>1, <1>2 DEF Schedule

(* A request on its way.                                                   *)
LEMMA PublishType ==
    ASSUME NetType, FaultType, NEW c \in Channels, NEW what \in Asks, Publish(c, what)
    PROVE  NetType' /\ FaultType'
  <1>1. [chan |-> c, ask |-> what] \in Request
    BY DEF Request
  <1>2. toCloud' \in Seq(Request)
    BY <1>1, AppendFacts DEF Publish, NetType
  <1> QED BY <1>2 DEF Publish, NetType, FaultType

(* A request that the client refuses.                                      *)
LEMMA RefusalType == ASSUME NetType, FaultType, ClientRefuses PROVE NetType' /\ FaultType'
  BY FaultKept DEF ClientRefuses, NetType, netVars

(* A task that failed.                                                     *)
LEMMA TaskFailsType ==
    ASSUME StateType, TimerType, NEW c \in Contexts, TaskFails(c)
    PROVE  StateType' /\ TimerType' /\ WorkerType'
  BY OnFailureType DEF TaskFails, TimerType, WorkerType, Idle

(* A completion or a connection event comes last in the event loop.        *)
LEMMA PostType ==
    ASSUME events \in Seq(Event), NEW e, NEW c, NEW ok, [ev |-> e, chan |-> c, ok |-> ok] \in Event
    PROVE  /\ Post(e, c, ok) \in Seq(Event)
           /\ Len(events) \in Nat /\ Len(Post(e, c, ok)) = Len(events) + 1
           /\ \A i \in 1..Len(events) : Post(e, c, ok)[i] = events[i]
           /\ Post(e, c, ok)[Len(events) + 1] = [ev |-> e, chan |-> c, ok |-> ok]
  BY AppendFacts DEF Post

(* The events that are posted.                                             *)
LEMMA EventsTyped ==
    /\ \A e \in {"up", "down", "sub"}, ok \in BOOLEAN : [ev |-> e, chan |-> "none", ok |-> ok] \in Event
    /\ \A c \in Channels, ok \in BOOLEAN : [ev |-> "pub", chan |-> c, ok |-> ok] \in Event
  BY DEF Event

(* The worker takes the oldest task.                                       *)
LEMMA QueueTail ==
    ASSUME QueueType(queue), queue # <<>>
    PROVE  QueueType(Tail(queue)) /\ Head(queue) \in Task /\ Head(queue) = queue[1]
  <1>1. queue \in Seq(Task)
    BY DEF QueueType
  <1> HIDE DEF Task
  <1>2. Tail(queue) \in Seq(Task) /\ Head(queue) \in Task /\ Head(queue) = queue[1]
        /\ Len(queue) \in Nat /\ Len(Tail(queue)) = Len(queue) - 1
    BY <1>1, TailFacts
  <1> QED BY <1>2, BoundsAssumption DEF QueueType

(* What the cloud sends while the node listens.                            *)
LEMMA ToNodeType ==
    ASSUME NetType, NEW m \in Payload
    PROVE  ToNode(m) \in Seq(Payload)
  BY AppendFacts DEF ToNode, NetType

(* The handshake.                                                          *)
Outcomes == [version : Versions \cup {-1}, progress : Progress, ask : SUBSET Asks]

(* __on_version_updated.                                                   *)
LEMMA VersionOutcome ==
    ASSUME NEW v \in Versions \cup {None}, NEW o \in Outcomes
    PROVE  OnVersionUpdated(v, o) \in Outcomes
  BY DEF OnVersionUpdated, Outcome, Outcomes, Fresh, Progress, Asks

(* __on_details_updated.                                                   *)
LEMMA DetailsOutcome ==
    ASSUME NEW d \in Versions \cup {None}, NEW b \in BOOLEAN, NEW o \in Outcomes
    PROVE  OnDetailsUpdated(d, b, o) \in Outcomes
  BY DEF OnDetailsUpdated, Outcome, Outcomes, Fresh, Progress, Asks

(* The initial state is well typed.                                        *)
LEMMA TypeInit == Init => Types
  <1> SUFFICES ASSUME Init PROVE Types
    OBVIOUS
  <1> USE BoundsAssumption, TopicsFinite DEF Init
  <1>1. up \in BOOLEAN /\ flag \in BOOLEAN /\ inFlight \in BOOLEAN /\ dropped \in BOOLEAN
        /\ group \in BOOLEAN /\ bare \in BOOLEAN
    BY Zenon
  <1>2. NetType /\ EventType /\ GateType /\ TimerType /\ HistoryType /\ FaultType /\ WorkerType
    BY <1>1 DEF NetType, EventType, GateType, TimerType, HistoryType, FaultType, WorkerType,
       Versions
  <1>3. StateType
    BY <1>1, FreshType DEF StateType
  <1>4. QueueType(queue)
    BY NoMsgType, AppendFacts DEF QueueType, Contexts
  <1> QED BY <1>2, <1>3, <1>4 DEF Types

(* Every step keeps the types.                                             *)
LEMMA TypeStep == Types /\ [Next]_vars => Types'
  <1> SUFFICES ASSUME Types, [Next]_vars PROVE Types'
    OBVIOUS
  <1> USE DEF netVars, gateVars, workerVars, history
  <1>0. /\ NetType /\ EventType /\ GateType /\ QueueType(queue) /\ WorkerType
        /\ TimerType /\ StateType /\ HistoryType /\ FaultType
    BY DEF Types
  <1>1. CASE Reconnected
    <2>0. QueueType(Tail(queue))
      BY <1>0, <1>1, QueueTail DEF Reconnected, Takes
    <2>1. NetType' /\ EventType' /\ GateType' /\ WorkerType' /\ HistoryType'
      BY <1>0, <1>1 DEF Reconnected, NetType, EventType, GateType, WorkerType, HistoryType
    <2>2. QueueType(queue') /\ TimerType' /\ StateType' /\ FaultType'
      BY <1>0, <1>1, <2>0, ScheduleType DEF Reconnected, QueueType, TimerType, StateType, FaultType,
         Contexts
    <2> QED BY <2>1, <2>2 DEF Types
  <1>2. CASE Setup
    <2>0. QueueType(Tail(queue))
      BY <1>0, <1>2, QueueTail DEF Setup, Takes
    <2>1. NetType' /\ EventType' /\ GateType' /\ TimerType' /\ StateType' /\ HistoryType' /\ FaultType'
      BY <1>0, <1>2 DEF Setup, NetType, EventType, GateType, TimerType, StateType, HistoryType,
         FaultType, stateVars
    <2>2. QueueType(queue')
      BY <1>0, <1>2, <2>0 DEF Setup, QueueType
    <2>3. WorkerType'
      BY <1>0, <1>2 DEF Setup, WorkerType, Goto
    <2> QED BY <2>1, <2>2, <2>3 DEF Types
  <1>3. CASE Listen
    <2>1. EventType' /\ QueueType(queue') /\ TimerType' /\ StateType' /\ FaultType'
      BY <1>0, <1>3 DEF Listen, EventType, QueueType, TimerType, StateType, FaultType, stateVars
    <2>2. NetType'
      BY <1>0, <1>3 DEF Listen, NetType, Topics
    <2>3. GateType'
      <3>1. inFlight' \in BOOLEAN
        BY <1>3, Zenon DEF Listen
      <3> QED BY <1>0, <1>3, <3>1, TopicsFinite DEF Listen, GateType, Topics
    <2>4. WorkerType'
      BY <1>0, <1>3 DEF Listen, WorkerType, Goto
    <2>5. HistoryType'
      BY <1>0, <1>3 DEF Listen, HistoryType
    <2> QED BY <2>1, <2>2, <2>3, <2>4, <2>5 DEF Types
  <1>4. CASE ListenFails
    <2>1. EventType' /\ QueueType(queue') /\ HistoryType'
      BY <1>0, <1>4 DEF ListenFails, EventType, QueueType, HistoryType
    <2>2. NetType' /\ FaultType'
      BY <1>0, <1>4, RefusalType DEF ListenFails, NetType, FaultType
    <2>3. GateType'
      <3>1. inFlight' \in BOOLEAN
        BY <1>4, Zenon DEF ListenFails
      <3> QED BY <1>0, <1>4, <3>1, TopicsFinite DEF ListenFails, GateType
    <2>4. WorkerType' /\ StateType' /\ TimerType'
      BY <1>0, <1>4, TaskFailsType DEF ListenFails, WorkerType, StateType, TimerType, Contexts
    <2> QED BY <2>1, <2>2, <2>3, <2>4 DEF Types
  <1>5. CASE SubscribeFilters
    <2>1. EventType' /\ QueueType(queue') /\ TimerType' /\ StateType' /\ HistoryType'
      BY <1>0, <1>5 DEF SubscribeFilters, EventType, QueueType, TimerType, StateType, HistoryType,
         stateVars
    <2>2. NetType' /\ GateType' /\ WorkerType' /\ FaultType'
      BY <1>0, <1>5, FaultKept DEF SubscribeFilters, NetType, GateType, WorkerType, FaultType, Goto,
         Topics
    <2> QED BY <2>1, <2>2 DEF Types
  <1>6. CASE Lower
    <2>1. NetType' /\ EventType' /\ QueueType(queue') /\ TimerType' /\ StateType' /\ HistoryType' /\ FaultType'
      BY <1>0, <1>6 DEF Lower, NetType, EventType, QueueType, TimerType, StateType, HistoryType,
         FaultType, stateVars
    <2>2. GateType'
      BY <1>0, <1>6, SubsetCardinality DEF Lower, GateType
    <2>3. WorkerType'
      BY <1>0, <1>6 DEF Lower, WorkerType, Goto
    <2> QED BY <2>1, <2>2, <2>3 DEF Types
  <1>7. CASE Check
    <2>1. NetType' /\ EventType' /\ QueueType(queue') /\ TimerType' /\ StateType' /\ HistoryType' /\ FaultType'
      BY <1>0, <1>7 DEF Check, NetType, EventType, QueueType, TimerType, StateType, HistoryType,
         FaultType, stateVars
    <2>2. GateType'
      BY <1>0, <1>7 DEF Check, GateType
    <2>3. WorkerType'
      BY <1>0, <1>7 DEF Check, WorkerType, Goto
    <2> QED BY <2>1, <2>2, <2>3 DEF Types
  <1>8. CASE Listening
    <2>1. NetType' /\ EventType' /\ QueueType(queue') /\ TimerType' /\ StateType' /\ HistoryType' /\ FaultType'
      BY <1>0, <1>8 DEF Listening, NetType, EventType, QueueType, TimerType, StateType, HistoryType,
         FaultType, stateVars
    <2>2. GateType'
      BY <1>0, <1>8 DEF Listening, GateType
    <2>3. WorkerType'
      BY <1>0, <1>8 DEF Listening, WorkerType, Goto
    <2> QED BY <2>1, <2>2, <2>3 DEF Types
  <1>9. CASE ListenTimesOut
    <2>1. NetType' /\ EventType' /\ QueueType(queue') /\ HistoryType'
      BY <1>0, <1>9 DEF ListenTimesOut, NetType, EventType, QueueType, HistoryType
    <2>2. FaultType'
      BY <1>0, <1>9, FaultKept DEF ListenTimesOut, FaultType
    <2>3. GateType'
      BY <1>0, <1>9 DEF ListenTimesOut, GateType
    <2>4. WorkerType' /\ StateType' /\ TimerType'
      BY <1>0, <1>9, TaskFailsType DEF ListenTimesOut, WorkerType, StateType, TimerType, Contexts
    <2> QED BY <2>1, <2>2, <2>3, <2>4 DEF Types
  <1>10. CASE GetCloudInfo
    <2>1. EventType' /\ GateType' /\ QueueType(queue') /\ HistoryType'
      BY <1>0, <1>10 DEF GetCloudInfo, EventType, GateType, QueueType, HistoryType
    <2>2. NetType' /\ FaultType' /\ WorkerType' /\ StateType' /\ TimerType'
      BY <1>0, <1>10, RefusalType, PublishType, TaskFailsType DEF GetCloudInfo, NetType, FaultType,
         WorkerType, StateType, TimerType, Idle, Contexts, Channels, Asks, stateVars
    <2> QED BY <2>1, <2>2 DEF Types
  <1>11. CASE VersionRetry
    <2>0. QueueType(Tail(queue))
      BY <1>0, <1>11, QueueTail DEF VersionRetry, Takes
    <2>1. EventType' /\ GateType' /\ WorkerType' /\ HistoryType'
      BY <1>0, <1>11 DEF VersionRetry, EventType, GateType, WorkerType, HistoryType
    <2>2. QueueType(queue')
      BY <1>0, <1>11, <2>0 DEF VersionRetry, QueueType
    <2>3. NetType' /\ FaultType' /\ TimerType' /\ StateType'
      BY <1>0, <1>11, RefusalType, PublishType, FreshType DEF VersionRetry, NetType, FaultType,
         TimerType, StateType, Contexts, Channels, Asks, stateVars
    <2> QED BY <2>1, <2>2, <2>3 DEF Types
  <1>12. CASE Dispatch
    <2>0. QueueType(Tail(queue))
      BY <1>0, <1>12, QueueTail DEF Dispatch, Takes
    <2>1. NetType' /\ EventType' /\ GateType' /\ TimerType' /\ FaultType'
      BY <1>0, <1>12 DEF Dispatch, NetType, EventType, GateType, TimerType, FaultType
    <2>2. QueueType(queue')
      BY <1>0, <1>12, <2>0 DEF Dispatch, QueueType
    <2>3. StateType' /\ WorkerType' /\ HistoryType'
      <3> DEFINE m == Head(queue).arg
                 v == OnVersionUpdated(m.ver, Outcome(version, progress, {}))
                 o == OnDetailsUpdated(m.details, m.bare, v)
                 a == IF m.ver # None THEN o.ask \ {"ver"} ELSE o.ask
      <3>1. m \in Payload
        BY <1>0, <1>12, QueueTail DEF Dispatch, Takes, Task, Contexts
      <3>2. /\ m.ver \in Versions \cup {None} /\ m.details \in Versions \cup {None}
            /\ m.bare \in BOOLEAN /\ m.group \in BOOLEAN
        BY <3>1 DEF Payload
      <3>3. Outcome(version, progress, {}) \in Outcomes
        BY <1>0 DEF Outcome, Outcomes, StateType
      <3>4. o \in Outcomes
        BY <3>2, <3>3, VersionOutcome, DetailsOutcome
      <3>5. /\ group' = (group \/ m.group) /\ bare' = (bare \/ m.bare)
            /\ version' = o.version /\ progress' = o.progress
            /\ details' = IF m.details # None THEN m.details ELSE details
            /\ ask' = a /\ wpc' = (IF a = {} THEN "idle" ELSE "send") /\ UNCHANGED holes
        BY <1>12 DEF Dispatch
      <3> HIDE DEF m, v, o
      <3>6. group' \in BOOLEAN /\ bare' \in BOOLEAN
        BY <3>5, Zenon
      <3> QED BY <1>0, <3>2, <3>4, <3>5, <3>6 DEF StateType, WorkerType, HistoryType, Outcomes
    <2> QED BY <2>1, <2>2, <2>3 DEF Types
  <1>13. CASE Send
    <2>1. EventType' /\ GateType' /\ QueueType(queue') /\ TimerType' /\ StateType' /\ HistoryType'
      BY <1>0, <1>13 DEF Send, EventType, GateType, QueueType, TimerType, StateType, HistoryType,
         stateVars
    <2>2. NetType' /\ FaultType'
      <3>1. (CHOOSE a \in ask : TRUE) \in Asks
        BY <1>0, <1>13 DEF Send, WorkerType
      <3> QED BY <1>0, <1>13, <3>1, PublishType DEF Send, Channels
    <2>3. WorkerType'
      BY <1>0, <1>13 DEF Send, WorkerType, Idle
    <2> QED BY <2>1, <2>2, <2>3 DEF Types
  <1>14. CASE SendFails
    <2>1. EventType' /\ GateType' /\ StateType'
      BY <1>0, <1>14 DEF SendFails, EventType, GateType, StateType, stateVars
    <2>2. NetType' /\ FaultType'
      BY <1>0, <1>14, RefusalType DEF SendFails, NetType, FaultType
    <2>3. QueueType(queue') /\ TimerType'
      BY <1>0, <1>14, AcceptsType, NoMsgType DEF SendFails, QueueType, TimerType, Contexts
    <2>4. HistoryType'
      BY <1>0, <1>14 DEF SendFails, HistoryType
    <2>5. WorkerType'
      BY <1>0, <1>14 DEF SendFails, WorkerType, Idle
    <2> QED BY <2>1, <2>2, <2>3, <2>4, <2>5 DEF Types
  <1>15. CASE SubscribeAck
    <2>1. NetType' /\ QueueType(queue') /\ WorkerType' /\ TimerType' /\ StateType' /\ HistoryType' /\ FaultType'
      BY <1>0, <1>15 DEF SubscribeAck, NetType, QueueType, WorkerType, TimerType, StateType,
         HistoryType, FaultType, stateVars
    <2>2. EventType'
      <3>1. events' \in Seq(Event)
        BY <1>0, <1>15, TailFacts DEF SubscribeAck, EventType, Handles
      <3> QED BY <1>0, <1>15, <3>1 DEF SubscribeAck, EventType, GateType
    <2>3. GateType'
      BY <1>0, <1>15 DEF SubscribeAck, GateType
    <2> QED BY <2>1, <2>2, <2>3 DEF Types
  <1>16. CASE CompareAck
    <2>1. NetType' /\ QueueType(queue') /\ WorkerType' /\ TimerType' /\ StateType' /\ HistoryType' /\ FaultType'
      BY <1>0, <1>16 DEF CompareAck, NetType, QueueType, WorkerType, TimerType, StateType,
         HistoryType, FaultType, stateVars
    <2>2. EventType'
      BY <1>0, <1>16 DEF CompareAck, EventType
    <2>3. GateType'
      BY <1>0, <1>16 DEF CompareAck, GateType
    <2> QED BY <2>1, <2>2, <2>3 DEF Types
  <1>17. CASE PublishAck
    <2>1. NetType' /\ GateType' /\ QueueType(queue') /\ WorkerType' /\ FaultType'
      BY <1>0, <1>17 DEF PublishAck, NetType, GateType, QueueType, WorkerType, FaultType
    <2>2. EventType'
      BY <1>0, <1>17, TailFacts DEF PublishAck, EventType, Handles
    <2>3. TimerType' /\ StateType' /\ HistoryType'
      BY <1>0, <1>17, OnFailureType DEF PublishAck, TimerType, StateType, HistoryType, Stop,
         history, stateVars
    <2> QED BY <2>1, <2>2, <2>3 DEF Types
  <1>18. CASE ConnectionLost
    <2>1. NetType' /\ QueueType(queue') /\ WorkerType' /\ TimerType' /\ StateType' /\ FaultType'
      BY <1>0, <1>18 DEF ConnectionLost, NetType, QueueType, WorkerType, TimerType, StateType,
         FaultType, stateVars
    <2>2. EventType'
      BY <1>0, <1>18, TailFacts DEF ConnectionLost, EventType, Handles
    <2>3. GateType'
      BY <1>0, <1>18 DEF ConnectionLost, GateType
    <2>4. HistoryType'
      BY <1>0, <1>18 DEF ConnectionLost, HistoryType
    <2> QED BY <2>1, <2>2, <2>3, <2>4 DEF Types
  <1>19. CASE Connected
    <2>1. NetType' /\ GateType' /\ WorkerType' /\ TimerType' /\ StateType'
      BY <1>0, <1>19 DEF Connected, NetType, GateType, WorkerType, TimerType, StateType, stateVars
    <2>2. EventType'
      BY <1>0, <1>19, TailFacts DEF Connected, EventType, Handles
    <2>3. QueueType(queue') /\ HistoryType' /\ FaultType'
      BY <1>0, <1>19, AcceptsType, RefusesType, NoMsgType DEF Connected, QueueType, HistoryType,
         FaultType
    <2> QED BY <2>1, <2>2, <2>3 DEF Types
  <1>20. ASSUME NEW c \in Contexts, TimerFires(c) PROVE Types'
    <2>1. NetType' /\ EventType' /\ GateType' /\ WorkerType' /\ HistoryType'
      BY <1>0, <1>20 DEF TimerFires, NetType, EventType, GateType, WorkerType, HistoryType
    <2>2. QueueType(queue') /\ TimerType' /\ StateType' /\ FaultType'
      BY <1>0, <1>20, ScheduleType DEF TimerFires, QueueType, TimerType, StateType, FaultType
    <2> QED BY <2>1, <2>2 DEF Types
  <1>21. CASE Incoming
    <2>0. [task |-> "payload", arg |-> Head(fromCloud)] \in Task
      BY <1>0, <1>21, TailFacts DEF Incoming, NetType, Task
    <2>1. EventType' /\ GateType' /\ WorkerType' /\ TimerType' /\ StateType'
      BY <1>0, <1>21 DEF Incoming, EventType, GateType, WorkerType, TimerType, StateType, stateVars
    <2>2. NetType'
      BY <1>0, <1>21, TailFacts DEF Incoming, NetType
    <2>3. QueueType(queue') /\ HistoryType' /\ FaultType'
      BY <1>0, <1>21, <2>0, AcceptsType, RefusesType DEF Incoming, QueueType, HistoryType, FaultType
    <2> QED BY <2>1, <2>2, <2>3 DEF Types
  <1>22. ASSUME NEW t \in Topics, BrokerSubscribes(t) PROVE Types'
    <2>1. GateType' /\ QueueType(queue') /\ WorkerType' /\ TimerType' /\ StateType' /\ HistoryType'
      BY <1>0, <1>22 DEF BrokerSubscribes, GateType, QueueType, WorkerType, TimerType, StateType,
         HistoryType, stateVars
    <2>2. NetType'
      <3>1. subs' \in [Topics -> Nat]
        BY <1>0, <1>22 DEF BrokerSubscribes, NetType
      <3> QED BY <1>0, <1>22, <3>1 DEF BrokerSubscribes, NetType
    <2>3. EventType' /\ FaultType'
      BY <1>0, <1>22, PostType, EventsTyped, FaultKept DEF BrokerSubscribes, EventType, FaultType
    <2> QED BY <2>1, <2>2, <2>3 DEF Types
  <1>23. CASE CloudAnswers
    <2>1. GateType' /\ QueueType(queue') /\ WorkerType' /\ TimerType' /\ StateType' /\ HistoryType'
      BY <1>0, <1>23 DEF CloudAnswers, GateType, QueueType, WorkerType, TimerType, StateType,
         HistoryType, stateVars
    <2>2. NetType' /\ EventType' /\ FaultType'
      <3>1. Head(toCloud) \in Request /\ Tail(toCloud) \in Seq(Request)
        BY <1>0, <1>23, TailFacts DEF CloudAnswers, NetType
      <3>2. Head(toCloud).chan \in Channels /\ Head(toCloud).ask \in Asks
        BY <3>1 DEF Request
      <3>3. events' \in Seq(Event)
        BY <1>0, <1>23, <3>2, PostType, EventsTyped DEF CloudAnswers, EventType
      <3>4. \A b \in BOOLEAN : ToNode(Answer(Head(toCloud).ask, b)) \in Seq(Payload)
        BY <1>0, <3>2, AnswerType, ToNodeType DEF NetType
      <3>5. fromCloud' \in Seq(Payload) /\ FaultType'
        BY <1>0, <1>23, <3>4, FaultKept DEF CloudAnswers, NetType
      <3> QED BY <1>0, <1>23, <3>1, <3>3, <3>5 DEF CloudAnswers, NetType, EventType
    <2> QED BY <2>1, <2>2 DEF Types
  <1>24. CASE RequestFails
    <2>1. GateType' /\ QueueType(queue') /\ WorkerType' /\ TimerType' /\ StateType' /\ HistoryType'
      BY <1>0, <1>24 DEF RequestFails, GateType, QueueType, WorkerType, TimerType, StateType,
         HistoryType, stateVars
    <2>2. NetType' /\ EventType' /\ FaultType'
      <3>1. Head(toCloud) \in Request /\ Tail(toCloud) \in Seq(Request)
        BY <1>0, <1>24, TailFacts DEF RequestFails, NetType
      <3>2. Head(toCloud).chan \in Channels /\ Head(toCloud).ask \in Asks
        BY <3>1 DEF Request
      <3>3. events' \in Seq(Event)
        BY <1>0, <1>24, <3>2, PostType, EventsTyped DEF RequestFails, EventType
      <3>4. \A b \in BOOLEAN : ToNode(Answer(Head(toCloud).ask, b)) \in Seq(Payload)
        BY <1>0, <3>2, AnswerType, ToNodeType DEF NetType
      <3>5. fromCloud' \in Seq(Payload) /\ FaultType'
        BY <1>0, <1>24, <3>4, FaultKept DEF RequestFails, NetType
      <3> QED BY <1>0, <1>24, <3>1, <3>3, <3>5 DEF RequestFails, NetType, EventType
    <2> QED BY <2>1, <2>2 DEF Types
  <1>25. CASE Edit
    <2>1. EventType' /\ GateType' /\ QueueType(queue') /\ WorkerType' /\ TimerType' /\ StateType' /\ HistoryType' /\ FaultType'
      BY <1>0, <1>25 DEF Edit, EventType, GateType, QueueType, WorkerType, TimerType, StateType,
         HistoryType, FaultType, stateVars
    <2>2. NetType'
      <3>1. cloudVer + 1 \in Versions
        BY <1>0, <1>25, BoundsAssumption DEF Edit, NetType, Versions
      <3>2. \A what \in {"ver", "details"} :
               [group |-> FALSE, bare |-> FALSE,
                ver |-> IF what = "ver" THEN cloudVer + 1 ELSE None,
                details |-> IF what = "details" THEN cloudVer + 1 ELSE None] \in Payload
        BY <3>1 DEF Payload
      <3>3. fromCloud' \in Seq(Payload)
        <4> DEFINE pushed(what) == [group |-> FALSE, bare |-> FALSE,
                                    ver |-> IF what = "ver" THEN cloudVer + 1 ELSE None,
                                    details |-> IF what = "details" THEN cloudVer + 1 ELSE None]
        <4>1. PICK what \in {"ver", "details"} :
                  fromCloud' = IF "self" \in broker THEN Append(fromCloud, pushed(what)) ELSE fromCloud
          BY <1>25 DEF Edit
        <4>2. pushed(what) \in Payload
          BY <3>2
        <4> HIDE DEF pushed
        <4> QED BY <1>0, <4>1, <4>2, AppendFacts DEF NetType
      <3> QED BY <1>0, <1>25, <3>1, <3>3 DEF Edit, NetType
    <2> QED BY <2>1, <2>2 DEF Types
  <1>26. CASE Disconnect
    <2>1. GateType' /\ QueueType(queue') /\ WorkerType' /\ TimerType' /\ StateType' /\ FaultType'
      BY <1>0, <1>26 DEF Disconnect, GateType, QueueType, WorkerType, TimerType, StateType,
         FaultType, stateVars
    <2>2. NetType'
      <3>1. up' \in BOOLEAN
        BY <1>26, Zenon DEF Disconnect
      <3>2. subs' \in [Topics -> Nat] /\ drops' \in 0..MaxDrops
        BY <1>0, <1>26, BoundsAssumption DEF Disconnect, NetType
      <3> QED BY <1>0, <1>26, <3>1, <3>2 DEF Disconnect, NetType
    <2>3. EventType'
      <3> DEFINE failed == [i \in 1..Len(toCloud) |-> [ev |-> "pub", chan |-> toCloud[i].chan, ok |-> FALSE]]
      <3>1. \A i \in 1..Len(toCloud) : toCloud[i].chan \in Channels
        <4>1. \A i \in 1..Len(toCloud) : toCloud[i] \in Request
          BY <1>0 DEF NetType
        <4> QED BY <4>1 DEF Request
      <3>2. Len(toCloud) \in Nat
        BY <1>0 DEF NetType
      <3>3. \A i \in 1..Len(toCloud) : [ev |-> "pub", chan |-> toCloud[i].chan, ok |-> FALSE] \in Event
        BY <3>1, EventsTyped
      <3>4. failed \in Seq(Event)
        BY <3>2, <3>3
      <3>5. Post("down", "none", TRUE) \in Seq(Event)
        BY <1>0, PostType, EventsTyped DEF EventType
      <3>6. Post("down", "none", TRUE) \o failed \in Seq(Event)
        BY <3>4, <3>5, ConcatFacts
      <3> QED BY <1>0, <1>26, <3>6 DEF Disconnect, EventType
    <2>4. HistoryType'
      BY <1>0, <1>26 DEF Disconnect, HistoryType
    <2> QED BY <2>1, <2>2, <2>3, <2>4 DEF Types
  <1>27. CASE Connect
    <2>1. GateType' /\ QueueType(queue') /\ WorkerType' /\ TimerType' /\ StateType' /\ HistoryType' /\ FaultType'
      BY <1>0, <1>27 DEF Connect, GateType, QueueType, WorkerType, TimerType, StateType,
         HistoryType, FaultType, stateVars
    <2>2. NetType'
      BY <1>0, <1>27 DEF Connect, NetType
    <2>3. EventType'
      BY <1>0, <1>27, PostType, EventsTyped DEF Connect, EventType
    <2> QED BY <2>1, <2>2, <2>3 DEF Types
  <1>28. CASE UNCHANGED vars
    BY <1>0, <1>28 DEF vars, stateVars, Types, NetType, EventType, GateType, QueueType, WorkerType,
       TimerType, StateType, HistoryType, FaultType
  <1> QED
    BY <1>1, <1>2, <1>3, <1>4, <1>5, <1>6, <1>7, <1>8, <1>9, <1>10, <1>11, <1>12, <1>13, <1>14,
       <1>15, <1>16, <1>17, <1>18, <1>19, <1>20, <1>21, <1>22, <1>23, <1>24, <1>25, <1>26, <1>27,
       <1>28 DEF Next, Worker, EventLoop, Network, Subscribing

-----------------------------------------------------------------------------
(* Until details come without their version, a commit is of the version    *)
(* that the details name, and no half of the handshake waits for another.  *)
Held == bare = FALSE => /\ progress.newDetails = FALSE
                        /\ version = -1 \/ details = version

(* SUBACKs of two attempts or of two connections are mixed up.             *)
Mixed == {"stale", "late"} \cap holes # {}

(* While the worker is in start_listening, the SUBACKs that are counted    *)
(* are those of this attempt: the ones the client has reported come after  *)
(* any lost connection in the event loop, so the bit is not lowered any    *)
(* more once one is counted.  What has been compared and met is the bit.   *)
Gate ==
    InListen /\ ~Mixed =>
        /\ "self" \in issued /\ expected >= 1
        /\ comparing # 0 => comparing = completed
        /\ DownAhead => completed = 0 /\ comparing = 0
        /\ \A i, j \in 1..Len(events) : events[i].ev = "sub" /\ events[j].ev = "down" => j < i
        /\ wpc \in {"filters", "wait"} /\ comparing = 0 /\ completed >= expected => flag = TRUE

(* The initial state satisfies both invariants.                            *)
LEMMA InvInit == Init => Held /\ Gate
  BY DEF Init, Held, Gate, Fresh, InListen

(* A failure gives the version up.                                         *)
LEMMA OnFailureHeld == ASSUME Held, NEW c, OnFailure(c), UNCHANGED bare PROVE Held'
  BY DEF OnFailure, Held, Fresh, stateVars

(* The handshake commits a version only with the details that name it: a   *)
(* version that comes alone waits for them.                                *)
LEMMA DispatchHeld == ASSUME Types, Held, Dispatch PROVE Held'
  <1> DEFINE m == Head(queue).arg
             v == OnVersionUpdated(m.ver, Outcome(version, progress, {}))
             o == OnDetailsUpdated(m.details, m.bare, v)
  <1>1. m \in Payload
    BY QueueTail DEF Types, Dispatch, Takes, Task, Contexts
  <1>2. m.ver \in Versions \cup {None} /\ m.details \in Versions \cup {None} /\ m.bare \in BOOLEAN
    BY <1>1 DEF Payload
  <1>3. bare' = (bare \/ m.bare) /\ version' = o.version /\ progress' = o.progress
        /\ details' = (IF m.details # None THEN m.details ELSE details)
    BY DEF Dispatch
  <1>4. bare \in BOOLEAN /\ progress \in Progress
    BY DEF Types, HistoryType, StateType
  <1>5. SUFFICES ASSUME bare = FALSE, m.bare = FALSE
                 PROVE  progress'.newDetails = FALSE /\ (version' = -1 \/ details' = version')
    BY <1>2, <1>3, <1>4, Zenon DEF Held
  <1>6. progress.newDetails = FALSE /\ (version = -1 \/ details = version)
    BY <1>5 DEF Held
  <1> HIDE DEF m
  <1>7. v.progress.newDetails = FALSE /\ v.version = version
    BY <1>4, <1>6 DEF OnVersionUpdated, Outcome, Fresh, Progress
  <1> HIDE DEF v
  <1>8. CASE m.details = None
    BY <1>3, <1>6, <1>7, <1>8 DEF OnDetailsUpdated
  <1>9. CASE m.details # None
    <2>1. o = Outcome(m.details, Fresh, v.ask \ {"details"})
      BY <1>5, <1>9 DEF OnDetailsUpdated
    <2> QED BY <1>3, <1>9, <2>1 DEF Outcome, Fresh
  <1> QED BY <1>8, <1>9

(* Every step of the four threads keeps Held.                              *)
LEMMA HeldStep == Types /\ Held /\ [Next]_vars => Held'
  <1> SUFFICES ASSUME Types, Held, [Next]_vars PROVE Held'
    OBVIOUS
  <1> USE DEF history, stateVars
  <1>1. CASE UNCHANGED <<stateVars, bare>>
    BY <1>1 DEF Held
  <1>2. CASE Reconnected
    BY <1>2, OnFailureHeld DEF Reconnected, Schedule, Held
  <1>3. CASE ListenFails \/ ListenTimesOut
    BY <1>3, OnFailureHeld DEF ListenFails, ListenTimesOut, TaskFails
  <1>4. CASE GetCloudInfo
    BY <1>4, OnFailureHeld DEF GetCloudInfo, TaskFails, Held
  <1>5. CASE VersionRetry
    BY <1>5 DEF VersionRetry, Held, Fresh
  <1>6. CASE Dispatch
    BY <1>6, DispatchHeld
  <1>7. CASE PublishAck
    BY <1>7, OnFailureHeld DEF PublishAck, Held
  <1>8. ASSUME NEW c \in Contexts, TimerFires(c) PROVE Held'
    BY <1>8, OnFailureHeld DEF TimerFires, Schedule, Held
  <1>9. CASE Setup \/ Listen \/ SubscribeFilters \/ Lower \/ Check \/ Listening \/ Send \/ SendFails
    BY <1>1, <1>9 DEF Setup, Listen, SubscribeFilters, Lower, Check, Listening, Send, SendFails
  <1>10. CASE SubscribeAck \/ CompareAck \/ ConnectionLost \/ Connected
    BY <1>1, <1>10 DEF SubscribeAck, CompareAck, ConnectionLost, Connected
  <1>11. CASE Network \/ Edit \/ Disconnect
    BY <1>1, <1>11 DEF Network, Incoming, Subscribing, BrokerSubscribes, CloudAnswers, RequestFails,
       Connect, Edit, Disconnect
  <1>12. CASE UNCHANGED vars
    BY <1>1, <1>12 DEF vars
  <1> QED
    BY <1>2, <1>3, <1>4, <1>5, <1>6, <1>7, <1>8, <1>9, <1>10, <1>11, <1>12 DEF Next, Worker,
       EventLoop

(* Every variable keeps its type, so the work queue and the gate stay      *)
(* within their bounds.                                                    *)
THEOREM TypeCorrect == Spec => []TypeOK
  BY TypeInit, TypeStep, TypesAreTypeOK, PTL DEF Spec

(* CommittedIsHeld holds in every reachable state: cloud_events.c persists *)
(* a version only together with the details made for it, whatever pushes,  *)
(* answers, edits and failures come between, for any number of them.       *)
THEOREM VersionSafety == Spec => []CommittedIsHeld
  <1>1. Types /\ Held => CommittedIsHeld
    <2> SUFFICES ASSUME Types, Held PROVE CommittedIsHeld
      OBVIOUS
    <2>1. bare = TRUE \/ bare = FALSE
      BY Zenon DEF Types, HistoryType
    <2> QED BY <2>1 DEF Held, CommittedIsHeld
  <1>2. Init => Types /\ Held
    BY TypeInit, InvInit
  <1>3. Types /\ Held /\ [Next]_vars => (Types /\ Held)'
    BY TypeStep, HeldStep
  <1> QED BY <1>1, <1>2, <1>3, PTL DEF Spec

-----------------------------------------------------------------------------
(* A step that leaves the gate, the events and the holes alone, and keeps  *)
(* the worker out of start_listening or where it is, keeps Gate.           *)
LEMMA GateStays ==
    ASSUME Gate, UNCHANGED <<gateVars, events, comparing>>,
           wpc' = wpc \/ ~InListen', {"stale", "late"} \cap holes' = {"stale", "late"} \cap holes
    PROVE  Gate'
  BY DEF Gate, gateVars, InListen, Mixed, DownAhead

(* Outside start_listening Gate says nothing.                              *)
LEMMA GateIdle == ASSUME ~InListen' PROVE Gate'
  BY DEF Gate

(* The event loop takes its oldest event.                                  *)
LEMMA EventTaken ==
    ASSUME Types, NEW e, Handles(e)
    PROVE  /\ Len(events) \in Nat /\ Len(events) >= 1 /\ events[1].ev = e
           /\ Len(events') = Len(events) - 1
           /\ \A i \in 1..Len(events') : events'[i] = events[i + 1] /\ i + 1 \in 1..Len(events)
           /\ DownAhead' => DownAhead
  <1>1. events \in Seq(Event)
    BY DEF Types, EventType
  <1>2. /\ Len(events) \in Nat /\ Len(events) >= 1 /\ events[1].ev = e
        /\ Len(events') = Len(events) - 1
        /\ \A i \in 1..Len(events') : events'[i] = events[i + 1] /\ i + 1 \in 1..Len(events)
    BY <1>1, TailFacts DEF Handles
  <1> QED BY <1>2 DEF DownAhead

(* An event that is not the loss of the connection is posted: it comes     *)
(* after all the others.                                                   *)
LEMMA EventPosted ==
    ASSUME Types, NEW e \in {"up", "sub", "pub"}, NEW c, NEW ok, [ev |-> e, chan |-> c, ok |-> ok] \in Event,
           events' = Post(e, c, ok), Gate, UNCHANGED <<gateVars, comparing, wpc, holes>>
    PROVE  Gate'
  <1> SUFFICES ASSUME InListen', ~Mixed' PROVE Gate'
    BY DEF Gate
  <1>1. InListen /\ ~Mixed
    BY DEF InListen, Mixed
  <1>2. /\ Len(events) \in Nat /\ Len(events') = Len(events) + 1
        /\ \A i \in 1..Len(events) : events'[i] = events[i]
        /\ events'[Len(events) + 1].ev = e
    BY PostType DEF Types, EventType
  <1>3. DownAhead' => DownAhead
    BY <1>2 DEF DownAhead
  <1>4. ASSUME NEW i \in 1..Len(events'), NEW j \in 1..Len(events'),
               events'[i].ev = "sub", events'[j].ev = "down"
        PROVE  j < i
    <2>1. j \in 1..Len(events) /\ events[j].ev = "down"
      BY <1>2, <1>4
    <2>2. CASE i \in 1..Len(events)
      BY <1>1, <1>2, <1>4, <2>1, <2>2 DEF Gate
    <2>3. CASE i = Len(events) + 1
      BY <2>1, <2>3
    <2> QED BY <1>2, <2>2, <2>3
  <1> QED BY <1>1, <1>3, <1>4 DEF Gate, gateVars

(* Every step of the four threads keeps Gate.                              *)
LEMMA GateStep == Types /\ Gate /\ [Next]_vars => Gate'
  <1> SUFFICES ASSUME Types, Gate, [Next]_vars PROVE Gate'
    OBVIOUS
  <1> USE DEF netVars, history, workerVars
  <1>0. comparing \in Nat /\ completed \in Nat /\ expected \in Nat /\ issued \subseteq Topics
        /\ flag \in BOOLEAN
    BY TopicsFinite DEF Types, EventType, GateType
  <1>1. CASE Reconnected
    BY <1>1, GateStays DEF Reconnected
  <1>2. CASE Setup \/ Listening \/ ListenFails \/ ListenTimesOut \/ GetCloudInfo \/ Dispatch \/ Send \/ SendFails
    BY <1>2, GateIdle DEF Setup, Listening, ListenFails, ListenTimesOut, GetCloudInfo, Dispatch,
       Send, SendFails,
        TaskFails, Idle, Goto, InListen
  <1>3. CASE VersionRetry
    BY <1>3, GateStays DEF VersionRetry
  <1>4. CASE Listen
    <2> SUFFICES ASSUME ~Mixed' PROVE Gate'
      BY DEF Gate
    <2>1. ~LateAck
      BY <1>4 DEF Listen, Mixed
    <2>2. comparing = 0 /\ \A i \in 1..Len(events) : events[i].ev # "sub"
      BY <1>0, <2>1 DEF LateAck
    <2> QED BY <1>4, <2>2, TopicsFinite DEF Listen, Gate
  <1>5. CASE SubscribeFilters
    <2>1. InListen /\ wpc = "filters" /\ (~Mixed' => ~Mixed) /\ (DownAhead' => DownAhead)
      BY <1>5 DEF SubscribeFilters, InListen, Mixed, DownAhead
    <2>2. issued \subseteq issued'
      BY <1>5 DEF SubscribeFilters
    <2> QED BY <1>5, <2>1, <2>2 DEF SubscribeFilters, Gate
  <1>6. CASE Lower
    <2>1. InListen /\ (~Mixed' => ~Mixed) /\ (DownAhead' => DownAhead) /\ wpc' = "check"
      BY <1>6 DEF Lower, Goto, InListen, Mixed, DownAhead
    <2>2. "self" \in issued => Cardinality(issued) >= 1
      BY <1>0, SubsetCardinality
    <2> QED BY <1>6, <2>1, <2>2 DEF Lower, Gate
  <1>7. CASE Check
    <2>1. InListen /\ (~Mixed' => ~Mixed) /\ (DownAhead' => DownAhead)
      BY <1>7 DEF Check, InListen, Mixed, DownAhead
    <2>2. completed >= expected => flag' = TRUE
      BY <1>7, Zenon DEF Check
    <2> QED BY <1>7, <2>1, <2>2 DEF Check, Gate
  <1>8. CASE SubscribeAck
    <2> SUFFICES ASSUME InListen', ~Mixed' PROVE Gate'
      BY DEF Gate
    <2>1. InListen /\ ~Mixed
      BY <1>8 DEF SubscribeAck, InListen, Mixed
    <2>2. /\ Len(events) \in Nat /\ Len(events) >= 1 /\ events[1].ev = "sub"
          /\ \A i \in 1..Len(events') : events'[i] = events[i + 1] /\ i + 1 \in 1..Len(events)
          /\ DownAhead' => DownAhead /\ Len(events') = Len(events) - 1
      BY <1>8, EventTaken DEF SubscribeAck
    <2>3. ~DownAhead
      BY <2>1, <2>2 DEF Gate, DownAhead
    <2>4. \A i, j \in 1..Len(events') : events'[i].ev = "sub" /\ events'[j].ev = "down" => j < i
      BY <2>2, <2>3 DEF DownAhead
    <2>5. comparing = 0
      BY <1>8 DEF SubscribeAck, Handles
    <2> QED BY <1>0, <1>8, <2>1, <2>2, <2>3, <2>4, <2>5 DEF SubscribeAck, Gate
  <1>9. CASE CompareAck
    <2> SUFFICES ASSUME InListen', ~Mixed' PROVE Gate'
      BY DEF Gate
    <2>1. InListen /\ ~Mixed /\ (DownAhead' => DownAhead)
      BY <1>9 DEF CompareAck, InListen, Mixed, DownAhead
    <2>2. comparing >= expected => flag' = TRUE
      BY <1>9, Zenon DEF CompareAck
    <2> QED BY <1>0, <1>9, <2>1, <2>2 DEF CompareAck, Gate
  <1>10. CASE PublishAck \/ ConnectionLost \/ Connected
    <2> SUFFICES ASSUME InListen', ~Mixed' PROVE Gate'
      BY DEF Gate
    <2>1. InListen /\ ~Mixed
      BY <1>10 DEF PublishAck, ConnectionLost, Connected, Stop, InListen, Mixed
    <2>2. PICK e \in {"pub", "down", "up"} : Handles(e) /\ (e # "down" => UNCHANGED flag)
      BY <1>10 DEF PublishAck, ConnectionLost, Connected, gateVars
    <2>3. /\ Len(events) \in Nat /\ Len(events) >= 1 /\ events[1].ev = e
          /\ \A i \in 1..Len(events') : events'[i] = events[i + 1] /\ i + 1 \in 1..Len(events)
          /\ DownAhead' => DownAhead /\ Len(events') = Len(events) - 1
      BY <2>2, EventTaken
    <2>4. \A i, j \in 1..Len(events') : events'[i].ev = "sub" /\ events'[j].ev = "down" => j < i
      <3> SUFFICES ASSUME NEW i \in 1..Len(events'), NEW j \in 1..Len(events'),
                          events'[i].ev = "sub", events'[j].ev = "down"
                   PROVE  j < i
        OBVIOUS
      <3>1. j + 1 < i + 1
        BY <2>1, <2>3 DEF Gate
      <3> QED BY <2>3, <3>1
    <2>5. e = "down" => completed = 0
      BY <2>1, <2>3 DEF Gate, DownAhead
    <2>6. UNCHANGED <<expected, completed, issued, comparing, wpc>>
      BY <1>10 DEF PublishAck, ConnectionLost, Connected, gateVars
    <2> QED BY <1>0, <2>1, <2>2, <2>3, <2>4, <2>5, <2>6 DEF Gate
  <1>11. ASSUME NEW c \in Contexts, TimerFires(c) PROVE Gate'
    BY <1>11, GateStays DEF TimerFires
  <1>12. CASE Incoming
    BY <1>12, GateStays DEF Incoming
  <1>13. ASSUME NEW t \in Topics, BrokerSubscribes(t) PROVE Gate'
    BY <1>13, EventPosted, EventsTyped DEF BrokerSubscribes
  <1>14. CASE CloudAnswers \/ RequestFails
    <2>1. Head(toCloud).chan \in Channels
      <3>1. Head(toCloud) \in Request
        BY <1>14, TailFacts DEF CloudAnswers, RequestFails, Types, NetType
      <3> QED BY <3>1 DEF Request
    <2> QED BY <1>14, <2>1, EventPosted, EventsTyped DEF CloudAnswers, RequestFails
  <1>15. CASE Edit
    BY <1>15, GateStays DEF Edit
  <1>16. CASE Disconnect
    BY <1>16 DEF Disconnect, Gate, Mixed, InListen
  <1>17. CASE Connect
    BY <1>17, EventPosted, EventsTyped DEF Connect
  <1>18. CASE UNCHANGED vars
    BY <1>18, GateStays DEF vars
  <1> QED
    BY <1>1, <1>2, <1>3, <1>4, <1>5, <1>6, <1>7, <1>8, <1>9, <1>10, <1>11, <1>12, <1>13, <1>14,
       <1>15, <1>16, <1>17, <1>18
       DEF Next, Worker, EventLoop, Network, Subscribing

(* GateOpens holds in every reachable state: between the counting of a     *)
(* SUBACK and the comparison of the count the worker may lower the target  *)
(* (cloud_manager.c), and the bit is set all the same, for any number of   *)
(* filters and any of them the client refuses.                             *)
THEOREM GateSafety == Spec => []GateOpens
  <1>1. Types /\ Gate => GateOpens
    <2> SUFFICES ASSUME Types, Gate PROVE GateOpens
      OBVIOUS
    <2> QED BY DEF Gate, GateOpens, InListen, Mixed
  <1>2. Init => Types /\ Gate
    BY TypeInit, InvInit
  <1>3. Types /\ Gate /\ [Next]_vars => (Types /\ Gate)'
    BY TypeStep, GateStep
  <1> QED BY <1>1, <1>2, <1>3, PTL DEF Spec
=============================================================================
