-------------------------- MODULE Schedules_proofs --------------------------
(***************************************************************************)
(* Proofs about the schedule service of a node, for any schedules, edits,  *)
(* instants, queue size and faults: the action of a one-shot runs at most  *)
(* once, a schedule the node has committed to is there until its time, and *)
(* what runs is what a reboot brings back.                                 *)
(***************************************************************************)
EXTENDS Schedules, TLAPS

(* The tasks of the work queue.                                            *)
TaskRec == [task : {"install"}, arg : SUBSET Stored] \cup [task : {"fire"}, arg : Schedule]
             \cup [task : {"rearm"}, arg : {{}}]

(* The type invariant, in parts.                                           *)
TClock == now \in Instants /\ synced \in BOOLEAN /\ timeReady \in BOOLEAN
TCloud == cloud \subseteq Schedule /\ cloudVer \in 0..MaxEdits /\ version \in -1..MaxEdits
TNvs   == nvs \subseteq Stored
TLive  == live \subseteq Handle
TQueue == queue \in Seq(TaskRec) /\ Len(queue) <= MaxQueue
TWork  == /\ wpc \in {"boot", "idle", "remove", "store", "persist"}
          /\ work \in {<<>>} \cup {<<s>> : s \in Schedule}
          /\ wpc = "remove" => \E s \in Schedule : work = <<s>> /\ OneShot(s)
THist  == fired \in [Edits -> Nat] /\ due \in [Edits -> Targets]
TMark  == lost \subseteq Edits /\ again \subseteq Edits
TFault == faults \in 0..MaxFaults
Types  == TClock /\ TCloud /\ TNvs /\ TLive /\ TQueue /\ TWork /\ THist /\ TMark /\ TFault

-----------------------------------------------------------------------------
(* The arithmetic of days.                                                 *)

(* Quotient and remainder are unique.                                      *)
LEMMA RemainderUnique ==
    ASSUME NEW D \in Nat \ {0}, NEW q \in Int, NEW p \in Int,
           NEW r \in 0..(D - 1), NEW e \in 0..(D - 1), D * q + r = D * p + e
    PROVE  r = e
  <1>1. CASE q = p
    BY <1>1
  <1>2. CASE q >= p + 1
    <2>1. D * q >= D * (p + 1)
      BY <1>2
    <2> QED BY <2>1
  <1>3. CASE p >= q + 1
    <2>1. D * p >= D * (q + 1)
      BY <1>3
    <2> QED BY <2>1
  <1> QED BY <1>1, <1>2, <1>3

(* A time of day comes at most once in a day ...                           *)
LEMMA OnceADay ==
    ASSUME NEW n \in Int, NEW t \in (n + 1)..(n + Day), NEW u \in (n + 1)..(n + Day),
           t % Day = u % Day
    PROVE  t = u
  <1> DEFINE q == t \div Day
             r == u \div Day
  <1>1. q \in Int /\ r \in Int /\ t - u = Day * q - Day * r
    BY BoundsAssumption
  <1> HIDE DEF q, r
  <1>2. CASE q = r
    BY <1>1, <1>2, BoundsAssumption
  <1>3. CASE q >= r + 1
    <2>1. Day * q >= Day * (r + 1)
      BY <1>1, <1>3, BoundsAssumption
    <2> QED BY <1>1, <2>1, BoundsAssumption
  <1>4. CASE r >= q + 1
    <2>1. Day * r >= Day * (q + 1)
      BY <1>1, <1>4, BoundsAssumption
    <2> QED BY <1>1, <2>1, BoundsAssumption
  <1> QED BY <1>1, <1>2, <1>3, <1>4

(* ... and at least once.                                                  *)
LEMMA EveryDay ==
    ASSUME NEW n \in Int, NEW a \in Int
    PROVE  \E t \in (n + 1)..(n + Day) : t % Day = a % Day
  <1> DEFINE b == a - (n + 1)
             r == b % Day
             q == b \div Day
             t == n + 1 + r
             x == t \div Day
             y == a \div Day
  <1> USE BoundsAssumption
  <1>1. b \in Int /\ b = Day * q + r /\ r \in 0..(Day - 1) /\ q \in Int
    OBVIOUS
  <1>2. t \in (n + 1)..(n + Day)
    BY <1>1
  <1>3. t \in Int /\ t = a - Day * q
    <2> HIDE DEF r, q
    <2> QED BY <1>1
  <1>4. t = Day * x + (t % Day) /\ x \in Int /\ t % Day \in 0..(Day - 1)
    <2> HIDE DEF t
    <2> QED BY <1>3
  <1>5. a = Day * y + (a % Day) /\ y \in Int /\ a % Day \in 0..(Day - 1)
    OBVIOUS
  <1>6. Day * (x + q) + (t % Day) = Day * y + (a % Day) /\ x + q \in Int
    <2> HIDE DEF t, x, y, q
    <2>1. Day * (x + q) = Day * x + Day * q
      BY <1>1, <1>4
    <2> QED BY <1>1, <1>3, <1>4, <1>5, <2>1
  <1>7. t % Day = a % Day
    <2> DEFINE u == t % Day
               v == a % Day
               z == x + q
    <2>1. /\ u \in 0..(Day - 1) /\ v \in 0..(Day - 1) /\ z \in Int /\ y \in Int
          /\ Day \in Nat \ {0} /\ Day * z + u = Day * y + v
      <3> HIDE DEF t, x, y, q
      <3> QED BY <1>4, <1>5, <1>6
    <2> HIDE DEF u, v, z, y
    <2>2. u = v
      BY <2>1, RemainderUnique
    <2> QED BY <2>2 DEF u, v
  <1> QED BY <1>2, <1>7

-----------------------------------------------------------------------------
(* Arming.                                                                 *)

(* What esp_schedule arms a schedule for.                                  *)
LEMMA NextFireFacts ==
    ASSUME TClock, NEW s \in Schedule, NEW target \in Targets
    PROVE  /\ NextFire(s, target) \in Targets
           /\ NextFire(s, target) = Never \/ NextFire(s, target) > now
           /\ s.kind = "dated" => /\ NextFire(s, target) \in {Never, s.at}
                                  /\ NextFire(s, target) = Never <=> s.at <= now
           /\ s.kind = "relative" =>
                 /\ target = Never => NextFire(s, target) = now + s.at
                 /\ target # Never /\ target > now => NextFire(s, target) = target
                 /\ target # Never /\ target <= now => NextFire(s, target) = Never
           /\ s.kind \in {"weekday", "daily"} =>
                 /\ NextFire(s, target) # Never
                 /\ NextFire(s, target) % Day = s.at % Day
                 /\ NextFire(s, target) <= now + Day
  <1> DEFINE t == NextFire(s, target)
  <1>1. /\ now \in Nat /\ now <= MaxTime /\ s.at \in 1..MaxTime
        /\ s.kind \in {"dated", "relative", "weekday", "daily"}
        /\ MaxTime \in Nat /\ Day \in Nat \ {0}
    <2>1. s.kind \in Kinds /\ s.at \in 1..MaxTime
      BY DEF Schedule
    <2>2. now \in 0..MaxTime
      BY DEF TClock, Instants
    <2>3. s.kind \in {"dated", "relative", "weekday", "daily"}
      BY <2>1, KindsAssumption, Zenon
    <2>4. now \in Nat /\ now <= MaxTime /\ MaxTime \in Nat /\ Day \in Nat \ {0}
      BY <2>2, BoundsAssumption
    <2> QED BY <2>1, <2>3, <2>4
  <1>2. CASE s.kind = "dated"
    <2>1. t = IF s.at > now THEN s.at ELSE Never
      BY <1>2 DEF NextFire
    <2> QED BY <1>1, <1>2, <2>1 DEF Targets, Never
  <1>3. CASE s.kind = "relative"
    <2>1. t = IF target = Never THEN now + s.at ELSE IF target > now THEN target ELSE Never
      BY <1>3 DEF NextFire
    <2> QED BY <1>1, <1>3, <2>1 DEF Targets, Never
  <1>4. CASE s.kind \in {"weekday", "daily"}
    <2>1. t = CHOOSE u \in (now + 1)..(now + Day) : u % Day = s.at % Day
      BY <1>4 DEF NextFire
    <2>2. \E u \in (now + 1)..(now + Day) : u % Day = s.at % Day
      <3>1. now \in Int /\ s.at \in Int
        BY <1>1
      <3> QED BY <3>1, EveryDay
    <2>3. t \in (now + 1)..(now + Day) /\ t % Day = s.at % Day
      BY <2>1, <2>2
    <2> HIDE DEF t
    <2> QED BY <1>1, <1>4, <2>3 DEF t, Targets, Never
  <1> QED BY <1>1, <1>2, <1>3, <1>4

(* What enabling a handle leaves it with.                                  *)
LEMMA EnableFacts ==
    ASSUME TClock, NEW h \in Handle
    PROVE  /\ Enable(h) \in Handle
           /\ Enable(h).s = h.s
           /\ Enable(h).ts = NextFire(h.s, h.target)
           /\ Enable(h).armed <=> Enable(h).ts # Never
           /\ Enable(h).target = IF h.s.kind = "relative" /\ Enable(h).ts # Never
                                 THEN Enable(h).ts ELSE h.target
  <1> DEFINE t == NextFire(h.s, h.target)
             a == (t # Never)
             g == IF h.s.kind = "relative" /\ t # Never THEN t ELSE h.target
  <1>1. h.s \in Schedule /\ h.target \in Targets
    BY DEF Handle
  <1>2. t \in Targets
    BY <1>1, NextFireFacts
  <1>3. a \in BOOLEAN /\ g \in Targets
    BY <1>1, <1>2
  <1>4. Enable(h) = [h EXCEPT !.ts = t, !.armed = a, !.target = g]
    BY DEF Enable, Handle
  <1> HIDE DEF t, a, g
  <1>5. /\ Enable(h) \in Handle
        /\ Enable(h).s = h.s
        /\ Enable(h).ts = t /\ Enable(h).armed = a /\ Enable(h).target = g
    BY <1>2, <1>3, <1>4 DEF Handle
  <1> QED BY <1>5 DEF t, a, g

(* A handle is enabled, or left as it is while there is no clock.          *)
LEMMA ArmFacts ==
    ASSUME TClock, NEW h \in Handle
    PROVE  /\ ArmOrDefer(h) \in Handle /\ ArmOrDefer(h).s = h.s
           /\ MayArm => ArmOrDefer(h) = Enable(h)
           /\ ~MayArm => ArmOrDefer(h) = h
  BY EnableFacts DEF ArmOrDefer

(* A handle made of a stored schedule is not armed yet.                    *)
LEMMA NewHandleFacts ==
    ASSUME NEW x \in Stored
    PROVE  /\ NewHandle(x) \in Handle /\ NewHandle(x).s = x.s
           /\ NewHandle(x).target = IF x.s.kind = "relative" THEN x.ts ELSE Never
           /\ NewHandle(x).ts = Never /\ NewHandle(x).armed = FALSE
  <1>1. x.s \in Schedule /\ x.ts \in Targets /\ Never \in Targets
    BY BoundsAssumption DEF Stored, Targets, Never
  <1> DEFINE g == IF x.s.kind = "relative" THEN x.ts ELSE Never
  <1>2. g \in Targets
    BY <1>1
  <1>3. NewHandle(x) = [s |-> x.s, target |-> g, ts |-> Never, armed |-> FALSE]
    BY DEF NewHandle
  <1> HIDE DEF g
  <1>4. /\ NewHandle(x) \in Handle /\ NewHandle(x).s = x.s
        /\ NewHandle(x).target = g
        /\ NewHandle(x).ts = Never /\ NewHandle(x).armed = FALSE
    BY <1>1, <1>2, <1>3 DEF Handle
  <1> QED BY <1>4 DEF g

(* What is built from stored schedules, and what is left out.              *)
LEMMA BuildFacts ==
    ASSUME TClock, NEW S \in SUBSET Stored
    PROVE  /\ Build(S) \subseteq Handle
           /\ \A h \in Build(S) : \E x \in S : /\ h = ArmOrDefer(NewHandle(x)) /\ h.s = x.s
                                              /\ ~AlreadyDue(x) /\ ~Spent(h)
           /\ \A x \in S : \/ AlreadyDue(x)
                           \/ Spent(ArmOrDefer(NewHandle(x)))
                           \/ ArmOrDefer(NewHandle(x)) \in Build(S)
  <1>1. \A x \in S : /\ NewHandle(x) \in Handle /\ ArmOrDefer(NewHandle(x)) \in Handle
                     /\ ArmOrDefer(NewHandle(x)).s = x.s
    BY NewHandleFacts, ArmFacts
  <1>2. Build(S) = {h \in {ArmOrDefer(NewHandle(x)) : x \in {y \in S : ~AlreadyDue(y)}} : ~Spent(h)}
    BY DEF Build
  <1> QED BY <1>1, <1>2

(* What is left when every handle is armed again.                          *)
LEMMA RearmedFacts ==
    ASSUME TClock, TLive
    PROVE  /\ Rearmed \subseteq Handle
           /\ \A h \in Rearmed : \E g \in live : h = ArmOrDefer(g) /\ h.s = g.s /\ ~Spent(h)
           /\ \A g \in live : Spent(ArmOrDefer(g)) \/ ArmOrDefer(g) \in Rearmed
  <1>1. \A g \in live : ArmOrDefer(g) \in Handle /\ ArmOrDefer(g).s = g.s
    BY ArmFacts DEF TLive
  <1> QED BY <1>1 DEF Rearmed

(* A one-shot that went off keeps its instants, a daily one gets new ones. *)
LEMMA AfterFireFacts ==
    ASSUME TClock, NEW h \in Handle
    PROVE  /\ AfterFire(h) \in Handle /\ AfterFire(h).s = h.s
           /\ OneShot(h.s) => /\ AfterFire(h).armed = FALSE
                              /\ AfterFire(h).ts = h.ts /\ AfterFire(h).target = h.target
           /\ ~OneShot(h.s) => AfterFire(h) = Enable(h)
  <1>1. CASE OneShot(h.s)
    BY <1>1 DEF AfterFire, Handle
  <1>2. CASE ~OneShot(h.s)
    BY <1>2, EnableFacts DEF AfterFire
  <1> QED BY <1>1, <1>2

(* What is stored of the handles.                                          *)
LEMMA SerializedFacts ==
    ASSUME TLive
    PROVE  /\ Serialized \subseteq Stored
           /\ \A x \in Serialized : \E h \in live :
                 x.s = h.s /\ x.ts = IF OneShot(h.s) THEN h.ts ELSE Never
           /\ \A h \in live : \E x \in Serialized : x.s = h.s
  <1>1. Never \in Targets
    BY BoundsAssumption DEF Targets, Never
  <1> DEFINE r(h) == [s |-> h.s, ts |-> IF OneShot(h.s) THEN h.ts ELSE Never]
  <1>2. \A h \in live : /\ r(h) \in Stored /\ r(h).s = h.s
                        /\ r(h).ts = IF OneShot(h.s) THEN h.ts ELSE Never
    BY <1>1 DEF TLive, Handle, Stored
  <1>3. Serialized = {r(h) : h \in live}
    BY DEF Serialized
  <1> HIDE DEF r
  <1> QED BY <1>2, <1>3

(* The history of the first instants: an instant once noted stays, and a   *)
(* new one is that of an armed handle.                                     *)
LEMMA NoteDueFacts ==
    ASSUME THist, NEW H \in SUBSET Handle, NoteDue(H)
    PROVE  /\ due' \in [Edits -> Targets]
           /\ \A k \in Edits : \/ due'[k] = due[k]
                               \/ /\ due[k] = Never
                                  /\ \E h \in H : h.s.edit = k /\ h.armed /\ due'[k] = h.ts
           /\ \A h \in H : h.armed =>
                 \/ due[h.s.edit] # Never /\ due'[h.s.edit] = due[h.s.edit]
                 \/ \E g \in H : g.s.edit = h.s.edit /\ g.armed /\ due'[h.s.edit] = g.ts
  <1> DEFINE P(k) == \E h \in H : h.s.edit = k /\ h.armed
             c(k) == CHOOSE h \in H : h.s.edit = k /\ h.armed
  <1>1. due' = [k \in Edits |-> IF due[k] = Never /\ P(k) THEN c(k).ts ELSE due[k]]
    BY DEF NoteDue
  <1>2. \A k : P(k) => c(k) \in H /\ c(k).s.edit = k /\ c(k).armed
    OBVIOUS
  <1>3. \A h \in H : P(h.s.edit) \/ ~h.armed
    OBVIOUS
  <1>4. \A h \in H : h.s.edit \in Edits /\ h.ts \in Targets
    BY DEF Handle, Schedule
  <1>5. \A k \in Edits : due[k] \in Targets
    BY DEF THist
  <1> HIDE DEF P, c
  <1>6. due' \in [Edits -> Targets]
    BY <1>1, <1>2, <1>4, <1>5
  <1>7. \A k \in Edits : due'[k] = IF due[k] = Never /\ P(k) THEN c(k).ts ELSE due[k]
    BY <1>1
  <1>8. \A k \in Edits : \/ due'[k] = due[k]
                         \/ /\ due[k] = Never
                            /\ \E h \in H : h.s.edit = k /\ h.armed /\ due'[k] = h.ts
    BY <1>2, <1>7
  <1>9. ASSUME NEW h \in H, h.armed
        PROVE  \/ due[h.s.edit] # Never /\ due'[h.s.edit] = due[h.s.edit]
               \/ \E g \in H : g.s.edit = h.s.edit /\ g.armed /\ due'[h.s.edit] = g.ts
    <2>1. P(h.s.edit) /\ h.s.edit \in Edits
      BY <1>3, <1>4, <1>9
    <2> QED BY <1>2, <1>7, <2>1
  <1> QED BY <1>6, <1>8, <1>9

-----------------------------------------------------------------------------
(* The work queue.                                                         *)

(* The queue without its oldest task.                                      *)
LEMMA QueueTail ==
    ASSUME NEW q \in Seq(TaskRec), q # <<>>
    PROVE  /\ Tail(q) \in Seq(TaskRec) /\ Head(q) \in TaskRec /\ Head(q) = q[1]
           /\ Len(q) \in Nat /\ Len(q) >= 1 /\ Len(Tail(q)) = Len(q) - 1
           /\ \A i \in 1..Len(Tail(q)) : i + 1 \in 1..Len(q) /\ Tail(q)[i] = q[i + 1]
           /\ \A i \in 1..Len(q) : i = 1 \/ (i - 1 \in 1..Len(Tail(q)) /\ Tail(q)[i - 1] = q[i])
  OBVIOUS

(* The queue with a new task at its end.                                   *)
LEMMA QueueAppend ==
    ASSUME NEW q \in Seq(TaskRec), NEW e \in TaskRec
    PROVE  /\ Append(q, e) \in Seq(TaskRec)
           /\ Len(q) \in Nat /\ Len(Append(q, e)) = Len(q) + 1
           /\ \A i \in 1..Len(q) : i \in 1..Len(Append(q, e)) /\ Append(q, e)[i] = q[i]
           /\ \A i \in 1..Len(Append(q, e)) : i \in 1..Len(q) \/ i = Len(q) + 1
           /\ Append(q, e)[Len(q) + 1] = e
  OBVIOUS

(* What is in a task.                                                      *)
LEMMA TaskFacts ==
    ASSUME NEW e \in TaskRec
    PROVE  /\ e.task = "install" => e.arg \in SUBSET Stored
           /\ e.task = "fire" => e.arg \in Schedule
  BY DEF TaskRec

(* The tasks that are queued.                                              *)
LEMMA NewTasks ==
    /\ TCloud => [task |-> "install", arg |-> Payload] \in TaskRec
    /\ \A s \in Schedule : [task |-> "fire", arg |-> s] \in TaskRec
    /\ [task |-> "rearm", arg |-> {}] \in TaskRec
  <1>1. ASSUME TCloud PROVE Payload \in SUBSET Stored
    <2>1. Never \in Targets
      BY BoundsAssumption DEF Targets, Never
    <2> QED BY <1>1, <2>1 DEF Payload, Stored, TCloud
  <1> QED BY <1>1 DEF TaskRec

-----------------------------------------------------------------------------
(* The effect of any step on each part of the state.                       *)

(* The work queue.                                                         *)
LEMMA QueueSteps ==
    ASSUME Types, [Next]_vars
    PROVE  \/ UNCHANGED queue
           \/ queue' = <<>>
           \/ queue # <<>> /\ queue' = Tail(queue)
           \/ \E e \in TaskRec : /\ HasRoom /\ queue' = Append(queue, e)
                                 /\ e.task = "install" => e.arg = Payload /\ DetailsArrive
                                 /\ e.task = "fire" => \E h \in live : Trigger(h) /\ e.arg = h.s
  <1>1. CASE DetailsArrive
    BY <1>1, NewTasks DEF DetailsArrive, Types
  <1>2. ASSUME NEW h \in live, Trigger(h)
        PROVE  \E e \in TaskRec : /\ HasRoom /\ queue' = Append(queue, e)
                                  /\ e.task # "install" /\ e.arg = h.s
    <2>1. h.s \in Schedule
      BY DEF Types, TLive, Handle
    <2> QED BY <1>2, <2>1, NewTasks DEF Trigger
  <1>3. CASE TimezoneChanges
    BY <1>3, NewTasks DEF TimezoneChanges
  <1>4. CASE \/ Install \/ InstallFails \/ Fire \/ Reschedule
    BY <1>4 DEF Install, InstallFails, Fire, Reschedule, Takes
  <1>5. CASE \/ Persist \/ PersistFails \/ Remove \/ ArmAll \/ Tick \/ Sync \/ Restart \/ Booting
             \/ DetailsRefused \/ UNCHANGED vars
    BY <1>5 DEF Persist, PersistFails, Remove, ArmAll, Tick, Sync, Restart, Booting, Reload,
                ReloadFails, DetailsRefused, vars
  <1>6. ASSUME NEW id \in Ids,
               Delete(id) \/ \E kind \in Kinds, at \in 1..MaxTime : Edit(id, kind, at)
        PROVE  UNCHANGED queue
    BY <1>6 DEF Edit, Delete
  <1>7. ASSUME NEW h \in live, TriggerRefused(h)
        PROVE  UNCHANGED queue
    BY <1>7 DEF TriggerRefused
  <1> QED BY <1>1, <1>2, <1>3, <1>4, <1>5, <1>6, <1>7 DEF Next, Cloud, Worker, Timer

(* The handles.                                                            *)
LEMMA LiveSteps ==
    ASSUME Types, [Next]_vars
    PROVE  \/ UNCHANGED live
           \/ live' = {}
           \/ \E id \in Ids : live' = live \ Named(id)
           \/ \E S \in SUBSET Stored :
                 /\ live' = Build(S)
                 /\ \/ S \subseteq nvs /\ wpc = "boot"
                    \/ queue # <<>> /\ queue[1].task = "install" /\ S \subseteq queue[1].arg
                 /\ NoteDue(live') /\ now' = now
           \/ /\ live' = Rearmed /\ NoteDue(live') /\ now' = now
              /\ \A h \in live : h.s.kind = "weekday" /\ h.ts # Never /\ ~h.armed
                                    => h.s.edit \in again'
           \/ \E h \in live : /\ IsDue(h) /\ live' = (live \ {h}) \cup {AfterFire(h)}
                              /\ UNCHANGED <<due, now>>
  <1>1. CASE Install
    <2>1. queue # <<>> /\ Head(queue) = queue[1] /\ Head(queue).task = "install"
      BY <1>1, QueueTail DEF Types, TQueue, Install, Takes
    <2>2. queue[1].arg \in SUBSET Stored
      BY <2>1, QueueTail, TaskFacts DEF Types, TQueue
    <2>3. PICK S \in SUBSET queue[1].arg : live' = Build(S) /\ NoteDue(live')
      BY <1>1, <2>1 DEF Install
    <2>4. now' = now
      BY <1>1 DEF Install, clockVars
    <2> QED BY <2>1, <2>2, <2>3, <2>4
  <1>2. CASE Reload
    <2>1. PICK S \in SUBSET nvs : live' = Build(S) /\ NoteDue(live')
      BY <1>2 DEF Reload
    <2>2. now' = now /\ wpc = "boot"
      BY <1>2 DEF Reload, clockVars
    <2> QED BY <2>1, <2>2 DEF Types, TNvs
  <1>3. CASE Remove
    <2>1. work[1].id \in Ids /\ Head(work) = work[1]
      BY <1>3 DEF Remove, Types, TWork, Schedule
    <2> QED BY <1>3, <2>1 DEF Remove
  <1>4. CASE Reschedule \/ ArmAll
    BY <1>4 DEF Reschedule, ArmAll, RescheduleNode, clockVars
  <1>5. ASSUME NEW h \in live, Trigger(h) \/ TriggerRefused(h)
        PROVE  /\ IsDue(h) /\ live' = (live \ {h}) \cup {AfterFire(h)}
               /\ UNCHANGED <<due, now>>
    BY <1>5 DEF Trigger, TriggerRefused, history, clockVars
  <1>6. CASE \/ InstallFails \/ Persist \/ PersistFails \/ Fire \/ Tick \/ Sync \/ Restart
             \/ ReloadFails \/ DetailsArrive \/ DetailsRefused \/ TimezoneChanges \/ UNCHANGED vars
    BY <1>6 DEF InstallFails, Persist, PersistFails, Fire, Tick, Sync, Restart, ReloadFails,
                DetailsArrive, DetailsRefused, TimezoneChanges, vars
  <1>7. ASSUME NEW id \in Ids,
               Delete(id) \/ \E kind \in Kinds, at \in 1..MaxTime : Edit(id, kind, at)
        PROVE  UNCHANGED live
    BY <1>7 DEF Edit, Delete
  <1> QED BY <1>1, <1>2, <1>3, <1>4, <1>5, <1>6, <1>7 DEF Next, Cloud, Worker, Timer, Booting

(* The clock.                                                              *)
LEMMA ClockType ==
    ASSUME Types, [Next]_vars
    PROVE  TClock' /\ now' >= now
  <1>1. TClock /\ now \in Nat
    BY DEF Types, TClock, Instants
  <1>2. CASE Tick
    BY <1>1, <1>2, BoundsAssumption DEF Tick, TClock, Instants
  <1>3. CASE Sync \/ ArmAll \/ Restart
    <2>1. now' = now /\ synced' \in BOOLEAN /\ timeReady' \in BOOLEAN
      BY <1>1, <1>3, Zenon DEF Sync, ArmAll, Restart, TClock
    <2> QED BY <1>1, <2>1 DEF TClock
  <1>4. CASE \/ Persist \/ PersistFails \/ Remove \/ Install \/ InstallFails \/ Fire \/ Reschedule
             \/ Booting \/ DetailsArrive \/ DetailsRefused \/ TimezoneChanges \/ UNCHANGED vars
    BY <1>1, <1>4 DEF Persist, PersistFails, Remove, Install, InstallFails, Fire, Reschedule,
          Booting, Reload, ReloadFails, DetailsArrive, DetailsRefused, TimezoneChanges, vars,
          TClock, clockVars
  <1>5. ASSUME NEW id \in Ids,
               Delete(id) \/ \E kind \in Kinds, at \in 1..MaxTime : Edit(id, kind, at)
        PROVE  UNCHANGED <<now, synced, timeReady>>
    BY <1>5 DEF Edit, Delete, clockVars
  <1>6. ASSUME NEW h \in live, Trigger(h) \/ TriggerRefused(h)
        PROVE  UNCHANGED <<now, synced, timeReady>>
    BY <1>6 DEF Trigger, TriggerRefused, clockVars
  <1>7. UNCHANGED <<now, synced, timeReady>> => TClock' /\ now' >= now
    BY <1>1 DEF TClock
  <1> QED BY <1>2, <1>3, <1>4, <1>5, <1>6, <1>7 DEF Next, Cloud, Worker, Timer

(* The cloud and the version.                                              *)
LEMMA CloudType ==
    ASSUME Types, [Next]_vars
    PROVE  TCloud'
  <1>1. TCloud
    BY DEF Types
  <1>2. ASSUME NEW id \in Ids, NEW kind \in Kinds, NEW at \in 1..MaxTime, Edit(id, kind, at)
        PROVE  TCloud'
    <2>1. cloudVer + 1 \in Edits /\ cloudVer' \in 0..MaxEdits /\ version' = version
      BY <1>1, <1>2, BoundsAssumption DEF Edit, TCloud, Edits
    <2>2. [id |-> id, edit |-> cloudVer + 1, kind |-> kind, at |-> at] \in Schedule
      BY <2>1 DEF Schedule
    <2> QED BY <1>1, <1>2, <2>1, <2>2 DEF Edit, TCloud
  <1>3. ASSUME NEW id \in Ids, Delete(id)
        PROVE  TCloud'
    BY <1>1, <1>3, BoundsAssumption DEF Delete, TCloud
  <1>4. CASE DetailsArrive \/ DetailsRefused
    BY <1>1, <1>4, BoundsAssumption DEF DetailsArrive, DetailsRefused, cloudVars, TCloud
  <1>5. CASE PersistFails \/ ReloadFails
    BY <1>1, <1>5, BoundsAssumption DEF PersistFails, ReloadFails, Voids, cloudVars, TCloud
  <1>6. CASE \/ Persist \/ Remove \/ Install \/ InstallFails \/ Fire \/ Reschedule \/ ArmAll \/ Reload
             \/ Tick \/ Sync \/ Restart \/ TimezoneChanges \/ UNCHANGED vars
    BY <1>1, <1>6 DEF Persist, Remove, Install, InstallFails, Fire, Reschedule, ArmAll, Reload,
          Tick, Sync, Restart, TimezoneChanges, vars, TCloud, cloudVars
  <1>7. ASSUME NEW h \in live, Trigger(h) \/ TriggerRefused(h)
        PROVE  TCloud'
    BY <1>1, <1>7 DEF Trigger, TriggerRefused, cloudVars, TCloud
  <1> QED BY <1>2, <1>3, <1>4, <1>5, <1>6, <1>7 DEF Next, Cloud, Worker, Timer, Booting

(* Only a store changes what is stored.                                    *)
LEMMA NvsType ==
    ASSUME Types, [Next]_vars
    PROVE  TNvs' /\ (UNCHANGED nvs \/ Persist)
  <1>1. CASE Persist
    BY <1>1, SerializedFacts DEF Persist, TNvs, Types
  <1>2. UNCHANGED nvs => TNvs'
    BY DEF Types, TNvs
  <1>3. CASE \/ PersistFails \/ Remove \/ Install \/ InstallFails \/ Fire \/ Reschedule \/ ArmAll
             \/ Reload \/ ReloadFails \/ DetailsArrive \/ DetailsRefused
             \/ Tick \/ Sync \/ Restart \/ TimezoneChanges \/ UNCHANGED vars
    BY <1>2, <1>3 DEF PersistFails, Remove, Install, InstallFails, Fire, Reschedule, ArmAll,
          Reload, ReloadFails, DetailsArrive, DetailsRefused, Tick, Sync, Restart,
          TimezoneChanges, vars
  <1>4. ASSUME NEW id \in Ids,
               Delete(id) \/ \E kind \in Kinds, at \in 1..MaxTime : Edit(id, kind, at)
        PROVE  UNCHANGED nvs
    BY <1>4 DEF Edit, Delete
  <1>5. ASSUME NEW h \in live, Trigger(h) \/ TriggerRefused(h)
        PROVE  UNCHANGED nvs
    BY <1>5 DEF Trigger, TriggerRefused
  <1> QED BY <1>1, <1>2, <1>3, <1>4, <1>5 DEF Next, Cloud, Worker, Timer, Booting

(* The handles are handles.                                                *)
LEMMA LiveType ==
    ASSUME Types, [Next]_vars
    PROVE  TLive'
  <1>1. TClock /\ TLive
    BY DEF Types
  <1>2. ASSUME NEW S \in SUBSET Stored, live' = Build(S) PROVE TLive'
    BY <1>1, <1>2, BuildFacts DEF TLive
  <1>3. CASE live' = Rearmed
    BY <1>1, <1>3, RearmedFacts DEF TLive
  <1>4. ASSUME NEW h \in live, live' = (live \ {h}) \cup {AfterFire(h)} PROVE TLive'
    BY <1>1, <1>4, AfterFireFacts DEF TLive
  <1>5. CASE UNCHANGED live \/ live' = {} \/ \E id \in Ids : live' = live \ Named(id)
    BY <1>1, <1>5 DEF TLive
  <1> QED BY <1>2, <1>3, <1>4, <1>5, LiveSteps

(* The queue holds tasks, and no more than its capacity.                   *)
LEMMA QueueType ==
    ASSUME Types, [Next]_vars
    PROVE  TQueue'
  <1>1. TQueue
    BY DEF Types
  <1>2. CASE UNCHANGED queue
    BY <1>1, <1>2 DEF TQueue
  <1>3. CASE queue' = <<>>
    BY <1>3, BoundsAssumption DEF TQueue
  <1>4. CASE queue # <<>> /\ queue' = Tail(queue)
    BY <1>1, <1>4, QueueTail, BoundsAssumption DEF TQueue
  <1>5. ASSUME NEW e \in TaskRec, HasRoom, queue' = Append(queue, e)
        PROVE  TQueue'
    BY <1>1, <1>5, QueueAppend, BoundsAssumption DEF TQueue, HasRoom
  <1> QED BY <1>2, <1>3, <1>4, <1>5, QueueSteps

(* The worker.                                                             *)
LEMMA WorkType ==
    ASSUME Types, [Next]_vars
    PROVE  TWork'
  <1>1. TWork
    BY DEF Types
  <1>2. CASE Fire
    <2> DEFINE s == Head(queue).arg
    <2>1. s \in Schedule
      BY <1>2, QueueTail, TaskFacts DEF Types, TQueue, Fire, Takes
    <2>2. CASE OneShot(s)
      <3>1. wpc' = "remove" /\ work' = <<s>>
        BY <1>2, <2>2 DEF Fire
      <3> HIDE DEF s
      <3> QED BY <2>1, <2>2, <3>1 DEF TWork
    <2>3. CASE ~OneShot(s)
      <3>1. UNCHANGED <<wpc, work>>
        BY <1>2, <2>3 DEF Fire
      <3> QED BY <1>1, <3>1 DEF TWork
    <2> QED BY <2>2, <2>3
  <1>3. CASE wpc' \in {"boot", "idle", "store", "persist"} /\ work' = <<>>
    BY <1>3 DEF TWork
  <1>4. CASE UNCHANGED <<wpc, work>>
    BY <1>1, <1>4 DEF TWork
  <1>5. CASE \/ Persist \/ PersistFails \/ Remove \/ Install \/ InstallFails \/ Reschedule \/ ArmAll
             \/ Reload \/ ReloadFails \/ DetailsArrive \/ DetailsRefused
             \/ Tick \/ Sync \/ Restart \/ TimezoneChanges \/ UNCHANGED vars
    <2>1. \/ wpc' \in {"boot", "idle", "store", "persist"} /\ work' = <<>>
          \/ UNCHANGED <<wpc, work>>
      BY <1>5 DEF Persist, PersistFails, Remove, Install, InstallFails, Reschedule, ArmAll,
          RescheduleNode, Reload, ReloadFails, DetailsArrive, DetailsRefused, Tick, Sync, Restart,
          TimezoneChanges, Idle, vars
    <2> QED BY <1>3, <1>4, <2>1
  <1>6. ASSUME NEW id \in Ids,
               Delete(id) \/ \E kind \in Kinds, at \in 1..MaxTime : Edit(id, kind, at)
        PROVE  UNCHANGED <<wpc, work>>
    BY <1>6 DEF Edit, Delete
  <1>7. ASSUME NEW h \in live, Trigger(h) \/ TriggerRefused(h)
        PROVE  UNCHANGED <<wpc, work>>
    BY <1>7 DEF Trigger, TriggerRefused
  <1> QED BY <1>2, <1>4, <1>5, <1>6, <1>7 DEF Next, Cloud, Worker, Timer, Booting

(* What was run, and the instants noted: both only grow.                   *)
LEMMA HistType ==
    ASSUME Types, [Next]_vars
    PROVE  /\ THist'
           /\ \A k \in Edits : due[k] # Never => due'[k] = due[k]
           /\ UNCHANGED fired \/ Fire
           /\ UNCHANGED due \/ (NoteDue(live') /\ UNCHANGED fired)
  <1>1. THist /\ TClock /\ TLive
    BY DEF Types
  <1>2. CASE Fire
    <2> DEFINE s == Head(queue).arg
    <2>1. s \in Schedule
      BY <1>2, QueueTail, TaskFacts DEF Types, TQueue, Fire, Takes
    <2>2. fired' = [fired EXCEPT ![s.edit] = @ + 1] /\ UNCHANGED due
      BY <1>2 DEF Fire
    <2> HIDE DEF s
    <2>3. fired' \in [Edits -> Nat]
      BY <1>1, <2>1, <2>2 DEF THist, Schedule
    <2> QED BY <1>1, <1>2, <2>2, <2>3 DEF THist
  <1>3. CASE UNCHANGED fired /\ NoteDue(live')
    <2> DEFINE H == live'
    <2>1. H \in SUBSET Handle
      BY LiveType DEF TLive
    <2>2. NoteDue(H)
      BY <1>3
    <2> HIDE DEF H
    <2>3. /\ due' \in [Edits -> Targets]
          /\ \A k \in Edits : due'[k] = due[k] \/ due[k] = Never
      BY <1>1, <2>1, <2>2, NoteDueFacts
    <2> QED BY <1>1, <1>3, <2>3 DEF THist
  <1>4. CASE UNCHANGED <<fired, due>>
    BY <1>1, <1>4 DEF THist
  <1>5. CASE \/ Install \/ Reload \/ Reschedule \/ ArmAll
    BY <1>3, <1>5 DEF Install, Reload, Reschedule, ArmAll, RescheduleNode, history
  <1>6. CASE \/ Persist \/ PersistFails \/ Remove \/ InstallFails
             \/ ReloadFails \/ DetailsArrive \/ DetailsRefused
             \/ Tick \/ Sync \/ Restart \/ TimezoneChanges \/ UNCHANGED vars
    BY <1>4, <1>6 DEF Persist, PersistFails, Remove, InstallFails, ReloadFails, DetailsArrive,
          DetailsRefused, Tick, Sync, Restart, TimezoneChanges, vars, history
  <1>7. ASSUME NEW id \in Ids,
               Delete(id) \/ \E kind \in Kinds, at \in 1..MaxTime : Edit(id, kind, at)
        PROVE  UNCHANGED <<fired, due>>
    BY <1>7 DEF Edit, Delete, history
  <1>8. ASSUME NEW h \in live, Trigger(h) \/ TriggerRefused(h)
        PROVE  UNCHANGED <<fired, due>>
    BY <1>8 DEF Trigger, TriggerRefused, history
  <1> QED BY <1>2, <1>4, <1>5, <1>6, <1>7, <1>8 DEF Next, Cloud, Worker, Timer, Booting

(* The edits of stored schedules and of handles.                           *)
LEMMA EditsType ==
    /\ \A S \in SUBSET Stored : EditsOf(S) \subseteq Edits
    /\ \A H \in SUBSET Handle : EditsOf(H) \subseteq Edits
  BY DEF EditsOf, Stored, Handle, Schedule

(* Marks are never taken away.                                             *)
LEMMA MarkType ==
    ASSUME Types, [Next]_vars
    PROVE  TMark' /\ lost \subseteq lost' /\ again \subseteq again'
  <1>1. TMark /\ TLive /\ TNvs /\ TCloud /\ TQueue
    BY DEF Types
  <1>2. Payload \in SUBSET Stored
    <2>1. Never \in Targets
      BY BoundsAssumption DEF Targets, Never
    <2> QED BY <1>1, <2>1 DEF Payload, Stored, TCloud
  <1>3. /\ EditsOf(Payload) \subseteq Edits /\ EditsOf(live) \subseteq Edits
        /\ EditsOf(nvs) \subseteq Edits
    BY <1>1, <1>2, EditsType DEF TLive, TNvs
  <1>4. Queued \subseteq Edits
    <2> SUFFICES ASSUME NEW i \in Installs PROVE EditsOf(queue[i].arg) \subseteq Edits
      BY DEF Queued
    <2>1. queue[i] \in TaskRec /\ queue[i].task = "install"
      BY <1>1 DEF Installs, TQueue
    <2> QED BY <2>1, TaskFacts, EditsType
  <1>5. CASE DetailsArrive
    BY <1>1, <1>3, <1>5 DEF DetailsArrive, TMark
  <1>6. CASE DetailsRefused
    BY <1>1, <1>3, <1>6 DEF DetailsRefused, TMark
  <1>7. CASE InstallFails
    <2>1. Head(queue).arg \in SUBSET Stored
      BY <1>1, <1>7, QueueTail, TaskFacts DEF TQueue, InstallFails, Takes
    <2>2. EditsOf(live') \subseteq Edits
      BY EditsType, LiveType DEF TLive
    <2>3. EditsOf(Head(queue).arg) \subseteq Edits
      BY <2>1, EditsType
    <2>4. UNCHANGED again /\ lost' = lost \cup EditsOf(Head(queue).arg) \cup (EditsOf(live') \ EditsOf(nvs))
      BY <1>7 DEF InstallFails
    <2> QED BY <1>1, <2>2, <2>3, <2>4 DEF TMark
  <1>8. CASE Remove
    <2>1. {h.s.edit : h \in {g \in Named(Head(work).id) : g.s # Head(work)}} \subseteq Edits
      BY <1>1 DEF Named, TLive, Handle, Schedule
    <2> QED BY <1>1, <1>8, <2>1 DEF Remove, TMark
  <1>9. CASE Reschedule \/ ArmAll
    <2>1. {h.s.edit : h \in {g \in live : g.s.kind = "weekday" /\ g.ts # Never /\ ~g.armed}}
             \subseteq Edits
      BY <1>1 DEF TLive, Handle, Schedule
    <2> QED BY <1>1, <1>9, <2>1 DEF Reschedule, ArmAll, RescheduleNode, TMark
  <1>10. ASSUME NEW h \in live, Trigger(h) \/ TriggerRefused(h)
         PROVE  TMark' /\ lost \subseteq lost' /\ again \subseteq again'
    <2>1. h.s.edit \in Edits
      BY <1>1 DEF TLive, Handle, Schedule
    <2> QED BY <1>1, <1>10, <2>1 DEF Trigger, TriggerRefused, history, TMark
  <1>11. CASE Restart
    <2>1. EditsOf({x \in nvs : Afresh(x, synced')}) \subseteq Edits
      BY <1>1 DEF EditsOf, TNvs, Stored, Schedule
    <2>2. again' \subseteq Edits /\ again \subseteq again'
      BY <1>1, <1>11, <2>1 DEF Restart, TMark
    <2>3. lost' \subseteq Edits /\ lost \subseteq lost'
      BY <1>1, <1>3, <1>4, <1>11 DEF Restart, TMark
    <2> QED BY <2>2, <2>3 DEF TMark
  <1>12. CASE Persist \/ Fire \/ Tick \/ Sync \/ TimezoneChanges \/ UNCHANGED vars
    BY <1>1, <1>12 DEF Persist, Fire, Tick, Sync, TimezoneChanges, vars, history, TMark
  <1>13. ASSUME NEW id \in Ids,
                Delete(id) \/ \E kind \in Kinds, at \in 1..MaxTime : Edit(id, kind, at)
         PROVE  UNCHANGED <<lost, again>>
    BY <1>13 DEF Edit, Delete, history
  <1>14. UNCHANGED <<lost, again>> => TMark' /\ lost \subseteq lost' /\ again \subseteq again'
    BY <1>1 DEF TMark
  <1>15. ASSUME NEW all \in SUBSET Stored, NEW S, Skips(all, S), UNCHANGED again
         PROVE  TMark' /\ lost \subseteq lost' /\ again \subseteq again'
    <2>1. EditsOf(all \ S) \subseteq Edits
      BY EditsType
    <2> QED BY <1>1, <1>15, <2>1 DEF Skips, TMark
  <1>16. CASE Install
    <2>1. Head(queue).arg \in SUBSET Stored
      BY <1>1, <1>16, QueueTail, TaskFacts DEF TQueue, Install, Takes
    <2>2. UNCHANGED again /\ \E S : Skips(Head(queue).arg, S)
      BY <1>16, Zenon DEF Install
    <2> QED BY <1>15, <2>1, <2>2
  <1>17. CASE Reload
    <2>1. UNCHANGED again /\ \E S : Skips(nvs, S)
      BY <1>17, Zenon DEF Reload
    <2> QED BY <1>1, <1>15, <2>1 DEF TNvs
  <1>18. CASE PersistFails
    <2>1. UNCHANGED again
      BY <1>18 DEF PersistFails
    <2>2. lost' = lost \/ lost' = lost \cup (EditsOf(live) \ EditsOf(nvs))
      BY <1>18, Zenon DEF PersistFails, Voids
    <2> QED BY <1>1, <1>3, <2>1, <2>2 DEF TMark
  <1>19. CASE ReloadFails
    <2>1. UNCHANGED again
      BY <1>19 DEF ReloadFails
    <2>2. lost' = lost \/ lost' = lost \cup EditsOf(nvs)
      BY <1>19, Zenon DEF ReloadFails, Voids
    <2> QED BY <1>1, <1>3, <2>1, <2>2 DEF TMark
  <1> QED BY <1>5, <1>6, <1>7, <1>8, <1>9, <1>10, <1>11, <1>12, <1>13, <1>14, <1>16, <1>17, <1>18,
             <1>19 DEF Next, Cloud, Worker, Timer, Booting

(* The faults stay within their bound.                                     *)
LEMMA FaultType ==
    ASSUME Types, [Next]_vars
    PROVE  TFault'
  <1>1. TFault
    BY DEF Types
  <1>2. Fault \/ Faults(2) \/ UNCHANGED faults
    <2>1. CASE \/ Install \/ InstallFails \/ Persist \/ PersistFails \/ Fire \/ Remove \/ Reschedule
               \/ ArmAll \/ Reload \/ ReloadFails \/ DetailsArrive \/ DetailsRefused
               \/ Tick \/ Sync \/ Restart \/ TimezoneChanges \/ UNCHANGED vars
      BY <2>1, Zenon DEF Install, InstallFails, Persist, PersistFails, Fire, Remove, Reschedule,
            ArmAll, Reload, ReloadFails, DetailsArrive, DetailsRefused, Tick, Sync, Restart,
            TimezoneChanges, vars, Skips, Voids
    <2>2. ASSUME NEW id \in Ids,
                 Delete(id) \/ \E kind \in Kinds, at \in 1..MaxTime : Edit(id, kind, at)
          PROVE  UNCHANGED faults
      BY <2>2 DEF Edit, Delete
    <2>3. ASSUME NEW h \in live, Trigger(h) \/ TriggerRefused(h)
          PROVE  Fault \/ UNCHANGED faults
      BY <2>3 DEF Trigger, TriggerRefused
    <2> QED BY <2>1, <2>2, <2>3 DEF Next, Cloud, Worker, Timer, Booting
  <1> QED BY <1>1, <1>2, BoundsAssumption DEF Fault, Faults, TFault

(* Every step keeps the types.                                             *)
LEMMA TypesStep ==
    ASSUME Types, [Next]_vars
    PROVE  Types'
  BY ClockType, CloudType, NvsType, LiveType, QueueType, WorkType, HistType, MarkType, FaultType
     DEF Types

(* Initially nothing is scheduled.                                         *)
LEMMA TypesInit ==
    ASSUME Init
    PROVE  Types
  <1>1. TClock /\ TCloud /\ TNvs /\ TLive
    <2>1. synced \in BOOLEAN /\ timeReady \in BOOLEAN
      BY Zenon DEF Init
    <2> QED BY <2>1, BoundsAssumption DEF Init, TClock, TCloud, TNvs, TLive, Instants
  <1>2. TQueue /\ TWork
    BY BoundsAssumption DEF Init, TQueue, TWork
  <1>3. THist
    <2>1. Never \in Targets /\ 0 \in Nat
      BY BoundsAssumption DEF Never, Targets
    <2> QED BY <2>1 DEF Init, THist
  <1>4. TMark /\ TFault
    BY BoundsAssumption DEF Init, TMark, TFault
  <1> QED BY <1>1, <1>2, <1>3, <1>4 DEF Types

-----------------------------------------------------------------------------
(* Where a schedule can be: with the cloud, among the handles, stored, in  *)
(* an install or a fire task, or about to be removed.                      *)
Holds(i, s) == queue[i].task = "install" /\ \E x \in queue[i].arg : x.s = s
Fires(i, s) == queue[i].task = "fire" /\ queue[i].arg = s
InLive(s) == \E h \in live : h.s = s
InNvs(s) == \E x \in nvs : x.s = s
InQueue(s) == \E i \in 1..Len(queue) : Holds(i, s)
Tasked(s) == \E i \in 1..Len(queue) : Fires(i, s)
Removing(s) == wpc = "remove" /\ work[1] = s
Present(s) == s \in cloud \/ InLive(s) \/ InNvs(s) \/ InQueue(s) \/ Tasked(s) \/ Removing(s)

(* An edit is one schedule, wherever it is found, and was made.  Of an     *)
(* edit that was not made yet nothing is known.                            *)
SameEdit == \A s, t \in Schedule : Present(s) /\ Present(t) /\ s.edit = t.edit => s = t
Made     == \A s \in Schedule : Present(s) => s.edit <= cloudVer
Unseen   == \A k \in Edits : k > cloudVer => fired[k] = 0 /\ due[k] = Never
Ident    == SameEdit /\ Made /\ Unseen

(* The task at the head of the queue.                                      *)
LEMMA HeadFacts ==
    ASSUME TQueue, queue # <<>>
    PROVE  /\ Head(queue) = queue[1] /\ 1 \in 1..Len(queue) /\ queue[1] \in TaskRec
           /\ queue[1].task = "install" => queue[1].arg \in SUBSET Stored
           /\ queue[1].task = "fire" => queue[1].arg \in Schedule
  BY QueueTail, TaskFacts DEF TQueue

(* A queue that lost its head, or got a new task, holds what it held.      *)
LEMMA TailOrigin ==
    ASSUME TQueue, queue # <<>>, queue' = Tail(queue), NEW s
    PROVE  (InQueue(s)' => InQueue(s)) /\ (Tasked(s)' => Tasked(s))
  <1>1. \A i \in 1..Len(queue') : i + 1 \in 1..Len(queue) /\ queue'[i] = queue[i + 1]
    BY QueueTail DEF TQueue
  <1> QED BY <1>1 DEF InQueue, Tasked, Holds, Fires

(* ... and with a new task at its end.                                     *)
LEMMA AppendOrigin ==
    ASSUME TQueue, NEW e \in TaskRec, queue' = Append(queue, e), NEW s
    PROVE  /\ InQueue(s)' => InQueue(s) \/ (e.task = "install" /\ \E x \in e.arg : x.s = s)
           /\ Tasked(s)' => Tasked(s) \/ (e.task = "fire" /\ e.arg = s)
  <1>1. \A i \in 1..Len(queue') : \/ i \in 1..Len(queue) /\ queue'[i] = queue[i]
                                  \/ queue'[i] = e
    BY QueueAppend DEF TQueue
  <1> QED BY <1>1 DEF InQueue, Tasked, Holds, Fires

(* Only an edit in the cloud brings a schedule that was nowhere before.    *)
LEMMA LiveOrigin ==
    ASSUME Types, [Next]_vars, NEW s, InLive(s)'
    PROVE  InLive(s) \/ (InNvs(s) /\ Reload) \/ (Install /\ Holds(1, s))
  <1>1. TClock /\ TLive /\ TNvs /\ TQueue
    BY DEF Types
  <1>2. CASE Install
    <2>1. /\ queue[1].task = "install" /\ queue[1].arg \in SUBSET Stored
          /\ \E T \in SUBSET queue[1].arg : live' = Build(T)
      BY <1>1, <1>2, HeadFacts DEF Install, Takes
    <2>2. PICK S \in SUBSET queue[1].arg : live' = Build(S)
      BY <2>1
    <2>3. \A h \in Build(S) : \E x \in S : h.s = x.s
      BY <1>1, <2>1, <2>2, BuildFacts
    <2> QED BY <1>2, <2>1, <2>2, <2>3 DEF InLive, Holds
  <1>3. CASE Reload
    <2>1. PICK S \in SUBSET nvs : live' = Build(S)
      BY <1>3 DEF Reload
    <2>2. \A h \in live' : \E x \in nvs : h.s = x.s
      BY <1>1, <2>1, BuildFacts DEF TNvs
    <2> QED BY <1>3, <2>2 DEF InLive, InNvs
  <1>4. CASE Reschedule \/ ArmAll
    <2>1. \A h \in live' : \E g \in live : h.s = g.s
      BY <1>1, <1>4, RearmedFacts DEF Reschedule, ArmAll, RescheduleNode
    <2> QED BY <2>1 DEF InLive
  <1>5. ASSUME NEW h \in live, Trigger(h) \/ TriggerRefused(h)
        PROVE  InLive(s)
    <2>1. live' = (live \ {h}) \cup {AfterFire(h)} /\ AfterFire(h).s = h.s
      BY <1>1, <1>5, AfterFireFacts DEF Trigger, TriggerRefused, TLive
    <2> QED BY <2>1 DEF InLive
  <1>6. CASE Remove
    BY <1>6 DEF Remove, InLive
  <1>7. CASE \/ InstallFails \/ Persist \/ PersistFails \/ Fire \/ Tick \/ Sync \/ Restart
             \/ ReloadFails \/ DetailsArrive \/ DetailsRefused \/ TimezoneChanges \/ UNCHANGED vars
    BY <1>7 DEF InstallFails, Persist, PersistFails, Fire, Tick, Sync, Restart, ReloadFails,
                DetailsArrive, DetailsRefused, TimezoneChanges, vars, InLive
  <1>8. ASSUME NEW id \in Ids,
               Delete(id) \/ \E kind \in Kinds, at \in 1..MaxTime : Edit(id, kind, at)
        PROVE  InLive(s)
    BY <1>8 DEF Edit, Delete, InLive
  <1> QED BY <1>2, <1>3, <1>4, <1>5, <1>6, <1>7, <1>8 DEF Next, Cloud, Worker, Timer, Booting

(* What is stored was stored before, or is a handle's.                     *)
LEMMA NvsOrigin ==
    ASSUME Types, [Next]_vars, NEW s, InNvs(s)'
    PROVE  InNvs(s) \/ (Persist /\ InLive(s))
  <1>1. CASE UNCHANGED nvs
    BY <1>1 DEF InNvs
  <1>2. CASE Persist
    <2>1. \A x \in nvs' : \E h \in live : x.s = h.s
      BY <1>2, SerializedFacts DEF Persist, Types
    <2> QED BY <1>2, <2>1 DEF InNvs, InLive
  <1> QED BY <1>1, <1>2, NvsType

(* What is queued was queued before, or comes from the cloud or a timer.   *)
LEMMA QueueOrigin ==
    ASSUME Types, [Next]_vars, NEW s
    PROVE  /\ InQueue(s)' => InQueue(s) \/ (s \in cloud /\ DetailsArrive)
           /\ Tasked(s)' => Tasked(s) \/ \E h \in live : h.s = s /\ Trigger(h)
  <1>1. TQueue /\ TLive /\ TCloud
    BY DEF Types
  <1>2. CASE DetailsArrive
    <2> DEFINE e == [task |-> "install", arg |-> Payload]
    <2>1. e \in TaskRec /\ queue' = Append(queue, e) /\ e.task = "install" /\ e.arg = Payload
      BY <1>1, <1>2, NewTasks DEF DetailsArrive
    <2> HIDE DEF e
    <2>2. (\E x \in Payload : x.s = s) => s \in cloud
      BY DEF Payload
    <2> QED BY <1>1, <1>2, <2>1, <2>2, AppendOrigin
  <1>3. ASSUME NEW h \in live, Trigger(h)
        PROVE  (InQueue(s)' => InQueue(s)) /\ (Tasked(s)' => Tasked(s) \/ h.s = s)
    <2> DEFINE e == [task |-> "fire", arg |-> h.s]
    <2>1. e \in TaskRec /\ queue' = Append(queue, e) /\ e.task = "fire" /\ e.arg = h.s
      BY <1>1, <1>3, NewTasks DEF Trigger, TLive, Handle
    <2> HIDE DEF e
    <2> QED BY <1>1, <2>1, AppendOrigin
  <1>4. CASE TimezoneChanges
    <2> DEFINE e == [task |-> "rearm", arg |-> {}]
    <2>1. e \in TaskRec /\ queue' = Append(queue, e) /\ e.task = "rearm"
      BY <1>4, NewTasks DEF TimezoneChanges
    <2> HIDE DEF e
    <2> QED BY <1>1, <2>1, AppendOrigin
  <1>5. CASE \/ Install \/ InstallFails \/ Fire \/ Reschedule
    <2>1. queue # <<>> /\ queue' = Tail(queue)
      BY <1>5 DEF Install, InstallFails, Fire, Reschedule, Takes
    <2> QED BY <1>1, <2>1, TailOrigin
  <1>6. CASE UNCHANGED queue
    BY <1>6 DEF InQueue, Tasked, Holds, Fires
  <1>7. CASE Restart
    BY <1>7 DEF Restart, InQueue, Tasked
  <1>8. CASE \/ Persist \/ PersistFails \/ Remove \/ ArmAll \/ Tick \/ Sync \/ Booting
             \/ DetailsRefused \/ UNCHANGED vars
    <2>1. UNCHANGED queue
      BY <1>8 DEF Persist, PersistFails, Remove, ArmAll, Tick, Sync, Booting, Reload,
                  ReloadFails, DetailsRefused, vars
    <2> QED BY <1>6, <2>1
  <1>9. ASSUME NEW id \in Ids,
               Delete(id) \/ \E kind \in Kinds, at \in 1..MaxTime : Edit(id, kind, at)
        PROVE  UNCHANGED queue
    BY <1>9 DEF Edit, Delete
  <1>10. ASSUME NEW h \in live, TriggerRefused(h)
         PROVE  UNCHANGED queue
    BY <1>10 DEF TriggerRefused
  <1> QED BY <1>2, <1>3, <1>4, <1>5, <1>6, <1>7, <1>8, <1>9, <1>10 DEF Next, Cloud, Worker, Timer

(* What is to be removed was fired.                                        *)
LEMMA RemovingOrigin ==
    ASSUME Types, [Next]_vars, NEW s, Removing(s)'
    PROVE  Removing(s) \/ (Fire /\ Fires(1, s) /\ Tasked(s))
  <1>1. CASE Fire
    <2>1. queue # <<>> /\ queue[1].task = "fire" /\ Head(queue) = queue[1] /\ 1 \in 1..Len(queue)
      BY <1>1, HeadFacts DEF Fire, Takes, Types
    <2>2. work' = <<queue[1].arg>>
      BY <1>1, <2>1 DEF Fire, Removing, Takes
    <2>3. Fires(1, s)
      BY <2>1, <2>2 DEF Fires, Removing
    <2> QED BY <1>1, <2>1, <2>3 DEF Tasked
  <1>2. CASE UNCHANGED <<wpc, work>>
    BY <1>2 DEF Removing
  <1>3. CASE \/ Persist \/ PersistFails \/ Remove \/ Install \/ InstallFails \/ Reschedule \/ ArmAll
             \/ Reload \/ ReloadFails \/ DetailsArrive \/ DetailsRefused
             \/ Tick \/ Sync \/ Restart \/ TimezoneChanges \/ UNCHANGED vars
    <2>1. wpc' # "remove" \/ UNCHANGED <<wpc, work>>
      BY <1>3 DEF Persist, PersistFails, Remove, Install, InstallFails, Reschedule, ArmAll,
          RescheduleNode, Reload, ReloadFails, DetailsArrive, DetailsRefused, Tick, Sync, Restart,
          TimezoneChanges, Idle, vars
    <2> QED BY <1>2, <2>1 DEF Removing
  <1>4. ASSUME NEW id \in Ids,
               Delete(id) \/ \E kind \in Kinds, at \in 1..MaxTime : Edit(id, kind, at)
        PROVE  UNCHANGED <<wpc, work>>
    BY <1>4 DEF Edit, Delete
  <1>5. ASSUME NEW h \in live, Trigger(h) \/ TriggerRefused(h)
        PROVE  UNCHANGED <<wpc, work>>
    BY <1>5 DEF Trigger, TriggerRefused
  <1> QED BY <1>1, <1>2, <1>3, <1>4, <1>5 DEF Next, Cloud, Worker, Timer, Booting

(* The cloud changes with an edit or a deletion, which count.              *)
LEMMA CloudSteps ==
    ASSUME Types, [Next]_vars
    PROVE  \/ UNCHANGED <<cloud, cloudVer>>
           \/ \E id \in Ids : /\ cloud' = {s \in cloud : s.id # id}
                              /\ cloudVer' = cloudVer + 1 /\ version' = version
           \/ \E id \in Ids, kind \in Kinds, at \in 1..MaxTime :
                 /\ cloud' = {s \in cloud : s.id # id}
                               \cup {[id |-> id, edit |-> cloudVer + 1, kind |-> kind, at |-> at]}
                 /\ cloudVer' = cloudVer + 1 /\ cloudVer < MaxEdits
                 /\ version' = version
                 /\ kind = "dated" => at > now
  <1>1. ASSUME NEW id \in Ids, Delete(id)
        PROVE  \E i \in Ids : /\ cloud' = {s \in cloud : s.id # i}
                              /\ cloudVer' = cloudVer + 1 /\ version' = version
    BY <1>1 DEF Delete
  <1>2. ASSUME NEW id \in Ids, NEW kind \in Kinds, NEW at \in 1..MaxTime, Edit(id, kind, at)
        PROVE  /\ cloud' = {s \in cloud : s.id # id}
                             \cup {[id |-> id, edit |-> cloudVer + 1, kind |-> kind, at |-> at]}
               /\ cloudVer' = cloudVer + 1 /\ cloudVer < MaxEdits
               /\ version' = version
               /\ kind = "dated" => at > now
    BY <1>2 DEF Edit
  <1>3. CASE \/ Persist \/ PersistFails \/ Remove \/ Install \/ InstallFails \/ Fire \/ Reschedule
             \/ ArmAll \/ Reload \/ ReloadFails \/ DetailsArrive \/ DetailsRefused
             \/ Tick \/ Sync \/ Restart \/ TimezoneChanges \/ UNCHANGED vars
    BY <1>3 DEF Persist, PersistFails, Remove, Install, InstallFails, Fire, Reschedule, ArmAll,
          Reload, ReloadFails, DetailsArrive, DetailsRefused, Tick, Sync, Restart,
          TimezoneChanges, cloudVars, vars
  <1>4. ASSUME NEW h \in live, Trigger(h) \/ TriggerRefused(h)
        PROVE  UNCHANGED <<cloud, cloudVer>>
    BY <1>4 DEF Trigger, TriggerRefused, cloudVars
  <1> QED BY <1>1, <1>2, <1>3, <1>4 DEF Next, Cloud, Worker, Timer, Booting

(* What is anywhere was somewhere before, or was just edited.              *)
LEMMA PresentOrigin ==
    ASSUME Types, [Next]_vars, NEW s \in Schedule, Present(s)'
    PROVE  Present(s) \/ (s \in cloud' /\ s.edit = cloudVer + 1 /\ cloudVer' = cloudVer + 1)
  <1>1. CASE s \in cloud'
    <2>1. s \in cloud \/ (s.edit = cloudVer + 1 /\ cloudVer' = cloudVer + 1)
      BY <1>1, CloudSteps
    <2> QED BY <1>1, <2>1 DEF Present
  <1>2. CASE InLive(s)'
    <2>1. CASE Install /\ Holds(1, s)
      <3>1. 1 \in 1..Len(queue)
        BY <2>1, HeadFacts DEF Install, Takes, Types
      <3> QED BY <2>1, <3>1 DEF Present, InQueue
    <2> QED BY <1>2, <2>1, LiveOrigin DEF Present
  <1>3. CASE InNvs(s)'
    BY <1>3, NvsOrigin DEF Present
  <1>4. CASE InQueue(s)' \/ Tasked(s)'
    BY <1>4, QueueOrigin DEF Present, InLive
  <1>5. CASE Removing(s)'
    BY <1>5, RemovingOrigin DEF Present
  <1> QED BY <1>1, <1>2, <1>3, <1>4, <1>5 DEF Present

(* Schedules in the next state are schedules, and their edits in range.    *)
LEMMA IdentStep ==
    ASSUME Types, Ident, [Next]_vars
    PROVE  Ident'
  <1>1. Types' /\ cloudVer \in Nat /\ cloudVer' \in Nat
    BY TypesStep DEF Types, TCloud
  <1>2. cloudVer' >= cloudVer
    BY <1>1, CloudSteps
  <1>3. \A s \in Schedule : s.edit \in Nat
    BY DEF Schedule, Edits
  <1>4. Made'
    <2> SUFFICES ASSUME NEW s \in Schedule, Present(s)' PROVE s.edit <= cloudVer'
      BY DEF Made
    <2> QED BY <1>1, <1>2, <1>3, PresentOrigin DEF Ident, Made
  <1>5. SameEdit'
    <2> SUFFICES ASSUME NEW s \in Schedule, NEW t \in Schedule,
                        Present(s)', Present(t)', s.edit = t.edit
                 PROVE  s = t
      BY DEF SameEdit
    <2>1. CASE Present(s) /\ Present(t)
      BY <2>1 DEF Ident, SameEdit
    <2>2. CASE ~Present(s) \/ ~Present(t)
      <3>1. s.edit = cloudVer + 1
        BY <2>2, PresentOrigin
      <3>2. ~Present(s) /\ ~Present(t)
        <4>1. \A u \in Schedule : u.edit = s.edit => ~Present(u)
          <5> SUFFICES ASSUME NEW u \in Schedule, u.edit = s.edit, Present(u) PROVE FALSE
            OBVIOUS
          <5>1. u.edit <= cloudVer
            BY DEF Ident, Made
          <5> QED BY <1>1, <3>1, <5>1
        <4> QED BY <4>1
      <3>3. /\ s \in cloud' /\ s \notin cloud /\ t \in cloud' /\ t \notin cloud
            /\ cloudVer' = cloudVer + 1
        BY <3>2, PresentOrigin DEF Present
      <3> QED BY <1>1, <3>3, CloudSteps
    <2> QED BY <2>1, <2>2
  <1>6. Unseen'
    <2> SUFFICES ASSUME NEW k \in Edits, k > cloudVer' PROVE fired'[k] = 0 /\ due'[k] = Never
      BY DEF Unseen
    <2>1. k \in Nat /\ k > cloudVer /\ fired[k] = 0 /\ due[k] = Never
      BY <1>1, <1>2 DEF Ident, Unseen, Edits
    <2>2. fired'[k] = 0
      <3>1. CASE UNCHANGED fired
        BY <2>1, <3>1
      <3>2. CASE Fire
        <4> DEFINE s == queue[1].arg
        <4>1. Head(queue) = queue[1] /\ 1 \in 1..Len(queue) /\ queue[1].task = "fire" /\ s \in Schedule
          BY <3>2, HeadFacts DEF Fire, Takes, Types
        <4>2. Present(s)
          BY <4>1 DEF Present, Tasked, Fires
        <4>3. fired' = [fired EXCEPT ![s.edit] = @ + 1]
          BY <3>2, <4>1 DEF Fire
        <4> HIDE DEF s
        <4>4. s.edit <= cloudVer /\ s.edit \in Nat
          BY <1>3, <4>1, <4>2 DEF Ident, Made
        <4>5. s.edit # k
          BY <1>1, <2>1, <4>4
        <4> QED BY <2>1, <4>3, <4>5 DEF Types, THist
      <3> QED BY <3>1, <3>2, HistType
    <2>3. due'[k] = Never
      <3>1. CASE UNCHANGED due
        BY <2>1, <3>1
      <3>2. CASE NoteDue(live')
        <4> DEFINE H == live'
        <4>1. H \in SUBSET Handle /\ NoteDue(H)
          BY <1>1, <3>2 DEF Types, TLive
        <4>2. \A h \in H : h.s \in Schedule /\ Present(h.s)'
          BY <4>1 DEF Present, InLive, Handle
        <4>3. \A h \in H : h.s.edit # k
          BY <1>1, <1>3, <1>4, <2>1, <4>2 DEF Made
        <4> HIDE DEF H
        <4> QED BY <2>1, <4>1, <4>3, NoteDueFacts DEF Types
      <3> QED BY <3>1, <3>2, HistType
    <2> QED BY <2>2, <2>3
  <1> QED BY <1>4, <1>5, <1>6 DEF Ident

-----------------------------------------------------------------------------
(* What a reboot brings back.                                              *)

(* Between the store of an install and the next one every handle is in NVS *)
(* or given up, also while the fire task removes a spent one-shot.         *)
Settled == wpc \in {"idle", "remove", "persist"} /\ Installs = {} /\ version # -1
Backed  == Settled => \A h \in live : InNvs(h.s) \/ h.s.edit \in lost

(* The installs that are left when the head of the queue is taken ...      *)
LEMMA InstallsTail ==
    ASSUME TQueue, queue # <<>>, queue' = Tail(queue), queue[1].task # "install", Installs' = {}
    PROVE  Installs = {}
  <1>1. /\ \A i \in 1..Len(queue) : i = 1 \/ (i - 1 \in 1..Len(queue') /\ queue'[i - 1] = queue[i])
    BY QueueTail DEF TQueue
  <1> QED BY <1>1 DEF Installs

(* ... and when a task is added.                                           *)
LEMMA InstallsAppend ==
    ASSUME TQueue, NEW e \in TaskRec, queue' = Append(queue, e), Installs' = {}
    PROVE  Installs = {} /\ e.task # "install"
  <1>1. /\ \A i \in 1..Len(queue) : i \in 1..Len(queue') /\ queue'[i] = queue[i]
        /\ Len(queue) + 1 \in 1..Len(queue') /\ queue'[Len(queue) + 1] = e
    BY QueueAppend DEF TQueue
  <1> QED BY <1>1 DEF Installs

(* A step that stores nothing and adds no schedule to the handles.         *)
LEMMA BackedKept ==
    ASSUME Types, Backed, [Next]_vars, UNCHANGED nvs, Settled' => Settled,
           \A h \in live' : \E g \in live : h.s = g.s
    PROVE  Backed'
  <1> SUFFICES ASSUME Settled', NEW h \in live' PROVE InNvs(h.s)' \/ h.s.edit \in lost'
    BY DEF Backed
  <1>1. PICK g \in live : h.s = g.s
    OBVIOUS
  <1>2. InNvs(g.s) \/ g.s.edit \in lost
    BY DEF Backed
  <1>3. lost \subseteq lost'
    BY MarkType
  <1> QED BY <1>1, <1>2, <1>3 DEF InNvs

(* What runs stays what a reboot would bring back.                         *)
LEMMA BackedStep ==
    ASSUME Types, Ident, Backed, [Next]_vars
    PROVE  Backed'
  <1>1. TClock /\ TLive /\ TNvs /\ TQueue /\ TCloud
    BY DEF Types
  <1>2. UNCHANGED live => \A h \in live' : \E g \in live : h.s = g.s
    OBVIOUS
  <1>3. UNCHANGED <<queue, wpc, version>> => (Settled' => Settled)
    BY DEF Settled, Installs
  <1>k. ASSUME nvs' = nvs, live' \subseteq live, EditsOf(live') \ EditsOf(nvs) \subseteq lost'
        PROVE  Backed'
    <2> SUFFICES ASSUME NEW h \in live' PROVE InNvs(h.s)' \/ h.s.edit \in lost'
      BY DEF Backed
    <2>1. CASE h.s.edit \in EditsOf(nvs)
      <3>1. PICK x \in nvs : x.s.edit = h.s.edit
        BY <2>1 DEF EditsOf
      <3>2. h.s \in Schedule /\ x.s \in Schedule
        BY <1>1, <1>k DEF TLive, TNvs, Handle, Stored
      <3>3. Present(h.s) /\ Present(x.s)
        BY <1>k DEF Present, InLive, InNvs
      <3>4. x.s = h.s
        BY <3>1, <3>2, <3>3 DEF Ident, SameEdit
      <3> QED BY <1>k, <3>4 DEF InNvs
    <2>2. CASE h.s.edit \notin EditsOf(nvs)
      <3>1. h.s.edit \in EditsOf(live')
        BY DEF EditsOf
      <3> QED BY <1>k, <2>2, <3>1
    <2> QED BY <2>1, <2>2
  <1>4. CASE DetailsArrive
    <2> DEFINE e == [task |-> "install", arg |-> Payload]
    <2>1. e \in TaskRec /\ queue' = Append(queue, e) /\ e.task = "install"
      BY <1>1, <1>4, NewTasks DEF DetailsArrive
    <2> HIDE DEF e
    <2>2. Installs' # {}
      BY <1>1, <2>1, InstallsAppend
    <2> QED BY <2>2 DEF Backed, Settled
  <1>5. CASE DetailsRefused
    <2>1. /\ nvs' = nvs /\ live' = live
          /\ lost' = lost \cup EditsOf(Payload) \cup (EditsOf(live) \ EditsOf(nvs))
      BY <1>5 DEF DetailsRefused
    <2> QED BY <1>k, <2>1
  <1>6. CASE Install \/ Restart
    BY <1>6 DEF Install, Restart, Backed, Settled
  <1>7. CASE InstallFails
    <2>1. /\ nvs' = nvs /\ live' \subseteq live
          /\ lost' = lost \cup EditsOf(Head(queue).arg) \cup (EditsOf(live') \ EditsOf(nvs))
      BY <1>7 DEF InstallFails
    <2> QED BY <1>k, <2>1
  <1>r. CASE ReloadFails
    BY <1>r DEF ReloadFails, Backed
  <1>8. CASE Persist
    <2>1. \A h \in live : \E x \in nvs' : x.s = h.s
      BY <1>1, <1>8, SerializedFacts DEF Persist
    <2> QED BY <1>8, <2>1 DEF Persist, Backed, InNvs
  <1>9. CASE PersistFails
    <2>1. UNCHANGED <<nvs, live, queue>>
      BY <1>9 DEF PersistFails
    <2>2. CASE wpc = "persist" /\ UNCHANGED version
      <3>1. Settled' => Settled
        BY <2>1, <2>2 DEF Settled, Installs
      <3> QED BY <1>2, <2>1, <3>1, BackedKept
    <2>3. CASE version' = -1
      BY <2>3 DEF Backed, Settled
    <2>4. CASE lost' = lost \cup (EditsOf(live) \ EditsOf(nvs))
      BY <1>k, <2>1, <2>4
    <2> QED BY <1>9, <2>2, <2>3, <2>4 DEF PersistFails, Voids
  <1>10. CASE Fire \/ Reschedule
    <2>1. /\ queue # <<>> /\ queue' = Tail(queue) /\ queue[1].task # "install" /\ wpc = "idle"
          /\ UNCHANGED <<nvs, version>>
      BY <1>1, <1>10, HeadFacts DEF Fire, Reschedule, Takes
    <2>2. Settled' => Settled
      BY <1>1, <2>1, InstallsTail DEF Settled
    <2>3. CASE Fire
      BY <1>2, <2>1, <2>2, <2>3, BackedKept DEF Fire
    <2>4. CASE Reschedule
      <3>1. \A h \in live' : \E g \in live : h.s = g.s
        BY <1>1, <2>4, RearmedFacts DEF Reschedule, RescheduleNode
      <3> QED BY <2>1, <2>2, <3>1, BackedKept
    <2> QED BY <1>10, <2>3, <2>4
  <1>11. CASE Remove
    <2>1. UNCHANGED nvs /\ (Settled' => Settled) /\ \A h \in live' : \E g \in live : h.s = g.s
      BY <1>11 DEF Remove, Settled, Installs
    <2> QED BY <2>1, BackedKept
  <1>12. CASE ArmAll
    <2>1. \A h \in live' : \E g \in live : h.s = g.s
      BY <1>1, <1>12, RearmedFacts DEF ArmAll, RescheduleNode
    <2>2. UNCHANGED nvs /\ (Settled' => Settled)
      BY <1>12 DEF ArmAll, RescheduleNode, Settled, Installs
    <2> QED BY <2>1, <2>2, BackedKept
  <1>13. ASSUME NEW h \in live, Trigger(h) \/ TriggerRefused(h)
         PROVE  Backed'
    <2>1. live' = (live \ {h}) \cup {AfterFire(h)} /\ AfterFire(h).s = h.s
      BY <1>1, <1>13, AfterFireFacts DEF Trigger, TriggerRefused, TLive
    <2>2. \A f \in live' : \E g \in live : f.s = g.s
      BY <2>1
    <2>3. UNCHANGED <<nvs, wpc, version>>
      BY <1>13 DEF Trigger, TriggerRefused
    <2>4. Settled' => Settled
      <3>1. CASE Trigger(h)
        <4> DEFINE e == [task |-> "fire", arg |-> h.s]
        <4>1. e \in TaskRec /\ queue' = Append(queue, e)
          BY <1>1, <3>1, NewTasks DEF Trigger, TLive, Handle
        <4> HIDE DEF e
        <4> QED BY <1>1, <2>3, <4>1, InstallsAppend DEF Settled
      <3>2. CASE TriggerRefused(h)
        BY <1>3, <2>3, <3>2 DEF TriggerRefused
      <3> QED BY <1>13, <3>1, <3>2
    <2> QED BY <2>2, <2>3, <2>4, BackedKept
  <1>14. CASE TimezoneChanges
    <2> DEFINE e == [task |-> "rearm", arg |-> {}]
    <2>1. e \in TaskRec /\ queue' = Append(queue, e) /\ UNCHANGED <<nvs, live, wpc, version>>
      BY <1>14, NewTasks DEF TimezoneChanges
    <2> HIDE DEF e
    <2>2. Settled' => Settled
      BY <1>1, <2>1, InstallsAppend DEF Settled
    <2> QED BY <1>2, <2>1, <2>2, BackedKept
  <1>15. CASE Tick \/ Sync \/ UNCHANGED vars
    <2>1. UNCHANGED <<nvs, live, queue, wpc, version>>
      BY <1>15 DEF Tick, Sync, vars
    <2> QED BY <1>2, <1>3, <2>1, BackedKept
  <1>16. ASSUME NEW id \in Ids,
                Delete(id) \/ \E kind \in Kinds, at \in 1..MaxTime : Edit(id, kind, at)
         PROVE  Backed'
    <2>1. UNCHANGED <<nvs, live, queue, wpc, version>>
      BY <1>16 DEF Edit, Delete
    <2> QED BY <1>2, <1>3, <2>1, BackedKept
  <1>17. CASE Reload
    <2>1. PICK S \in SUBSET nvs : live' = Build(S)
      BY <1>17 DEF Reload
    <2>2. \A h \in live' : \E x \in nvs : h.s = x.s
      BY <1>1, <2>1, BuildFacts DEF TNvs
    <2>3. nvs' = nvs
      BY <1>17 DEF Reload
    <2> QED BY <2>2, <2>3 DEF Backed, InNvs
  <1> QED BY <1>4, <1>5, <1>6, <1>7, <1>r, <1>8, <1>9, <1>10, <1>11, <1>12, <1>13, <1>14, <1>15, <1>16,
             <1>17 DEF Next, Cloud, Worker, Timer, Booting

(* Initially no schedule is anywhere.                                      *)
LEMMA IdentInit ==
    ASSUME Init
    PROVE  Ident /\ Backed
  <1>1. \A s : ~Present(s)
    BY DEF Init, Present, InLive, InNvs, InQueue, Tasked, Removing
  <1>2. Unseen
    BY DEF Init, Unseen
  <1> QED BY <1>1, <1>2 DEF Ident, SameEdit, Made, Backed, Init

(* What runs is what a reboot would bring back (__reserialize_and_persist, *)
(* __reload_for_node): between two tasks every handle is in NVS, unless    *)
(* the version was voided to fetch it again or the schedule was given up.  *)
THEOREM RebootSafety == Spec => []StoredIsLive
  <1>1. Init => Types /\ Ident /\ Backed
    BY TypesInit, IdentInit
  <1>2. Types /\ Ident /\ Backed /\ [Next]_vars => (Types /\ Ident /\ Backed)'
    BY TypesStep, IdentStep, BackedStep
  <1>3. Backed => StoredIsLive
    BY DEF Backed, Settled, StoredIsLive, InNvs
  <1> QED BY <1>1, <1>2, <1>3, PTL DEF Spec

-----------------------------------------------------------------------------
(* A cloud id names one schedule in each of the places; what the cloud     *)
(* sends has no instant.                                                   *)
OneCloud == \A s, t \in cloud : s.id = t.id => s = t
OneLive  == \A g, h \in live : g.s.id = h.s.id => g = h
OneNvs   == \A x, y \in nvs : x.s.id = y.s.id => x = y
OneQueue == \A i \in 1..Len(queue) : queue[i].task = "install" =>
               /\ \A x, y \in queue[i].arg : x.s.id = y.s.id => x = y
               /\ \A x \in queue[i].arg : x.ts = Never
Unique   == OneCloud /\ OneLive /\ OneNvs /\ OneQueue

(* Lists that are built, armed or stored keep their ids apart.             *)
LEMMA UniqueStep ==
    ASSUME Types, Unique, [Next]_vars
    PROVE  Unique'
  <1>1. TClock /\ TLive /\ TNvs /\ TQueue /\ TCloud
    BY DEF Types
  <1>2. OneCloud'
    BY CloudSteps DEF Unique, OneCloud
  <1>3. OneLive'
    <2>1. ASSUME NEW S \in SUBSET Stored, live' = Build(S),
                 \/ S \subseteq nvs
                 \/ queue # <<>> /\ queue[1].task = "install" /\ S \subseteq queue[1].arg
          PROVE  OneLive'
      <3>1. \A x, y \in S : x.s.id = y.s.id => x = y
        BY <1>1, <2>1, HeadFacts DEF Unique, OneNvs, OneQueue
      <3>2. \A h \in live' : \E x \in S : h = ArmOrDefer(NewHandle(x)) /\ h.s = x.s
        BY <1>1, <2>1, BuildFacts
      <3> QED BY <3>1, <3>2 DEF OneLive
    <2>2. CASE live' = Rearmed
      <3>1. \A h \in live' : \E g \in live : h = ArmOrDefer(g) /\ h.s = g.s
        BY <1>1, <2>2, RearmedFacts
      <3> QED BY <3>1 DEF Unique, OneLive
    <2>3. ASSUME NEW h \in live, live' = (live \ {h}) \cup {AfterFire(h)} PROVE OneLive'
      <3>1. AfterFire(h).s = h.s
        BY <1>1, AfterFireFacts DEF TLive
      <3> QED BY <2>3, <3>1 DEF Unique, OneLive
    <2>4. CASE UNCHANGED live \/ live' = {} \/ \E id \in Ids : live' = live \ Named(id)
      BY <2>4 DEF Unique, OneLive
    <2> QED BY <2>1, <2>2, <2>3, <2>4, LiveSteps
  <1>4. OneNvs'
    <2>1. CASE UNCHANGED nvs
      BY <2>1 DEF Unique, OneNvs
    <2>2. CASE Persist
      <3>1. nvs' = {[s |-> h.s, ts |-> IF OneShot(h.s) THEN h.ts ELSE Never] : h \in live}
        BY <2>2 DEF Persist, Serialized
      <3> QED BY <3>1 DEF Unique, OneLive, OneNvs
    <2> QED BY <2>1, <2>2, NvsType
  <1>5. OneQueue'
    <2>1. CASE UNCHANGED queue
      BY <2>1 DEF Unique, OneQueue
    <2>2. CASE queue' = <<>>
      BY <2>2 DEF OneQueue
    <2>3. CASE queue # <<>> /\ queue' = Tail(queue)
      <3>1. \A i \in 1..Len(queue') : i + 1 \in 1..Len(queue) /\ queue'[i] = queue[i + 1]
        BY <1>1, <2>3, QueueTail DEF TQueue
      <3> QED BY <3>1 DEF Unique, OneQueue
    <2>4. ASSUME NEW e \in TaskRec, queue' = Append(queue, e), e.task = "install" => e.arg = Payload
          PROVE  OneQueue'
      <3>1. \A i \in 1..Len(queue') : \/ i \in 1..Len(queue) /\ queue'[i] = queue[i]
                                      \/ queue'[i] = e
        BY <1>1, <2>4, QueueAppend DEF TQueue
      <3>2. /\ \A x, y \in Payload : x.s.id = y.s.id => x = y
            /\ \A x \in Payload : x.ts = Never
        BY DEF Payload, Unique, OneCloud
      <3> QED BY <2>4, <3>1, <3>2 DEF Unique, OneQueue
    <2> QED BY <2>1, <2>2, <2>3, <2>4, QueueSteps
  <1> QED BY <1>2, <1>3, <1>4, <1>5 DEF Unique

(* Handles of one edit are one handle.                                     *)
LEMMA SameHandle ==
    ASSUME Types, Ident, Unique, NEW g \in live, NEW h \in live, g.s.edit = h.s.edit
    PROVE  g = h
  <1>1. g.s \in Schedule /\ h.s \in Schedule /\ Present(g.s) /\ Present(h.s)
    BY DEF Types, TLive, Handle, Present, InLive
  <1>2. g.s = h.s
    BY <1>1 DEF Ident, SameEdit
  <1> QED BY <1>2 DEF Unique, OneLive

(* The same, one step later.                                               *)
LEMMA SameHandleNext ==
    ASSUME Types', Ident', Unique', NEW g \in live', NEW h \in live', g.s.edit = h.s.edit
    PROVE  g = h
  <1>1. g.s \in Schedule /\ h.s \in Schedule /\ Present(g.s)' /\ Present(h.s)'
    BY DEF Types, TLive, Handle, Present, InLive
  <1>2. g.s = h.s
    BY <1>1 DEF Ident, SameEdit
  <1> QED BY <1>2 DEF Unique, OneLive

(* Initially every list is empty.                                          *)
LEMMA UniqueInit ==
    ASSUME Init
    PROVE  Unique
  BY DEF Init, Unique, OneCloud, OneLive, OneNvs, OneQueue

-----------------------------------------------------------------------------
(* Instants.  An instant t that schedule s was armed for: the date of a    *)
(* dated one, no later than the whole countdown of a relative one, the     *)
(* right time of day within a day of the others.                           *)
Shape(s, t) == /\ s.kind = "dated" => t = s.at
               /\ s.kind = "relative" => t <= now + s.at
               /\ s.kind \in {"weekday", "daily"} => t % Day = s.at % Day /\ t <= now + Day

(* ... and not before the instant the edit was first armed for.            *)
Timed(s, t) == t # Never => due[s.edit] # Never /\ due[s.edit] <= t /\ Shape(s, t)

DueOK(s) == due[s.edit] # Never => Shape(s, due[s.edit])
HandleOK(h) == /\ h.armed => h.ts # Never
               /\ Timed(h.s, h.ts)
               /\ h.s.kind = "relative" => Timed(h.s, h.target) /\ h.ts \in {Never, h.target}
               /\ h.s.kind # "relative" => h.target = Never
DueTimed  == \A s \in Schedule : Present(s) => DueOK(s)
LiveTimed == \A h \in live : HandleOK(h)
NvsTimed  == \A x \in nvs : Timed(x.s, x.ts) /\ (~OneShot(x.s) => x.ts = Never)
Instant   == DueTimed /\ LiveTimed /\ NvsTimed

(* Time and the history only go on.                                        *)
LEMMA TimedNext ==
    ASSUME Types, [Next]_vars, NEW s \in Schedule, NEW t \in Targets
    PROVE  /\ Shape(s, t) => Shape(s, t)'
           /\ Timed(s, t) => Timed(s, t)'
  <1>1. now' \in Nat /\ now \in Nat /\ now' >= now
    BY ClockType DEF Types, TClock, Instants
  <1>2. s.edit \in Edits /\ s.at \in Nat /\ t \in Nat
    BY DEF Schedule, Targets
  <1>3. Shape(s, t) => Shape(s, t)'
    <2>1. (t <= now + s.at => t <= now' + s.at) /\ (t <= now + Day => t <= now' + Day)
      <3>1. \A m, n, a, u \in Nat : n >= m /\ u <= m + a => u <= n + a
        OBVIOUS
      <3>2. Day \in Nat
        BY BoundsAssumption
      <3> QED BY <1>1, <1>2, <3>1, <3>2
    <2> QED BY <2>1, Zenon DEF Shape
  <1>4. due[s.edit] # Never => due'[s.edit] = due[s.edit]
    BY <1>2, HistType
  <1> QED BY <1>3, <1>4 DEF Timed

(* An instant that is armed now is not before the first one.               *)
LEMMA EnableShape ==
    ASSUME Types, NEW h \in Handle, HandleOK(h), DueOK(h.s), Enable(h).ts # Never
    PROVE  /\ Shape(h.s, Enable(h).ts) /\ Enable(h).ts > now
           /\ due[h.s.edit] # Never => due[h.s.edit] <= Enable(h).ts
  <1> DEFINE t == Enable(h).ts
             s == h.s
             d == due[s.edit]
  <1>1. TClock /\ s \in Schedule /\ h.target \in Targets
    BY DEF Types, Handle
  <1>2. t = NextFire(s, h.target)
    BY <1>1, EnableFacts
  <1>3. /\ now \in Nat /\ s.at \in Nat /\ s.edit \in Edits /\ h.target \in Nat /\ Day \in Nat \ {0}
        /\ s.kind \in {"dated", "relative", "weekday", "daily"}
    <2>1. s.kind \in {"dated", "relative", "weekday", "daily"}
      BY <1>1, KindsAssumption DEF Schedule
    <2> QED BY <1>1, <2>1, BoundsAssumption DEF TClock, Instants, Schedule, Targets
  <1>4. d \in Nat
    BY <1>3 DEF Types, THist, Targets
  <1>5. t \in Nat /\ t > now
    BY <1>1, <1>2, NextFireFacts DEF Targets
  <1>6. CASE s.kind = "dated"
    <2>1. t = s.at
      BY <1>1, <1>2, <1>6, NextFireFacts
    <2>2. d # Never => d = s.at
      BY <1>6 DEF DueOK, Shape
    <2> QED BY <1>3, <1>5, <1>6, <2>1, <2>2 DEF Shape
  <1>7. CASE s.kind = "relative"
    <2>1. CASE h.target = Never
      <3>1. t = now + s.at
        BY <1>1, <1>2, <1>7, <2>1, NextFireFacts
      <3>2. d # Never => d <= now + s.at
        BY <1>7 DEF DueOK, Shape
      <3> QED BY <1>3, <1>5, <1>7, <3>1, <3>2 DEF Shape
    <2>2. CASE h.target # Never
      <3>1. t = h.target
        BY <1>1, <1>2, <1>3, <1>7, <2>2, NextFireFacts
      <3>2. d <= h.target /\ Shape(s, h.target)
        BY <1>7, <2>2 DEF HandleOK, Timed
      <3> QED BY <1>5, <3>1, <3>2
    <2> QED BY <2>1, <2>2
  <1>8. CASE s.kind \in {"weekday", "daily"}
    <2>1. t % Day = s.at % Day /\ t <= now + Day
      BY <1>1, <1>2, <1>8, NextFireFacts
    <2>2. Shape(s, t)
      BY <1>8, <2>1 DEF Shape
    <2>3. d # Never => d <= t
      <3> SUFFICES ASSUME d # Never, d > now PROVE d <= t
        BY <1>3, <1>4, <1>5
      <3>1. d % Day = s.at % Day /\ d <= now + Day
        BY <1>8 DEF DueOK, Shape
      <3>2. d \in (now + 1)..(now + Day) /\ t \in (now + 1)..(now + Day) /\ now \in Int
        BY <1>3, <1>4, <1>5, <2>1, <3>1
      <3>3. d % Day = t % Day
        BY <2>1, <3>1
      <3>4. d = t
        <4> HIDE DEF d, t
        <4> QED BY <3>2, <3>3, OnceADay
      <3> QED BY <1>4, <3>4
    <2> QED BY <1>5, <2>2, <2>3
  <1> QED BY <1>3, <1>6, <1>7, <1>8

(* A handle made of a stored schedule.                                     *)
LEMMA NewHandleOK ==
    ASSUME NEW x \in Stored, Timed(x.s, x.ts)
    PROVE  HandleOK(NewHandle(x))
  <1>1. Timed(x.s, Never)
    BY DEF Timed
  <1> QED BY <1>1, NewHandleFacts DEF HandleOK

(* A list of handles armed or deferred, with the first instants noted.     *)
LEMMA ArmedList ==
    ASSUME Types, [Next]_vars, Types', Ident', Unique', NoteDue(live'), now' = now,
           NEW G \in SUBSET Handle, \A g \in G : HandleOK(g) /\ DueOK(g.s),
           \A h \in live' : \E g \in G : h = ArmOrDefer(g)
    PROVE  LiveTimed'
  <1> SUFFICES ASSUME NEW h \in live' PROVE HandleOK(h)'
    BY DEF LiveTimed
  <1>1. PICK g \in G : h = ArmOrDefer(g)
    OBVIOUS
  <1>2. TClock /\ g \in Handle /\ g.s \in Schedule /\ g.ts \in Targets /\ g.target \in Targets
    BY DEF Types, Handle
  <1>3. CASE h = g
    <2>1. Timed(g.s, g.ts)' /\ (g.s.kind = "relative" => Timed(g.s, g.target)')
      BY <1>2, TimedNext DEF HandleOK
    <2> QED BY <1>3, <2>1 DEF HandleOK
  <1>4. CASE h = Enable(g)
    <2>1. /\ h.s = g.s /\ (h.armed <=> h.ts # Never) /\ h.ts \in Targets
          /\ h.target = IF g.s.kind = "relative" /\ h.ts # Never THEN h.ts ELSE g.target
      BY <1>2, <1>4, EnableFacts DEF Handle
    <2>2. ASSUME h.ts # Never PROVE Timed(h.s, h.ts)'
      <3>1. Shape(h.s, h.ts) /\ (due[h.s.edit] # Never => due[h.s.edit] <= h.ts)
        BY <1>2, <1>4, <2>1, <2>2, EnableShape
      <3>2. Shape(h.s, h.ts)'
        BY <1>2, <2>1, <3>1, TimedNext
      <3>3. due'[h.s.edit] # Never /\ due'[h.s.edit] <= h.ts
        <4> DEFINE H == live'
        <4>1. H \in SUBSET Handle /\ NoteDue(H) /\ h \in H
          BY DEF Types, TLive
        <4>2. \A f \in H : f.s.edit = h.s.edit => f = h
          BY SameHandleNext
        <4> HIDE DEF H
        <4>3. \/ due[h.s.edit] # Never /\ due'[h.s.edit] = due[h.s.edit]
              \/ \E f \in H : f.s.edit = h.s.edit /\ due'[h.s.edit] = f.ts
          BY <2>1, <2>2, <4>1, NoteDueFacts DEF Types
        <4>4. CASE due[h.s.edit] # Never /\ due'[h.s.edit] = due[h.s.edit]
          BY <3>1, <4>4
        <4>5. CASE due'[h.s.edit] = h.ts
          BY <2>1, <2>2, <4>5 DEF Targets
        <4> QED BY <4>2, <4>3, <4>4, <4>5
      <3> QED BY <3>2, <3>3 DEF Timed
    <2>3. CASE h.ts # Never
      BY <2>1, <2>2, <2>3 DEF HandleOK
    <2>4. CASE h.ts = Never
      <3>1. g.s.kind = "relative" => Timed(g.s, g.target)'
        BY <1>2, TimedNext DEF HandleOK
      <3> QED BY <2>1, <2>4, <3>1 DEF HandleOK, Timed
    <2> QED BY <2>3, <2>4
  <1> QED BY <1>1, <1>2, <1>3, <1>4, ArmFacts
(* A handle that is left alone keeps its instants.                         *)
LEMMA HandleNext ==
    ASSUME Types, [Next]_vars, NEW h \in Handle, HandleOK(h)
    PROVE  HandleOK(h)'
  <1>1. h.s \in Schedule /\ h.ts \in Targets /\ h.target \in Targets
    BY DEF Handle
  <1>2. Timed(h.s, h.ts)' /\ (Timed(h.s, h.target) => Timed(h.s, h.target)')
    BY <1>1, TimedNext DEF HandleOK
  <1> QED BY <1>2, Zenon DEF HandleOK

(* The schedules that are built were stored or installed.                  *)
LEMMA BuiltFrom ==
    ASSUME Types, Unique, Instant, NEW S \in SUBSET Stored,
           \/ S \subseteq nvs
           \/ queue # <<>> /\ queue[1].task = "install" /\ S \subseteq queue[1].arg,
           NEW x \in S
    PROVE  Present(x.s) /\ Timed(x.s, x.ts) /\ DueOK(x.s)
  <1>1. x.s \in Schedule
    BY DEF Stored
  <1>2. Present(x.s) /\ Timed(x.s, x.ts)
    <2>1. CASE S \subseteq nvs
      BY <2>1 DEF Present, InNvs, Instant, NvsTimed
    <2>2. CASE queue # <<>> /\ queue[1].task = "install" /\ S \subseteq queue[1].arg
      <3>1. 1 \in 1..Len(queue)
        BY <2>2, HeadFacts DEF Types
      <3> QED BY <2>2, <3>1 DEF Present, InQueue, Holds, Unique, OneQueue, Timed
    <2> QED BY <2>1, <2>2
  <1> QED BY <1>1, <1>2 DEF Instant, DueTimed

(* The instants of the handles belong to their edits after any step.       *)
LEMMA LiveTimedStep ==
    ASSUME Types, Ident, Unique, Instant, [Next]_vars
    PROVE  LiveTimed'
  <1>1. Types' /\ Ident' /\ Unique' /\ TClock /\ TLive
    BY TypesStep, IdentStep, UniqueStep DEF Types
  <1>2. \A h \in live : HandleOK(h) /\ DueOK(h.s) /\ h \in Handle /\ h.s \in Schedule
    <2>1. \A h \in live : h \in Handle /\ h.s \in Schedule /\ Present(h.s)
      BY <1>1 DEF TLive, Handle, Present, InLive
    <2> QED BY <2>1 DEF Instant, LiveTimed, DueTimed
  <1>3. CASE UNCHANGED live \/ live' = {} \/ \E id \in Ids : live' = live \ Named(id)
    BY <1>2, <1>3, HandleNext DEF LiveTimed
  <1>4. ASSUME NEW S \in SUBSET Stored, live' = Build(S), NoteDue(live'), now' = now,
               \/ S \subseteq nvs
               \/ queue # <<>> /\ queue[1].task = "install" /\ S \subseteq queue[1].arg
        PROVE  LiveTimed'
    <2> DEFINE G == {NewHandle(x) : x \in S}
    <2>1. \A x \in S : /\ NewHandle(x) \in Handle /\ HandleOK(NewHandle(x))
                       /\ NewHandle(x).s = x.s /\ DueOK(x.s)
      <3> TAKE x \in S
      <3>1. Timed(x.s, x.ts) /\ DueOK(x.s)
        BY <1>4, BuiltFrom
      <3> QED BY <3>1, NewHandleOK, NewHandleFacts
    <2>2. G \in SUBSET Handle /\ \A g \in G : HandleOK(g) /\ DueOK(g.s)
      BY <2>1
    <2>3. \A h \in live' : \E g \in G : h = ArmOrDefer(g)
      BY <1>1, <1>4, BuildFacts
    <2> HIDE DEF G
    <2> QED BY <1>1, <1>4, <2>2, <2>3, ArmedList
  <1>5. CASE live' = Rearmed /\ NoteDue(live') /\ now' = now
    <2>1. \A h \in live' : \E g \in live : h = ArmOrDefer(g)
      BY <1>1, <1>5, RearmedFacts
    <2>2. live \in SUBSET Handle
      BY <1>1 DEF TLive
    <2> QED BY <1>1, <1>2, <1>5, <2>1, <2>2, ArmedList
  <1>6. ASSUME NEW h \in live, IsDue(h), live' = (live \ {h}) \cup {AfterFire(h)},
               UNCHANGED <<due, now>>
        PROVE  LiveTimed'
    <2>1. \A g \in live : HandleOK(g)'
      BY <1>2, HandleNext
    <2>2. ASSUME NEW f, f = AfterFire(h) PROVE HandleOK(f)'
      <3>1. CASE OneShot(h.s)
        <4>1. f.s = h.s /\ f.armed = FALSE /\ f.ts = h.ts /\ f.target = h.target
          BY <1>1, <1>2, <2>2, <3>1, AfterFireFacts
        <4> QED BY <2>1, <4>1, Zenon DEF HandleOK
      <3>2. CASE ~OneShot(h.s)
        <4>1. f = Enable(h) /\ f \in Handle /\ f.s = h.s /\ f.ts \in Targets
          BY <1>1, <1>2, <2>2, <3>2, AfterFireFacts, EnableFacts DEF Handle
        <4>2. f.armed => f.ts # Never
          BY <1>1, <1>2, <4>1, EnableFacts
        <4>3. h.s.kind = "daily" /\ f.target = Never
          <5>1. h.s.kind = "daily" /\ h.target = Never
            BY <1>2, <3>2 DEF OneShot, HandleOK
          <5> QED BY <1>1, <1>2, <4>1, <5>1, EnableFacts
        <4>4. ASSUME f.ts # Never PROVE Timed(f.s, f.ts)
          <5>1. h.ts # Never /\ due[h.s.edit] # Never
            BY <1>2, <1>6 DEF IsDue, HandleOK, Timed
          <5>2. Shape(h.s, f.ts) /\ due[h.s.edit] <= f.ts
            BY <1>2, <4>1, <4>4, <5>1, EnableShape
          <5> QED BY <4>1, <5>1, <5>2 DEF Timed
        <4>5. Timed(f.s, f.ts)
          BY <4>4 DEF Timed
        <4>6. Timed(f.s, f.ts)'
          BY <1>2, <4>1, <4>5, TimedNext
        <4> QED BY <4>1, <4>2, <4>3, <4>6 DEF HandleOK
      <3> QED BY <3>1, <3>2
    <2> QED BY <1>6, <2>1, <2>2 DEF LiveTimed
  <1> QED BY <1>3, <1>4, <1>5, <1>6, LiveSteps

(* The instants noted, of the handles and in NVS belong to their edits.    *)
LEMMA InstantStep ==
    ASSUME Types, Ident, Unique, Instant, [Next]_vars
    PROVE  Instant'
  <1>1. Types' /\ Ident' /\ TNvs /\ TLive /\ THist /\ TCloud
    BY TypesStep, IdentStep DEF Types
  <1>2. LiveTimed'
    BY LiveTimedStep
  <1>3. DueTimed'
    <2> SUFFICES ASSUME NEW s \in Schedule, Present(s)', NEW d, d = due'[s.edit], d # Never
                 PROVE  Shape(s, d)'
      BY DEF DueTimed, DueOK
    <2>1. s.edit \in Edits /\ s.edit \in Nat /\ cloudVer \in Nat
      BY <1>1 DEF Schedule, TCloud, Edits
    <2>2. CASE d = due[s.edit]
      <3>1. Present(s)
        <4>1. ~(s.edit > cloudVer)
          BY <1>1, <2>1, <2>2 DEF Ident, Unseen
        <4> QED BY <2>1, <4>1, PresentOrigin
      <3>2. Shape(s, d) /\ d \in Targets
        BY <1>1, <2>1, <2>2, <3>1 DEF Instant, DueTimed, DueOK, THist
      <3> QED BY <3>2, TimedNext
    <2>3. CASE d # due[s.edit]
      <3> DEFINE H == live'
      <3>1. H \in SUBSET Handle /\ NoteDue(H)
        BY <1>1, <2>3, HistType DEF Types, TLive
      <3>2. \A h \in H : h.s \in Schedule /\ Present(h.s)' /\ HandleOK(h)'
        BY <1>2, <3>1 DEF Present, InLive, Handle, LiveTimed
      <3> HIDE DEF H
      <3>3. PICK h \in H : h.s.edit = s.edit /\ h.armed /\ d = h.ts
        BY <1>1, <2>1, <2>3, <3>1, NoteDueFacts
      <3>4. h.s = s
        BY <1>1, <3>2, <3>3 DEF Ident, SameEdit
      <3> QED BY <3>2, <3>3, <3>4 DEF HandleOK, Timed
    <2> QED BY <2>2, <2>3
  <1>4. NvsTimed'
    <2>1. CASE UNCHANGED nvs
      <3> SUFFICES ASSUME NEW x \in nvs PROVE Timed(x.s, x.ts)' /\ (~OneShot(x.s) => x.ts = Never)
        BY <2>1 DEF NvsTimed
      <3>1. x.s \in Schedule /\ x.ts \in Targets
        BY <1>1 DEF TNvs, Stored
      <3> QED BY <3>1, TimedNext DEF Instant, NvsTimed
    <2>2. CASE Persist
      <3> SUFFICES ASSUME NEW x \in nvs' PROVE Timed(x.s, x.ts)' /\ (~OneShot(x.s) => x.ts = Never)
        BY DEF NvsTimed
      <3>1. PICK h \in live : x.s = h.s /\ x.ts = IF OneShot(h.s) THEN h.ts ELSE Never
        BY <1>1, <2>2, SerializedFacts DEF Persist
      <3>2. Timed(h.s, h.ts)'
        BY <1>2, <2>2 DEF Persist, LiveTimed, HandleOK
      <3> QED BY <3>1, <3>2 DEF Timed
    <2> QED BY <2>1, <2>2, NvsType
  <1> QED BY <1>2, <1>3, <1>4 DEF Instant

(* Initially no instant is noted.                                          *)
LEMMA InstantInit ==
    ASSUME Init
    PROVE  Instant
  <1>1. \A s \in Schedule : ~Present(s)
    BY DEF Init, Present, InLive, InNvs, InQueue, Tasked, Removing
  <1> QED BY <1>1 DEF Init, Instant, DueTimed, LiveTimed, NvsTimed
-----------------------------------------------------------------------------
(* A committed schedule is there.                                          *)

(* What the fire task removes was run, and no version is committed before  *)
(* the cloud has it.                                                       *)
WorkRun   == wpc = "remove" => fired[work[1].edit] >= 1
Committed == version <= cloudVer

(* A schedule that must be there: a daily one, or a one-shot before its    *)
(* time.  It is in the last install that is queued or, when there is none, *)
(* in NVS at a boot and among the handles otherwise.                       *)
Need(s)   == s.kind = "daily" \/ (StillToCome(s) /\ fired[s.edit] = 0)
Last(i)   == i \in Installs /\ \A j \in Installs : j <= i
Coming(s) == \E i \in Installs : Last(i) /\ Holds(i, s)
There(s)  == Installs = {} /\ IF wpc = "boot" THEN InNvs(s) ELSE InLive(s)
Kept      == version = cloudVer =>
                \A s \in cloud : s.edit \notin lost /\ Need(s) => Coming(s) \/ There(s)

(* The need only passes.                                                   *)
LEMMA NeedBefore ==
    ASSUME Types, [Next]_vars, NEW s \in Schedule, Need(s)'
    PROVE  Need(s)
  <1>1. now' \in Nat /\ now \in Nat /\ now' >= now /\ s.edit \in Edits /\ s.at \in Nat
    BY ClockType DEF Types, TClock, Instants, Schedule
  <1>2. due[s.edit] \in Nat /\ due'[s.edit] \in Nat /\ fired[s.edit] \in Nat /\ fired'[s.edit] \in Nat
    BY <1>1, HistType DEF Types, THist, Targets
  <1>3. fired'[s.edit] = 0 => fired[s.edit] = 0
    <2>1. CASE UNCHANGED fired
      BY <2>1
    <2>2. CASE Fire
      <3>1. fired' = [fired EXCEPT ![Head(queue).arg.edit] = @ + 1]
        BY <2>2 DEF Fire
      <3> QED BY <1>1, <1>2, <3>1 DEF Types, THist
    <2> QED BY <2>1, <2>2, HistType
  <1>4. StillToCome(s)' => StillToCome(s)
    <2>1. due[s.edit] # Never => due'[s.edit] = due[s.edit]
      BY <1>1, HistType
    <2>2. (s.at > now' => s.at > now) /\ (due[s.edit] > now' => due[s.edit] > now)
      BY <1>1, <1>2
    <2> QED BY <2>1, <2>2, Zenon DEF StillToCome
  <1> QED BY <1>3, <1>4 DEF Need

(* What must be there is not taken for spent when it is armed ...          *)
LEMMA NotSpent ==
    ASSUME Types, NEW g \in Handle, HandleOK(g), Need(g.s)
    PROVE  ~Spent(ArmOrDefer(g))
  <1> SUFFICES ASSUME Spent(ArmOrDefer(g)) PROVE FALSE
    OBVIOUS
  <1> DEFINE s == g.s
  <1>1. TClock /\ s \in Schedule /\ g.target \in Targets /\ THist
    BY DEF Types, Handle
  <1>2. NextFire(s, g.target) = Never
    <2>1. ArmOrDefer(g) = Enable(g) /\ ArmOrDefer(g).ts = Never
      BY <1>1, ArmFacts DEF Spent
    <2> QED BY <1>1, <2>1, EnableFacts
  <1>3. /\ now \in Nat /\ s.at \in Nat \ {0} /\ s.edit \in Edits /\ g.target \in Nat
        /\ due[s.edit] \in Nat
    BY <1>1 DEF TClock, Instants, Schedule, Targets, THist
  <1>4. s.kind \in {"dated", "relative", "weekday", "daily"}
    BY <1>1, KindsAssumption DEF Schedule
  <1>5. CASE s.kind = "dated"
    <2>1. s.at <= now
      BY <1>1, <1>2, <1>5, NextFireFacts
    <2>2. s.at > now
      BY <1>5 DEF Need, StillToCome
    <2> QED BY <1>3, <2>1, <2>2
  <1>6. CASE s.kind = "relative"
    <2>1. due[s.edit] = Never \/ due[s.edit] > now
      BY <1>6 DEF Need, StillToCome
    <2>2. CASE g.target = Never
      BY <1>1, <1>2, <1>3, <1>6, <2>2, NextFireFacts DEF Never
    <2>3. CASE g.target # Never
      <3>1. due[s.edit] # Never /\ due[s.edit] <= g.target
        BY <1>6, <2>3 DEF HandleOK, Timed
      <3>2. g.target > now
        BY <1>3, <2>1, <3>1
      <3>3. NextFire(s, g.target) = g.target
        BY <1>1, <1>6, <2>3, <3>2, NextFireFacts
      <3> QED BY <1>2, <2>3, <3>3
    <2> QED BY <2>2, <2>3
  <1>7. CASE s.kind \in {"weekday", "daily"}
    BY <1>1, <1>2, <1>7, NextFireFacts
  <1> QED BY <1>4, <1>5, <1>6, <1>7

(* ... nor for over when it is restored.                                   *)
LEMMA NotOver ==
    ASSUME Types, NEW x \in Stored, Timed(x.s, x.ts), Need(x.s)
    PROVE  ~AlreadyDue(x)
  <1> SUFFICES ASSUME AlreadyDue(x) PROVE FALSE
    OBVIOUS
  <1>1. /\ now \in Nat /\ x.s.at \in Nat /\ x.s.edit \in Edits /\ x.ts \in Nat
        /\ due[x.s.edit] \in Nat
    BY DEF Types, TClock, Instants, Stored, Schedule, Targets, THist
  <1>2. /\ OneShot(x.s) /\ x.ts # Never /\ x.ts <= now
        /\ due[x.s.edit] # Never /\ due[x.s.edit] <= x.ts /\ Shape(x.s, x.ts)
    BY DEF AlreadyDue, Timed
  <1>3. StillToCome(x.s)
    BY <1>2 DEF Need, OneShot
  <1>4. CASE x.s.kind = "dated"
    <2>1. x.ts = x.s.at /\ x.s.at > now
      BY <1>2, <1>3, <1>4 DEF Shape, StillToCome
    <2> QED BY <1>1, <1>2, <2>1
  <1>5. CASE x.s.kind # "dated"
    <2>1. due[x.s.edit] > now
      BY <1>2, <1>3, <1>5 DEF StillToCome
    <2> QED BY <1>1, <1>2, <2>1
  <1> QED BY <1>4, <1>5

(* So what must be there is built ...                                      *)
LEMMA BuildKeeps ==
    ASSUME Types, NEW S \in SUBSET Stored, NEW x \in S, Timed(x.s, x.ts), Need(x.s)
    PROVE  \E h \in Build(S) : h.s = x.s
  <1> DEFINE g == NewHandle(x)
  <1>1. TClock /\ g \in Handle /\ g.s = x.s /\ HandleOK(g)
    BY NewHandleFacts, NewHandleOK DEF Types
  <1>2. ~AlreadyDue(x) /\ ~Spent(ArmOrDefer(g))
    BY <1>1, NotOver, NotSpent
  <1>3. ArmOrDefer(g) \in Build(S)
    BY <1>1, <1>2, BuildFacts
  <1>4. ArmOrDefer(g).s = x.s
    BY <1>1, ArmFacts
  <1> QED BY <1>3, <1>4

(* ... and armed again.                                                    *)
LEMMA RearmKeeps ==
    ASSUME Types, LiveTimed, NEW g \in live, Need(g.s)
    PROVE  \E h \in Rearmed : h.s = g.s
  <1>1. TClock /\ TLive /\ g \in Handle /\ HandleOK(g)
    BY DEF Types, TLive, LiveTimed
  <1>2. ArmOrDefer(g) \in Rearmed
    BY <1>1, NotSpent, RearmedFacts
  <1> QED BY <1>1, <1>2, ArmFacts

(* The installs of a queue without its head ...                            *)
LEMMA ComingTail ==
    ASSUME TQueue, queue # <<>>, queue' = Tail(queue), NEW s
    PROVE  /\ Coming(s) => \/ Coming(s)'
                           \/ Installs' = {} /\ queue[1].task = "install" /\ Holds(1, s)
           /\ Installs = {} => Installs' = {}
  <1>1. /\ Len(queue) \in Nat /\ Len(queue') = Len(queue) - 1
        /\ \A i \in 1..Len(queue') : i + 1 \in 1..Len(queue) /\ queue'[i] = queue[i + 1]
        /\ \A i \in 1..Len(queue) : i = 1 \/ (i - 1 \in 1..Len(queue') /\ queue'[i - 1] = queue[i])
    BY QueueTail DEF TQueue
  <1>2. \A i \in Installs' : i + 1 \in Installs
    BY <1>1 DEF Installs
  <1>3. ASSUME NEW i \in Installs, Last(i), Holds(i, s), i # 1 PROVE Coming(s)'
    <2>1. i \in 1..Len(queue) /\ i - 1 \in 1..Len(queue') /\ queue'[i - 1] = queue[i]
      BY <1>1, <1>3 DEF Installs
    <2>2. i - 1 \in Installs' /\ Holds(i - 1, s)'
      BY <1>3, <2>1 DEF Installs, Holds
    <2>3. \A j \in Installs' : j <= i - 1
      <3> TAKE j \in Installs'
      <3>1. j + 1 <= i /\ j \in 1..Len(queue')
        BY <1>2, <1>3 DEF Last, Installs
      <3> QED BY <1>1, <2>1, <3>1
    <2> QED BY <2>2, <2>3 DEF Coming, Last
  <1>4. ASSUME Last(1), Holds(1, s)
        PROVE  Installs' = {} /\ queue[1].task = "install"
    <2>1. \A j \in Installs' : FALSE
      <3> TAKE j \in Installs'
      <3>1. j + 1 <= 1 /\ j \in 1..Len(queue')
        BY <1>2, <1>4 DEF Last, Installs
      <3> QED BY <1>1, <3>1
    <2> QED BY <1>4, <2>1 DEF Holds
  <1> QED BY <1>2, <1>3, <1>4 DEF Coming

(* ... and with a task that is not an install.                             *)
LEMMA ComingAppend ==
    ASSUME TQueue, NEW e \in TaskRec, queue' = Append(queue, e), e.task # "install", NEW s
    PROVE  (Coming(s) => Coming(s)') /\ (Installs = {} => Installs' = {})
  <1>1. /\ Len(queue) \in Nat
        /\ \A i \in 1..Len(queue) : i \in 1..Len(queue') /\ queue'[i] = queue[i]
        /\ \A i \in 1..Len(queue') : i \in 1..Len(queue) \/ queue'[i] = e
    BY QueueAppend DEF TQueue
  <1>2. Installs' = Installs
    BY <1>1 DEF Installs
  <1>3. \A i \in Installs : Holds(i, s) => Holds(i, s)'
    BY <1>1 DEF Installs, Holds
  <1> QED BY <1>2, <1>3 DEF Coming, Last
(* What the fire task removes has run.                                     *)
LEMMA WorkRunStep ==
    ASSUME Types, WorkRun, [Next]_vars
    PROVE  WorkRun'
  <1> SUFFICES ASSUME wpc' = "remove" PROVE fired'[work'[1].edit] >= 1
    BY DEF WorkRun
  <1>1. PICK s \in Schedule : work' = <<s>>
    BY TypesStep DEF Types, TWork
  <1>2. Removing(s)' /\ s.edit \in Edits
    BY <1>1 DEF Removing, Schedule
  <1>3. fired[s.edit] \in Nat
    BY <1>2 DEF Types, THist
  <1>4. CASE Fire /\ Fires(1, s)
    <2>1. Head(queue) = queue[1]
      BY <1>4, HeadFacts DEF Fire, Takes, Types
    <2>2. fired' = [fired EXCEPT ![s.edit] = @ + 1]
      BY <1>4, <2>1 DEF Fire, Fires
    <2> QED BY <1>1, <1>2, <1>3, <2>2 DEF Types, THist
  <1>5. CASE Removing(s) /\ ~Fire
    <2>1. fired' = fired
      BY <1>5, HistType
    <2>2. fired[s.edit] >= 1
      BY <1>5 DEF WorkRun, Removing
    <2> QED BY <1>1, <2>1, <2>2
  <1>6. CASE Removing(s) /\ Fire
    BY <1>6 DEF Removing, Fire, Takes
  <1> QED BY <1>2, <1>4, <1>5, <1>6, RemovingOrigin

(* The version the node commits to is one the cloud has had.               *)
LEMMA CommittedStep ==
    ASSUME Types, Committed, [Next]_vars
    PROVE  Committed'
  <1>1. cloudVer \in Nat /\ version \in Int /\ version <= cloudVer
    BY DEF Types, TCloud, Committed
  <1>2. CASE UNCHANGED <<cloudVer, version>> \/ (version' = version /\ cloudVer' = cloudVer + 1)
    BY <1>1, <1>2 DEF Committed
  <1>3. CASE cloudVer' = cloudVer /\ version' \in {-1, cloudVer}
    BY <1>1, <1>3 DEF Committed
  <1>4. CASE DetailsArrive \/ DetailsRefused
    BY <1>2, <1>3, <1>4 DEF DetailsArrive, DetailsRefused, cloudVars
  <1>5. CASE PersistFails \/ ReloadFails
    BY <1>2, <1>3, <1>5 DEF PersistFails, ReloadFails, Voids, cloudVars
  <1>6. CASE \/ Persist \/ Remove \/ Install \/ InstallFails \/ Fire \/ Reschedule
             \/ ArmAll \/ Reload \/ Tick \/ Sync \/ Restart \/ TimezoneChanges \/ UNCHANGED vars
    BY <1>2, <1>6 DEF Persist, Remove, Install, InstallFails, Fire, Reschedule, ArmAll,
          Reload, Tick, Sync, Restart, TimezoneChanges, cloudVars, vars
  <1>7. ASSUME NEW id \in Ids,
               Delete(id) \/ \E kind \in Kinds, at \in 1..MaxTime : Edit(id, kind, at)
        PROVE  version' = version /\ cloudVer' = cloudVer + 1
    BY <1>7 DEF Edit, Delete
  <1>8. ASSUME NEW h \in live, Trigger(h) \/ TriggerRefused(h)
        PROVE  UNCHANGED <<cloudVer, version>>
    BY <1>8 DEF Trigger, TriggerRefused, cloudVars
  <1> QED BY <1>2, <1>4, <1>5, <1>6, <1>7, <1>8 DEF Next, Cloud, Worker, Timer, Booting

(* A step that leaves the queue, NVS and the handles' schedules alone.     *)
LEMMA KeptQuiet ==
    ASSUME UNCHANGED <<queue, nvs>>, NEW s, Coming(s) \/ There(s), wpc = "boot" <=> wpc' = "boot",
           InLive(s) => InLive(s)'
    PROVE  Coming(s)' \/ There(s)'
  <1>1. Installs' = Installs /\ (Coming(s) => Coming(s)') /\ (InNvs(s) => InNvs(s)')
    BY DEF Installs, Coming, Last, Holds, InNvs
  <1> QED BY <1>1 DEF There

(* A committed schedule stays until its time.                              *)
LEMMA KeptStep ==
    ASSUME Types, Ident, Unique, Instant, Backed, WorkRun, Committed, Kept, [Next]_vars
    PROVE  Kept'
  <1> SUFFICES ASSUME version' = cloudVer', NEW s \in cloud', s.edit \notin lost', Need(s)'
               PROVE  Coming(s)' \/ There(s)'
    BY DEF Kept
  <1>1. /\ TClock /\ TLive /\ TNvs /\ TQueue /\ TCloud /\ s \in Schedule /\ s.edit \in Edits
        /\ s.edit \notin lost
    BY CloudType, MarkType DEF Types, TCloud, Schedule
  <1>2. Need(s)
    BY <1>1, NeedBefore
  <1>3. ASSUME cloud' = cloud, cloudVer' = cloudVer, version' = version
        PROVE  Coming(s) \/ There(s)
    BY <1>1, <1>2, <1>3 DEF Kept
  <1>a. version # cloudVer + 1 /\ cloudVer # -1
    <2>1. \A v \in Int, c \in Nat : v <= c => v # c + 1 /\ c # -1
      OBVIOUS
    <2>2. cloudVer \in Nat /\ version \in Int /\ version <= cloudVer
      BY <1>1 DEF Committed, TCloud
    <2> QED BY <2>1, <2>2, Zenon
  <1>b. \A t \in cloud : \E x \in Payload : x.s = t
    <2> TAKE t \in cloud
    <2>1. [s |-> t, ts |-> Never] \in Payload /\ [s |-> t, ts |-> Never].s = t
      BY DEF Payload
    <2> QED BY <2>1
  <1>4. CASE DetailsArrive
    <2> DEFINE e == [task |-> "install", arg |-> Payload]
    <2>1. /\ e \in TaskRec /\ queue' = Append(queue, e) /\ e.task = "install" /\ e.arg = Payload
          /\ s \in cloud
      BY <1>1, <1>4, NewTasks DEF DetailsArrive, cloudVars
    <2>2. \E x \in e.arg : x.s = s
      BY <1>b, <2>1
    <2> HIDE DEF e
    <2>3. PICK i \in Nat : i = Len(queue) + 1
      BY <1>1, QueueAppend DEF TQueue
    <2>4. Len(queue) \in Nat /\ Len(queue') = i /\ queue'[i] = e
      BY <1>1, <2>1, <2>3, QueueAppend DEF TQueue
    <2>5. i \in Installs' /\ \A j \in Installs' : j <= i
      BY <2>1, <2>3, <2>4 DEF Installs
    <2>6. Holds(i, s)'
      BY <2>1, <2>2, <2>4 DEF Holds
    <2> QED BY <2>5, <2>6 DEF Coming, Last
  <1>5. CASE DetailsRefused
    <2>1. cloud' = cloud /\ EditsOf(Payload) \subseteq lost'
      BY <1>5 DEF DetailsRefused, cloudVars
    <2> QED BY <1>b, <2>1 DEF EditsOf
  <1>6. ASSUME NEW id \in Ids,
               Delete(id) \/ \E kind \in Kinds, at \in 1..MaxTime : Edit(id, kind, at)
        PROVE  FALSE
    <2>1. version' = version /\ cloudVer' = cloudVer + 1
      BY <1>6 DEF Edit, Delete
    <2> QED BY <1>a, <2>1, Zenon
  <1>7. CASE Install
    <2>1. /\ wpc' = "store" /\ queue # <<>> /\ queue' = Tail(queue) /\ queue[1].task = "install"
          /\ cloud' = cloud /\ cloudVer' = cloudVer
          /\ version' = version /\ 1 \in 1..Len(queue) /\ queue[1].arg \in SUBSET Stored
          /\ \E T \in SUBSET queue[1].arg : live' = Build(T) /\ Skips(queue[1].arg, T)
      BY <1>1, <1>7, HeadFacts DEF Install, Takes, cloudVars
    <2>4. PICK S \in SUBSET queue[1].arg : live' = Build(S) /\ Skips(queue[1].arg, S)
      BY <2>1
    <2>2. Coming(s)
      BY <1>3, <2>1 DEF There, Installs
    <2>3. CASE Installs' = {} /\ Holds(1, s)
      <3>1. PICK x \in queue[1].arg : x.s = s
        BY <2>3 DEF Holds
      <3>2. x.ts = Never /\ Timed(x.s, x.ts)
        BY <2>1 DEF Unique, OneQueue, Timed
      <3>3. x \in S
        BY <2>4, <3>1 DEF Skips, EditsOf
      <3>4. InLive(s)'
        BY <1>2, <2>1, <2>4, <3>1, <3>2, <3>3, BuildKeeps DEF InLive
      <3> QED BY <2>1, <2>3, <3>4 DEF There
    <2> QED BY <1>1, <2>1, <2>2, <2>3, ComingTail
  <1>8. CASE InstallFails
    <2>1. /\ queue # <<>> /\ queue' = Tail(queue) /\ queue[1].task = "install"
          /\ EditsOf(queue[1].arg) \subseteq lost' /\ cloud' = cloud /\ cloudVer' = cloudVer
          /\ version' = version /\ 1 \in 1..Len(queue)
      BY <1>1, <1>8, HeadFacts DEF InstallFails, Takes, cloudVars
    <2>2. Coming(s)
      BY <1>3, <2>1 DEF There, Installs
    <2>3. ~Holds(1, s)
      BY <2>1 DEF Holds, EditsOf
    <2> QED BY <1>1, <2>1, <2>2, <2>3, ComingTail
  <1>9. CASE Persist \/ PersistFails
    <2>1. /\ wpc \in {"store", "persist"} /\ wpc' = "idle" /\ UNCHANGED <<queue, live, cloud, cloudVer>>
          /\ version' = version
      BY <1>a, <1>9, Zenon DEF Persist, PersistFails, Voids, Idle, cloudVars
    <2>2. Coming(s) \/ There(s)
      BY <1>3, <2>1
    <2> QED BY <2>1, <2>2 DEF Coming, There, Last, Installs, Holds, InLive
  <1>10. CASE Fire
    <2>1. /\ queue # <<>> /\ queue' = Tail(queue) /\ queue[1].task = "fire" /\ live' = live
          /\ wpc = "idle" /\ wpc' # "boot"
          /\ cloud' = cloud /\ cloudVer' = cloudVer /\ version' = version
      BY <1>1, <1>10, HeadFacts DEF Fire, Takes, cloudVars
    <2>2. Coming(s) \/ There(s)
      BY <1>3, <2>1
    <2>3. InLive(s) => InLive(s)'
      BY <2>1 DEF InLive
    <2> QED BY <1>1, <2>1, <2>2, <2>3, ComingTail DEF There
  <1>11. CASE Remove
    <2>1. /\ wpc = "remove" /\ wpc' # "boot" /\ UNCHANGED <<queue, nvs, cloud, cloudVer, version>>
          /\ live' = live \ Named(Head(work).id)
          /\ lost' = lost \cup {h.s.edit : h \in {g \in Named(Head(work).id) : g.s # Head(work)}}
      BY <1>11 DEF Remove, Idle, cloudVars
    <2>2. PICK w \in Schedule : work = <<w>> /\ OneShot(w)
      BY <2>1 DEF Types, TWork
    <2>3. fired[w.edit] >= 1 /\ Head(work) = w
      BY <2>1, <2>2 DEF WorkRun
    <2>4. s # w
      BY <1>2, <2>2, <2>3 DEF Need, OneShot
    <2>5. InLive(s) => InLive(s)'
      BY <2>1, <2>3, <2>4 DEF InLive
    <2>6. Coming(s) \/ There(s)
      BY <1>3, <2>1
    <2> QED BY <2>1, <2>5, <2>6, KeptQuiet
  <1>12. CASE Reschedule \/ ArmAll
    <2>1. /\ wpc = "idle" /\ wpc' # "boot" /\ live' = Rearmed
          /\ UNCHANGED <<nvs, cloud, cloudVer, version>>
          /\ \/ UNCHANGED queue
             \/ queue # <<>> /\ queue' = Tail(queue) /\ queue[1].task = "rearm"
      BY <1>1, <1>12, HeadFacts DEF Reschedule, ArmAll, RescheduleNode, Takes, cloudVars
    <2>2. InLive(s) => InLive(s)'
      BY <1>2, <2>1, RearmKeeps DEF InLive, Instant
    <2>3. Coming(s) \/ There(s)
      BY <1>3, <2>1
    <2>4. CASE UNCHANGED queue
      BY <2>1, <2>2, <2>3, <2>4, KeptQuiet
    <2>5. CASE queue # <<>> /\ queue' = Tail(queue) /\ queue[1].task = "rearm"
      BY <1>1, <2>1, <2>2, <2>3, <2>5, ComingTail DEF There
    <2> QED BY <2>1, <2>4, <2>5
  <1>13. ASSUME NEW h \in live, Trigger(h) \/ TriggerRefused(h)
         PROVE  Coming(s)' \/ There(s)'
    <2>1. /\ live' = (live \ {h}) \cup {AfterFire(h)} /\ AfterFire(h).s = h.s
          /\ UNCHANGED <<nvs, wpc, cloud, cloudVer, version>>
      BY <1>1, <1>13, AfterFireFacts DEF Trigger, TriggerRefused, TLive, cloudVars
    <2>2. InLive(s) => InLive(s)'
      BY <2>1 DEF InLive
    <2>3. Coming(s) \/ There(s)
      BY <1>3, <2>1
    <2>4. CASE TriggerRefused(h)
      BY <2>1, <2>2, <2>3, <2>4, KeptQuiet DEF TriggerRefused
    <2>5. CASE Trigger(h)
      <3> DEFINE e == [task |-> "fire", arg |-> h.s]
      <3>1. e \in TaskRec /\ queue' = Append(queue, e) /\ e.task = "fire"
        BY <1>1, <2>5, NewTasks DEF Trigger, TLive, Handle
      <3> HIDE DEF e
      <3>2. (Coming(s) => Coming(s)') /\ (Installs = {} => Installs' = {})
        BY <1>1, <3>1, ComingAppend
      <3> QED BY <2>1, <2>2, <2>3, <3>2 DEF There, InNvs
    <2> QED BY <1>13, <2>4, <2>5
  <1>14. CASE TimezoneChanges
    <2> DEFINE e == [task |-> "rearm", arg |-> {}]
    <2>1. e \in TaskRec /\ queue' = Append(queue, e) /\ e.task = "rearm"
      BY <1>14, NewTasks DEF TimezoneChanges
    <2> HIDE DEF e
    <2>2. UNCHANGED <<live, nvs, wpc, cloud, cloudVer, version>>
      BY <1>14 DEF TimezoneChanges, cloudVars
    <2>3. (Coming(s) => Coming(s)') /\ (Installs = {} => Installs' = {})
      BY <1>1, <2>1, ComingAppend
    <2> QED BY <1>3, <2>2, <2>3 DEF There, InNvs, InLive
  <1>15. CASE Tick \/ Sync \/ UNCHANGED vars
    <2>1. UNCHANGED <<queue, live, nvs, wpc, cloud, cloudVer, version>>
      BY <1>15 DEF Tick, Sync, cloudVars, vars
    <2> QED BY <1>3, <2>1, KeptQuiet DEF InLive
  <1>16. CASE Restart
    <2>1. /\ UNCHANGED <<nvs, cloud, cloudVer, version>> /\ queue' = <<>> /\ wpc' = "boot"
          /\ Queued \subseteq lost' /\ lost \subseteq lost'
          /\ wpc = "store" => EditsOf(live) \subseteq lost'
      BY <1>16 DEF Restart, cloudVars
    <2>2. ~Coming(s)
      BY <2>1 DEF Coming, Queued, Holds, EditsOf
    <2>3. There(s)
      BY <1>3, <2>1, <2>2
    <2>4. InNvs(s)
      <3>1. CASE wpc = "boot"
        BY <2>3, <3>1 DEF There
      <3>2. CASE wpc # "boot"
        <4>1. PICK h \in live : h.s = s
          BY <2>3, <3>2 DEF There, InLive
        <4>2. wpc \in {"idle", "remove", "persist"}
          BY <2>1, <3>2, <4>1 DEF EditsOf, Types, TWork
        <4>3. Settled
          BY <1>1, <2>1, <2>3, <4>2 DEF Settled, There, TCloud
        <4> QED BY <1>1, <4>1, <4>3 DEF Backed
      <3> QED BY <3>1, <3>2
    <2>5. Installs' = {} /\ InNvs(s)'
      BY <2>1, <2>4 DEF Installs, InNvs
    <2> QED BY <2>1, <2>5 DEF There
  <1>17. CASE Reload
    <2>1. /\ UNCHANGED <<nvs, queue, cloud, cloudVer, version>>
          /\ wpc = "boot" /\ wpc' # "boot"
      BY <1>17 DEF Reload, Idle, cloudVars
    <2>4. PICK S \in SUBSET nvs : live' = Build(S) /\ Skips(nvs, S)
      BY <1>17 DEF Reload
    <2>2. InNvs(s) => InLive(s)'
      <3> SUFFICES ASSUME NEW x \in nvs, x.s = s PROVE InLive(s)'
        BY DEF InNvs
      <3>1. Timed(x.s, x.ts) /\ nvs \in SUBSET Stored
        BY <1>1 DEF Instant, NvsTimed, TNvs
      <3>2. x \in S
        BY <2>4 DEF Skips, EditsOf
      <3> QED BY <1>2, <2>4, <3>1, <3>2, BuildKeeps DEF InLive
    <2>3. Coming(s) \/ There(s)
      BY <1>3, <2>1
    <2> QED BY <2>1, <2>2, <2>3 DEF Coming, There, Last, Installs, Holds
  <1>18. CASE ReloadFails
    <2>1. /\ UNCHANGED <<cloud, cloudVer, queue, nvs>> /\ wpc = "boot" /\ wpc' # "boot"
          /\ version' = -1 \/ (version' = version /\ EditsOf(nvs) \subseteq lost')
      BY <1>18 DEF ReloadFails, Voids, Idle, cloudVars
    <2>2. version' = version /\ EditsOf(nvs) \subseteq lost'
      BY <1>a, <2>1, Zenon
    <2>3. Coming(s) \/ There(s)
      BY <1>3, <2>1, <2>2
    <2>4. ~InNvs(s)
      BY <2>2 DEF InNvs, EditsOf
    <2> QED BY <2>1, <2>3, <2>4 DEF Coming, There, Last, Installs, Holds
  <1> QED BY <1>4, <1>5, <1>6, <1>7, <1>8, <1>9, <1>10, <1>11, <1>12, <1>13, <1>14, <1>15, <1>16,
             <1>17, <1>18 DEF Next, Cloud, Worker, Timer, Booting

(* A schedule that the cloud holds and the node has committed to           *)
(* (esp_rmaker_cloud_event_response_getSchedDetails) is among the handles, *)
(* or in an install that is queued, until its time.                        *)
THEOREM ScheduledSafety == Spec => []Scheduled
  <1> DEFINE Inv == /\ Types /\ Ident /\ Backed /\ Unique /\ Instant
                    /\ WorkRun /\ Committed /\ Kept
  <1>1. Init => Inv
    <2>1. Init => WorkRun /\ Committed /\ Kept
      BY DEF Init, WorkRun, Committed, Kept
    <2> QED BY <2>1, TypesInit, IdentInit, UniqueInit, InstantInit
  <1>2. Inv /\ [Next]_vars => Inv'
    BY TypesStep, IdentStep, BackedStep, UniqueStep, InstantStep, WorkRunStep, CommittedStep,
       KeptStep
  <1>3. Inv => Scheduled
    <2> SUFFICES ASSUME Inv, version = cloudVer, wpc # "boot", NEW s \in cloud,
                        s.kind = "daily" \/ (StillToCome(s) /\ fired[s.edit] = 0),
                        s.edit \notin lost
                 PROVE  InLive(s) \/ s.edit \in Queued
      BY DEF Scheduled, InLive
    <2>1. Coming(s) \/ There(s)
      BY DEF Kept, Need
    <2>2. Coming(s) => s.edit \in Queued
      BY DEF Coming, Queued, Holds, EditsOf
    <2> QED BY <2>1, <2>2 DEF There
  <1> QED BY <1>1, <1>2, <1>3, PTL DEF Spec
-----------------------------------------------------------------------------
(* The action of a one-shot runs at most once.                             *)

(* A boot starts from NVS alone.  What it will arm afresh is marked.       *)
BootOK == wpc = "boot" => /\ live = {} /\ queue = <<>> /\ ~timeReady
                          /\ \A x \in nvs : Afresh(x, synced) => x.s.edit \in again

(* A stored instant is not later than the one the handle has.              *)
CrossFor(h, x) == /\ h.s.kind = "relative" => h.target # Never /\ x.ts <= h.target
                  /\ h.s.kind = "weekday" => h.ts # Never /\ x.ts <= h.ts
Cross == \A h \in live, x \in nvs :
            h.s = x.s /\ OneShot(x.s) /\ x.s.edit \notin again /\ x.ts # Never => CrossFor(h, x)

(* A schedule in an install is in one install and nowhere else, unless it  *)
(* was sent again.                                                         *)
Fresh(s) == /\ due[s.edit] = Never /\ ~InLive(s) /\ ~InNvs(s)
            /\ \A i, j \in 1..Len(queue) : Holds(i, s) /\ Holds(j, s) => i = j
New == \A s \in Schedule : InQueue(s) /\ s.edit \notin again => Fresh(s)

(* A one-shot that was run, or is about to be, is over: nothing can arm it *)
(* any more.                                                               *)
Ran(s)  == fired[s.edit] >= 1 \/ Tasked(s)
Cold(h) == /\ ~h.armed /\ h.ts <= now
           /\ h.s.kind = "dated" => h.s.at <= now
           /\ h.s.kind = "relative" => h.target # Never /\ h.target <= now
           /\ h.s.kind = "weekday" => h.ts # Never
Over(s) == /\ due[s.edit] # Never
           /\ s.kind = "dated" => s.at <= now
           /\ \A h \in live : h.s = s => Cold(h)
           /\ \A x \in nvs : x.s = s => x.ts <= now
OneTask(s) == \A i, j \in 1..Len(queue) : Fires(i, s) /\ Fires(j, s) => i = j
OnceFor(s) == /\ fired[s.edit] <= 1 /\ OneTask(s)
              /\ Tasked(s) => fired[s.edit] = 0
              /\ Ran(s) => Over(s)
Once == \A s \in Schedule : Present(s) /\ OneShot(s) /\ s.edit \notin again => OnceFor(s)

(* During a boot only the clock and the cloud move.                        *)
LEMMA BootSteps ==
    ASSUME Types, BootOK, [Next]_vars, wpc' = "boot"
    PROVE  \/ Restart
           \/ /\ wpc = "boot" /\ UNCHANGED <<live, queue, timeReady, nvs, due, again>>
              /\ synced' = synced \/ synced' = TRUE
  <1>1. CASE \/ DetailsArrive \/ DetailsRefused \/ TimezoneChanges \/ Install \/ InstallFails
             \/ Persist \/ PersistFails \/ Fire \/ Remove \/ Reschedule \/ ArmAll
    BY <1>1 DEF DetailsArrive, DetailsRefused, TimezoneChanges, Install, InstallFails, Persist,
          PersistFails, Fire, Remove, Reschedule, ArmAll, RescheduleNode, Takes, Idle
  <1>2. CASE Tick \/ Sync \/ UNCHANGED vars
    BY <1>2 DEF Tick, Sync, vars, history
  <1>3. ASSUME NEW id \in Ids,
               Delete(id) \/ \E kind \in Kinds, at \in 1..MaxTime : Edit(id, kind, at)
        PROVE  UNCHANGED <<wpc, live, queue, timeReady, nvs, due, again, synced>>
    BY <1>3 DEF Edit, Delete, history, clockVars
  <1>4. ASSUME NEW h \in live, Trigger(h) \/ TriggerRefused(h)
        PROVE  FALSE
    BY <1>4 DEF Trigger, TriggerRefused, BootOK
  <1>5. CASE Booting
    BY <1>5 DEF Booting, Reload, ReloadFails, Idle
  <1> QED BY <1>1, <1>2, <1>3, <1>4, <1>5 DEF Next, Cloud, Worker, Timer

(* A boot goes on from NVS alone until the list is rebuilt.                *)
LEMMA BootStep ==
    ASSUME Types, BootOK, [Next]_vars
    PROVE  BootOK'
  <1> SUFFICES ASSUME wpc' = "boot"
               PROVE  /\ live' = {} /\ queue' = <<>> /\ ~timeReady'
                      /\ \A x \in nvs' : Afresh(x, synced)' => x.s.edit \in again'
    BY DEF BootOK
  <1>1. CASE Restart
    <2>1. /\ live' = {} /\ queue' = <<>> /\ timeReady' = FALSE /\ nvs' = nvs /\ due' = due
          /\ EditsOf({x \in nvs : Afresh(x, synced')}) \subseteq again'
      BY <1>1 DEF Restart
    <2>2. ASSUME NEW x \in nvs, Afresh(x, synced)' PROVE x.s.edit \in again'
      <3>1. Afresh(x, synced')
        BY <2>1, <2>2 DEF Afresh
      <3> QED BY <2>1, <3>1 DEF EditsOf
    <2> QED BY <2>1, <2>2
  <1>2. CASE /\ wpc = "boot" /\ UNCHANGED <<live, queue, timeReady, nvs, due, again>>
             /\ synced' = synced \/ synced' = TRUE
    <2>1. \A x \in nvs : Afresh(x, synced)' => Afresh(x, synced)
      BY <1>2 DEF Afresh
    <2> QED BY <1>2, <2>1 DEF BootOK
  <1> QED BY <1>1, <1>2, BootSteps
(* An install that is queued was queued before, not at the head when that  *)
(* is taken, or arrives with details the node was never sent.              *)
LEMMA HoldsBefore ==
    ASSUME Types, [Next]_vars, NEW s \in Schedule, s.edit \notin again',
           NEW i \in 1..Len(queue'), Holds(i, s)'
    PROVE  \/ \E k \in 1..Len(queue) : Holds(k, s) /\ (Install => k # 1)
           \/ DetailsArrive /\ ~Delivered(s.edit)
  <1>1. TQueue
    BY DEF Types
  <1>2. CASE UNCHANGED queue
    <2>1. ~Install
      <3> SUFFICES ASSUME Install PROVE FALSE
        OBVIOUS
      <3>1. queue # <<>> /\ queue' = Tail(queue)
        BY DEF Install, Takes
      <3> QED BY <1>1, <1>2, <3>1, QueueTail DEF TQueue
    <2> QED BY <1>2, <2>1 DEF Holds
  <1>3. CASE queue' = <<>>
    BY <1>3
  <1>4. CASE queue # <<>> /\ queue' = Tail(queue)
    <2>1. i + 1 \in 1..Len(queue) /\ queue'[i] = queue[i + 1] /\ i + 1 # 1
      BY <1>1, <1>4, QueueTail DEF TQueue
    <2> QED BY <2>1 DEF Holds
  <1>5. ASSUME NEW e \in TaskRec, queue' = Append(queue, e),
               e.task = "install" => e.arg = Payload /\ DetailsArrive
        PROVE  \/ \E k \in 1..Len(queue) : Holds(k, s) /\ (Install => k # 1)
               \/ DetailsArrive /\ ~Delivered(s.edit)
    <2>1. \/ i \in 1..Len(queue) /\ queue'[i] = queue[i]
          \/ queue'[i] = e
      BY <1>1, <1>5, QueueAppend DEF TQueue
    <2>2. CASE i \in 1..Len(queue) /\ queue'[i] = queue[i]
      <3>1. ~Install
        <4> SUFFICES ASSUME Install PROVE FALSE
          OBVIOUS
        <4>1. queue # <<>> /\ queue' = Tail(queue)
          BY DEF Install, Takes
        <4>2. Len(queue) \in Nat /\ Len(queue') = Len(queue) - 1
          BY <1>1, <4>1, QueueTail DEF TQueue
        <4>3. Len(queue') = Len(queue) + 1
          BY <1>1, <1>5, QueueAppend DEF TQueue
        <4> QED BY <4>2, <4>3
      <3> QED BY <2>2, <3>1 DEF Holds
    <2>3. CASE queue'[i] = e
      <3>1. DetailsArrive /\ s.edit \in EditsOf(Payload)
        BY <1>5, <2>3 DEF Holds, EditsOf
      <3>2. ~Delivered(s.edit)
        BY <3>1 DEF DetailsArrive
      <3> QED BY <3>1, <3>2
    <2> QED BY <2>1, <2>2, <2>3
  <1> QED BY <1>2, <1>3, <1>4, <1>5, QueueSteps

(* Two installs of a schedule are two installs one step before, or one of  *)
(* them is of details sent again.                                          *)
LEMMA HoldsOnce ==
    ASSUME Types, [Next]_vars, NEW s \in Schedule, s.edit \notin again',
           \A i, j \in 1..Len(queue) : Holds(i, s) /\ Holds(j, s) => i = j
    PROVE  \A i, j \in 1..Len(queue') : Holds(i, s)' /\ Holds(j, s)' => i = j
  <1>1. TQueue
    BY DEF Types
  <1>2. CASE UNCHANGED queue
    BY <1>2 DEF Holds
  <1>3. CASE queue' = <<>>
    BY <1>3
  <1>4. CASE queue # <<>> /\ queue' = Tail(queue)
    <2> SUFFICES ASSUME NEW i \in 1..Len(queue'), NEW j \in 1..Len(queue'),
                        Holds(i, s)', Holds(j, s)'
                 PROVE  i = j
      OBVIOUS
    <2>1. /\ i + 1 \in 1..Len(queue) /\ queue'[i] = queue[i + 1]
          /\ j + 1 \in 1..Len(queue) /\ queue'[j] = queue[j + 1] /\ i \in Int /\ j \in Int
      BY <1>1, <1>4, QueueTail DEF TQueue
    <2>2. i + 1 = j + 1
      BY <2>1 DEF Holds
    <2> QED BY <2>1, <2>2
  <1>5. ASSUME NEW e \in TaskRec, queue' = Append(queue, e),
               e.task = "install" => e.arg = Payload /\ DetailsArrive
        PROVE  \A i, j \in 1..Len(queue') : Holds(i, s)' /\ Holds(j, s)' => i = j
    <2>1. \A i \in 1..Len(queue') : \/ i \in 1..Len(queue) /\ queue'[i] = queue[i]
                                    \/ i = Len(queue) + 1 /\ queue'[i] = e
      BY <1>1, <1>5, QueueAppend DEF TQueue
    <2>2. (e.task = "install" /\ \E x \in e.arg : x.s = s) => \A i \in 1..Len(queue) : ~Holds(i, s)
      <3> SUFFICES ASSUME e.task = "install", NEW x \in e.arg, x.s = s,
                          NEW i \in 1..Len(queue), Holds(i, s)
                   PROVE  FALSE
        OBVIOUS
      <3>1. DetailsArrive /\ s.edit \in EditsOf(Payload)
        BY <1>5 DEF EditsOf
      <3>2. s.edit \in Queued
        BY DEF Queued, Installs, Holds, EditsOf
      <3> QED BY <3>1, <3>2 DEF DetailsArrive, Delivered
    <2> QED BY <2>1, <2>2 DEF Holds
  <1> QED BY <1>2, <1>3, <1>4, <1>5, QueueSteps

(* An instant is noted only for a schedule with a handle.                  *)
LEMMA DueFromLive ==
    ASSUME Types, Ident, [Next]_vars, NEW s \in Schedule, Present(s)', due[s.edit] = Never,
           due'[s.edit] # Never
    PROVE  InLive(s)'
  <1>1. Types' /\ Ident' /\ s.edit \in Edits
    BY TypesStep, IdentStep DEF Schedule
  <1> DEFINE H == live'
  <1>2. H \in SUBSET Handle /\ NoteDue(H)
    BY <1>1, HistType DEF Types, TLive
  <1>3. \A h \in H : h.s \in Schedule /\ Present(h.s)'
    BY <1>2 DEF Present, InLive, Handle
  <1>4. (\E h \in H : h.s = s) => InLive(s)'
    BY DEF InLive
  <1> HIDE DEF H
  <1>5. PICK h \in H : h.s.edit = s.edit
    BY <1>1, <1>2, NoteDueFacts DEF Types
  <1>6. h.s = s
    BY <1>1, <1>3, <1>5 DEF Ident, SameEdit
  <1> QED BY <1>4, <1>6

(* An install stays the only place of what it brings.                      *)
LEMMA NewStep ==
    ASSUME Types, Ident, New, [Next]_vars
    PROVE  New'
  <1> SUFFICES ASSUME NEW s \in Schedule, InQueue(s)', s.edit \notin again'
               PROVE  Fresh(s)'
    BY DEF New
  <1>1. s.edit \notin again /\ Types /\ s.edit \in Edits
    BY MarkType DEF Schedule
  <1>2. PICK i \in 1..Len(queue') : Holds(i, s)'
    BY DEF InQueue
  <1>3. Fresh(s) /\ \A k \in 1..Len(queue) : Holds(k, s) => ~Install \/ k # 1
    <2>1. CASE \E k \in 1..Len(queue) : Holds(k, s) /\ (Install => k # 1)
      BY <1>1, <2>1 DEF New, InQueue, Fresh
    <2>2. CASE DetailsArrive /\ ~Delivered(s.edit)
      <3>1. due[s.edit] = Never /\ ~InLive(s) /\ ~InNvs(s)
        BY <2>2 DEF Delivered, InLive, InNvs, EditsOf
      <3>2. \A k \in 1..Len(queue) : ~Holds(k, s)
        BY <2>2 DEF Delivered, Queued, Holds, Installs, EditsOf
      <3> QED BY <3>1, <3>2 DEF Fresh
    <2> QED BY <1>2, <2>1, <2>2, HoldsBefore
  <1>4. ~InLive(s)'
    <2>1. 1 \in 1..Len(queue) \/ ~Install
      BY HeadFacts DEF Install, Takes, Types
    <2> QED BY <1>3, <2>1, LiveOrigin DEF Fresh
  <1>5. ~InNvs(s)'
    BY <1>3, NvsOrigin DEF Fresh
  <1>6. due'[s.edit] = Never
    <2>1. Present(s)'
      BY DEF Present
    <2> QED BY <1>3, <1>4, <2>1, DueFromLive DEF Fresh
  <1> QED BY <1>3, <1>4, <1>5, <1>6, HoldsOnce DEF Fresh
(* Of two instants at a time of day the one within a day is not later than *)
(* the one to come.                                                        *)
LEMMA SameDay ==
    ASSUME NEW n \in Nat, NEW t \in Nat, NEW u \in Nat, t % Day = u % Day,
           t <= n + Day, u > n, u <= n + Day
    PROVE  t <= u
  <1>1. CASE t > n
    <2>1. t \in (n + 1)..(n + Day) /\ u \in (n + 1)..(n + Day) /\ n \in Int
      BY <1>1, BoundsAssumption
    <2>2. t = u
      BY <2>1, OnceADay
    <2> QED BY <2>2
  <1>2. CASE ~(t > n)
    BY <1>2
  <1> QED BY <1>1, <1>2

(* Arming a handle keeps it from being armed before the stored instant.    *)
LEMMA ArmedCross ==
    ASSUME Types, NEW g \in Handle, NEW x \in Stored, g.s = x.s, x.ts # Never, Timed(x.s, x.ts),
           g.s.kind = "relative" => g.target # Never /\ x.ts <= g.target,
           g.s.kind = "weekday" /\ ~MayArm => g.ts # Never /\ x.ts <= g.ts
    PROVE  CrossFor(ArmOrDefer(g), x)
  <1> DEFINE f == Enable(g)
             t == NextFire(g.s, g.target)
  <1>1. TClock /\ g.s \in Schedule /\ g.target \in Targets /\ Shape(x.s, x.ts)
    BY DEF Types, Handle, Timed
  <1>2. /\ now \in Nat /\ x.ts \in Nat /\ g.target \in Nat /\ t \in Nat
    BY <1>1, NextFireFacts DEF TClock, Instants, Stored, Targets
  <1>3. CASE ~MayArm
    BY <1>1, <1>3, ArmFacts DEF CrossFor
  <1>4. CASE MayArm
    <2>1. /\ ArmOrDefer(g) = f /\ f.s = g.s /\ f.ts = t
          /\ f.target = IF g.s.kind = "relative" /\ t # Never THEN t ELSE g.target
      BY <1>1, <1>4, ArmFacts, EnableFacts
    <2>2. CASE g.s.kind = "relative"
      <3>1. t = g.target \/ t = Never
        BY <1>1, <1>2, <2>2, NextFireFacts
      <3>2. f.target = g.target
        BY <2>1, <2>2, <3>1
      <3> QED BY <2>1, <2>2, <3>2 DEF CrossFor
    <2>3. CASE g.s.kind = "weekday"
      <3>1. t # Never /\ t % Day = g.s.at % Day /\ t <= now + Day /\ t > now
        BY <1>1, <2>3, NextFireFacts
      <3>2. x.ts % Day = g.s.at % Day /\ x.ts <= now + Day
        BY <1>1, <2>3 DEF Shape
      <3>3. x.ts <= t
        <4> HIDE DEF t
        <4> QED BY <1>2, <3>1, <3>2, SameDay
      <3> QED BY <2>1, <2>3, <3>1, <3>3 DEF CrossFor
    <2>4. CASE g.s.kind \notin {"relative", "weekday"}
      BY <2>1, <2>4 DEF CrossFor
    <2> QED BY <2>2, <2>3, <2>4
  <1> QED BY <1>3, <1>4

(* A stored instant stays not later than the handle's.                     *)
LEMMA CrossStep ==
    ASSUME Types, Ident, Unique, Instant, BootOK, New, Cross, [Next]_vars
    PROVE  Cross'
  <1>1. TClock /\ TLive /\ TNvs /\ again \subseteq again'
    BY MarkType DEF Types
  <1> SUFFICES ASSUME NEW h \in live', NEW x \in nvs', h.s = x.s, OneShot(x.s),
                      x.s.edit \notin again', x.ts # Never
               PROVE  CrossFor(h, x)
    BY DEF Cross
  <1>2. CASE Persist
    <2>1. PICK g \in live : x.s = g.s /\ x.ts = IF OneShot(g.s) THEN g.ts ELSE Never
      BY <1>1, <1>2, SerializedFacts DEF Persist
    <2>2. h = g
      BY <1>2, <2>1 DEF Persist, Unique, OneLive
    <2>3. x.ts = h.ts /\ HandleOK(h) /\ h \in Handle
      BY <1>1, <2>1, <2>2 DEF Instant, LiveTimed, TLive
    <2>4. x.ts \in Nat
      BY <2>3 DEF Handle, Targets
    <2>5. h.s.kind = "relative" => h.target = x.ts
      BY <2>3 DEF HandleOK
    <2> QED BY <2>3, <2>4, <2>5 DEF CrossFor
  <1>3. CASE UNCHANGED nvs
    <2>1. x \in nvs /\ x \in Stored /\ Timed(x.s, x.ts) /\ x.s \in Schedule
      BY <1>1, <1>3 DEF TNvs, Stored, Instant, NvsTimed
    <2>2. \A g \in live : g.s = x.s => CrossFor(g, x)
      BY <1>1, <2>1 DEF Cross
    <2>3. CASE UNCHANGED live \/ live' = {} \/ \E id \in Ids : live' = live \ Named(id)
      BY <2>2, <2>3
    <2>4. ASSUME NEW S \in SUBSET nvs, live' = Build(S), wpc = "boot"
          PROVE  CrossFor(h, x)
      <3>1. PICK y \in nvs : h = ArmOrDefer(NewHandle(y)) /\ h.s = y.s
        <4>1. S \in SUBSET Stored
          BY <1>1 DEF TNvs
        <4> QED BY <1>1, <2>4, <4>1, BuildFacts
      <3>2. y = x
        BY <2>1, <3>1 DEF Unique, OneNvs
      <3> DEFINE g == NewHandle(x)
      <3>3. g \in Handle /\ g.s = x.s /\ (g.s.kind = "relative" => g.target = x.ts)
        BY <2>1, NewHandleFacts
      <3>4. g.s.kind = "weekday" => MayArm
        <4>1. ~Afresh(x, synced) /\ due[x.s.edit] # Never
          BY <1>1, <2>1, <2>4 DEF BootOK, Timed
        <4> QED BY <3>3, <4>1 DEF Afresh, MayArm
      <3>5. x.ts <= x.ts
        BY <2>1 DEF Stored, Targets
      <3> HIDE DEF g
      <3>6. CrossFor(ArmOrDefer(g), x)
        BY <2>1, <3>3, <3>4, <3>5, ArmedCross
      <3> QED BY <3>1, <3>2, <3>6 DEF g
    <2>5. ASSUME queue # <<>>, queue[1].task = "install",
                 NEW S \in SUBSET queue[1].arg, live' = Build(S)
          PROVE  FALSE
      <3>1. 1 \in 1..Len(queue) /\ S \in SUBSET Stored
        BY <2>5, HeadFacts DEF Types
      <3>2. \E y \in queue[1].arg : h.s = y.s
        BY <1>1, <2>5, <3>1, BuildFacts
      <3>3. InQueue(x.s) /\ InNvs(x.s)
        BY <2>1, <2>5, <3>1, <3>2 DEF InQueue, Holds, InNvs
      <3> QED BY <1>1, <2>1, <3>3 DEF New, Fresh
    <2>6. CASE live' = Rearmed
      <3>1. PICK g \in live : h = ArmOrDefer(g) /\ h.s = g.s
        BY <1>1, <2>6, RearmedFacts
      <3>2. CrossFor(g, x) /\ g \in Handle
        BY <1>1, <2>2, <3>1 DEF TLive
      <3> QED BY <2>1, <3>1, <3>2, ArmedCross DEF CrossFor
    <2>7. ASSUME NEW g \in live, live' = (live \ {g}) \cup {AfterFire(g)}
          PROVE  CrossFor(h, x)
      <3>1. CASE h \in live
        BY <2>2, <3>1
      <3>2. CASE h = AfterFire(g)
        <4>1. h.s = g.s /\ h.ts = g.ts /\ h.target = g.target
          BY <1>1, <3>2, AfterFireFacts DEF TLive
        <4> QED BY <2>2, <4>1 DEF CrossFor
      <3> QED BY <2>7, <3>1, <3>2
    <2> QED BY <2>3, <2>4, <2>5, <2>6, <2>7, LiveSteps
  <1> QED BY <1>2, <1>3, NvsType
(* The fire tasks of a schedule whose timer does not go off.               *)
LEMMA TaskedStep ==
    ASSUME Types, [Next]_vars, NEW s \in Schedule, OneTask(s), \A h \in live : Trigger(h) => h.s # s
    PROVE  /\ OneTask(s)' /\ (Tasked(s)' => Tasked(s))
           /\ Fire /\ Fires(1, s) => ~Tasked(s)'
  <1>1. TQueue
    BY DEF Types
  <1>2. Tasked(s)' => Tasked(s)
    BY QueueOrigin
  <1>3. OneTask(s)'
    <2>1. CASE UNCHANGED queue \/ queue' = <<>>
      BY <2>1 DEF OneTask, Fires
    <2>2. CASE queue # <<>> /\ queue' = Tail(queue)
      <3> SUFFICES ASSUME NEW i \in 1..Len(queue'), NEW j \in 1..Len(queue'),
                          Fires(i, s)', Fires(j, s)'
                   PROVE  i = j
        BY DEF OneTask
      <3>1. /\ i + 1 \in 1..Len(queue) /\ queue'[i] = queue[i + 1]
            /\ j + 1 \in 1..Len(queue) /\ queue'[j] = queue[j + 1] /\ i \in Int /\ j \in Int
        BY <1>1, <2>2, QueueTail DEF TQueue
      <3>2. i + 1 = j + 1
        BY <3>1 DEF Fires, OneTask
      <3> QED BY <3>1, <3>2
    <2>3. ASSUME NEW e \in TaskRec, queue' = Append(queue, e),
                 e.task = "fire" => \E h \in live : Trigger(h) /\ e.arg = h.s
          PROVE  OneTask(s)'
      <3>1. \A i \in 1..Len(queue') : \/ i \in 1..Len(queue) /\ queue'[i] = queue[i]
                                      \/ queue'[i] = e
        BY <1>1, <2>3, QueueAppend DEF TQueue
      <3>2. ~(e.task = "fire" /\ e.arg = s)
        BY <2>3
      <3> QED BY <3>1, <3>2 DEF OneTask, Fires
    <2> QED BY <2>1, <2>2, <2>3, QueueSteps
  <1>4. ASSUME Fire, Fires(1, s), Tasked(s)' PROVE FALSE
    <2>1. queue # <<>> /\ queue' = Tail(queue) /\ 1 \in 1..Len(queue)
      BY <1>1, <1>4, HeadFacts DEF Fire, Takes
    <2>2. PICK i \in 1..Len(queue') : Fires(i, s)'
      BY <1>4 DEF Tasked
    <2>3. i \in Nat /\ i >= 1 /\ i + 1 \in 1..Len(queue) /\ queue'[i] = queue[i + 1]
      BY <1>1, <2>1, <2>2, QueueTail DEF TQueue
    <2>4. i + 1 = 1
      BY <1>4, <2>1, <2>2, <2>3 DEF OneTask, Fires
    <2> QED BY <2>3, <2>4
  <1> QED BY <1>2, <1>3, <1>4

(* Only the fire task of a schedule runs its action.                       *)
LEMMA FiredStep ==
    ASSUME Types, Ident, [Next]_vars, NEW s \in Schedule, Present(s)
    PROVE  \/ fired'[s.edit] = fired[s.edit]
           \/ Fire /\ Fires(1, s) /\ Tasked(s) /\ fired'[s.edit] = fired[s.edit] + 1
  <1>1. CASE UNCHANGED fired
    BY <1>1
  <1>2. CASE Fire
    <2> DEFINE u == queue[1].arg
    <2>1. Head(queue) = queue[1] /\ 1 \in 1..Len(queue) /\ queue[1].task = "fire" /\ u \in Schedule
      BY <1>2, HeadFacts DEF Fire, Takes, Types
    <2>2. Present(u) /\ Fires(1, u)
      BY <2>1 DEF Present, Tasked, Fires
    <2>3. fired' = [fired EXCEPT ![u.edit] = @ + 1]
      BY <1>2, <2>1 DEF Fire
    <2> HIDE DEF u
    <2>4. u.edit = s.edit => u = s
      BY <2>1, <2>2 DEF Ident, SameEdit
    <2>5. u.edit \in Edits /\ s.edit \in Edits /\ fired \in [Edits -> Nat]
      BY <2>1 DEF Schedule, Types, THist
    <2>6. CASE u.edit = s.edit
      BY <1>2, <2>1, <2>2, <2>3, <2>4, <2>5, <2>6 DEF Tasked
    <2>7. CASE u.edit # s.edit
      BY <2>3, <2>5, <2>7
    <2> QED BY <2>6, <2>7
  <1> QED BY <1>1, <1>2, HistType

(* A handle that is over stays so ...                                      *)
LEMMA ColdNext ==
    ASSUME Types, [Next]_vars, NEW h \in Handle, Cold(h)
    PROVE  Cold(h)'
  <1>1. now' \in Nat /\ now \in Nat /\ now' >= now /\ h.ts \in Nat /\ h.target \in Nat /\ h.s.at \in Nat
    BY ClockType DEF Types, TClock, Instants, Handle, Targets, Schedule
  <1>2. /\ h.ts <= now => h.ts <= now'
        /\ h.target <= now => h.target <= now'
        /\ h.s.at <= now => h.s.at <= now'
    BY <1>1
  <1> QED BY <1>2, Zenon DEF Cold

(* ... when it is armed again, too.                                        *)
LEMMA ColdArmed ==
    ASSUME Types, NEW g \in Handle, Cold(g), g.s.kind \in {"dated", "relative"}
    PROVE  Cold(ArmOrDefer(g))
  <1> DEFINE f == Enable(g)
             t == NextFire(g.s, g.target)
  <1>1. TClock /\ g.s \in Schedule /\ g.target \in Targets /\ now \in Nat
    BY DEF Types, Handle, TClock, Instants
  <1>2. CASE ~MayArm
    BY <1>1, <1>2, ArmFacts
  <1>3. CASE MayArm
    <2>1. /\ ArmOrDefer(g) = f /\ f.s = g.s /\ f.ts = t /\ (f.armed <=> t # Never)
          /\ f.target = IF g.s.kind = "relative" /\ t # Never THEN t ELSE g.target
      BY <1>1, <1>3, ArmFacts, EnableFacts
    <2>2. t = Never
      <3>1. CASE g.s.kind = "dated"
        BY <1>1, <3>1, NextFireFacts DEF Cold
      <3>2. CASE g.s.kind = "relative"
        BY <1>1, <3>2, NextFireFacts DEF Cold
      <3> QED BY <3>1, <3>2
    <2>3. Never <= now
      BY <1>1 DEF Never
    <2> HIDE DEF f, t
    <2> QED BY <2>1, <2>2, <2>3 DEF Cold
  <1> QED BY <1>2, <1>3
(* What is over stays over: neither an install, nor a boot, nor arming it  *)
(* again brings a one-shot back.                                           *)
LEMMA OverStep ==
    ASSUME Types, Ident, Unique, Instant, BootOK, New, [Next]_vars, NEW s \in Schedule, Present(s),
           OneShot(s), s.edit \notin again', Over(s)
    PROVE  Over(s)'
  <1>1. /\ TClock /\ TLive /\ TNvs /\ s.edit \in Edits /\ s.edit \notin again
        /\ s.kind \in {"dated", "relative", "weekday"}
    <2>1. s.kind \in {"dated", "relative", "weekday"}
      BY KindsAssumption DEF Schedule, OneShot
    <2> QED BY <2>1, MarkType DEF Types, Schedule
  <1>2. now' \in Nat /\ now \in Nat /\ now' >= now /\ s.at \in Nat
    BY ClockType DEF Types, TClock, Instants, Schedule
  <1>3. due'[s.edit] # Never
    BY <1>1, HistType DEF Over
  <1>4. s.kind = "dated" => s.at <= now'
    BY <1>2 DEF Over
  <1>5. ASSUME NEW x \in nvs', x.s = s PROVE x.ts <= now'
    <2>1. CASE UNCHANGED nvs
      <3>1. x.ts \in Nat /\ x.ts <= now
        BY <1>1, <1>5, <2>1 DEF TNvs, Stored, Targets, Over
      <3> QED BY <1>2, <3>1
    <2>2. CASE Persist
      <3>1. PICK h \in live : x.s = h.s /\ x.ts = IF OneShot(h.s) THEN h.ts ELSE Never
        BY <1>1, <2>2, SerializedFacts DEF Persist
      <3>2. x.ts = h.ts /\ h.ts <= now /\ h.ts \in Nat
        BY <1>1, <1>5, <3>1 DEF Over, Cold, TLive, Handle, Targets
      <3> QED BY <1>2, <3>2
    <2> QED BY <2>1, <2>2, NvsType
  <1>6. ASSUME NEW h \in live', h.s = s PROVE Cold(h)'
    <2>1. \A g \in live : g.s = s => g \in Handle /\ Cold(g)
      BY <1>1 DEF Over, TLive
    <2>2. h \in live => Cold(h)'
      BY <1>6, <2>1, ColdNext
    <2>3. CASE UNCHANGED live \/ live' = {} \/ \E id \in Ids : live' = live \ Named(id)
      BY <1>6, <2>2, <2>3
    <2>4. ASSUME NEW S \in SUBSET nvs, live' = Build(S), wpc = "boot"
          PROVE  Cold(h)'
      <3>1. PICK x \in nvs : h = ArmOrDefer(NewHandle(x)) /\ h.s = x.s /\ ~AlreadyDue(x)
        <4>1. S \in SUBSET Stored
          BY <1>1 DEF TNvs
        <4> QED BY <1>1, <2>4, <4>1, BuildFacts
      <3>2. x \in Stored /\ x.s = s /\ x.ts <= now
        BY <1>1, <1>6, <3>1 DEF TNvs, Over
      <3>3. ~Afresh(x, synced) /\ ~timeReady
        BY <1>1, <2>4, <3>1, <3>2 DEF BootOK
      <3>4. x.ts # Never
        BY <3>2, <3>3 DEF Afresh, Over
      <3>5. ~synced /\ s.kind # "weekday"
        BY <3>1, <3>2, <3>3, <3>4 DEF AlreadyDue, Afresh, Over
      <3>6. h = NewHandle(x) /\ h \in Handle
        BY <1>1, <3>1, <3>2, <3>3, <3>5, ArmFacts, NewHandleFacts DEF MayArm
      <3>7. /\ ~h.armed /\ h.ts = Never
            /\ s.kind = "relative" => h.target = x.ts
        BY <3>2, <3>6, NewHandleFacts
      <3>8. Never <= now
        BY <1>2 DEF Never
      <3>9. Cold(h)
        BY <1>6, <3>2, <3>4, <3>5, <3>7, <3>8 DEF Cold, Over
      <3> QED BY <3>6, <3>9, ColdNext
    <2>5. ASSUME queue # <<>>, queue[1].task = "install",
                 NEW S \in SUBSET queue[1].arg, live' = Build(S)
          PROVE  FALSE
      <3>1. 1 \in 1..Len(queue) /\ S \in SUBSET Stored
        BY <2>5, HeadFacts DEF Types
      <3>2. \E y \in queue[1].arg : h.s = y.s
        BY <1>1, <1>6, <2>5, <3>1, BuildFacts
      <3>3. InQueue(s)
        BY <1>6, <2>5, <3>1, <3>2 DEF InQueue, Holds
      <3> QED BY <1>1, <3>3 DEF New, Fresh, Over
    <2>6. ASSUME live' = Rearmed, \A g \in live : g.s.kind = "weekday" /\ g.ts # Never /\ ~g.armed
                                                     => g.s.edit \in again'
          PROVE  Cold(h)'
      <3>1. PICK g \in live : h = ArmOrDefer(g) /\ h.s = g.s
        BY <1>1, <2>6, RearmedFacts
      <3>2. g \in Handle /\ Cold(g) /\ g.s = s
        BY <1>6, <2>1, <3>1
      <3>3. s.kind # "weekday"
        BY <2>6, <3>2 DEF Cold
      <3>4. Cold(h) /\ h \in Handle
        BY <1>1, <3>1, <3>2, <3>3, ColdArmed, ArmFacts
      <3> QED BY <3>4, ColdNext
    <2>7. ASSUME NEW g \in live, IsDue(g), live' = (live \ {g}) \cup {AfterFire(g)}
          PROVE  Cold(h)'
      <3>1. g.s # s
        BY <2>1, <2>7 DEF Cold, IsDue
      <3>2. AfterFire(g).s = g.s
        BY <1>1, AfterFireFacts DEF TLive
      <3> QED BY <1>6, <2>2, <2>7, <3>1, <3>2
    <2> QED BY <2>3, <2>4, <2>5, <2>6, <2>7, LiveSteps
  <1> QED BY <1>3, <1>4, <1>5, <1>6 DEF Over

(* A one-shot that goes off has its fire task queued, and is over.         *)
LEMMA GoesOff ==
    ASSUME Types, Unique, Instant, Cross, NEW h \in live, Trigger(h),
           OneShot(h.s), h.s.edit \notin again', OnceFor(h.s)
    PROVE  OnceFor(h.s)'
  <1> DEFINE s == h.s
  <1>1. /\ h \in Handle /\ s \in Schedule /\ s.edit \in Edits /\ TClock /\ TQueue
        /\ s.edit \notin again
        /\ s.kind \in {"dated", "relative", "weekday"}
    <2>1. h \in Handle /\ s \in Schedule /\ s.edit \in Edits
      BY DEF Types, TLive, Handle, Schedule
    <2>2. s.kind \in {"dated", "relative", "weekday"}
      BY <2>1, KindsAssumption DEF Schedule, OneShot
    <2> QED BY <2>1, <2>2 DEF Types, Trigger, history
  <1>2. /\ h.armed /\ h.ts <= now /\ h.ts # Never
        /\ UNCHANGED <<now, nvs, fired, due>>
        /\ live' = (live \ {h}) \cup {AfterFire(h)}
    BY DEF Trigger, IsDue, clockVars, history, Instant, LiveTimed, HandleOK
  <1>3. ~Ran(s)
    BY <1>2 DEF OnceFor, Over, Cold
  <1>4. fired[s.edit] = 0 /\ ~Tasked(s)
    <2>1. fired[s.edit] \in Nat
      BY <1>1 DEF Types, THist
    <2> QED BY <1>3, <2>1 DEF Ran
  <1>5. OneTask(s)'
    <2> DEFINE e == [task |-> "fire", arg |-> s]
    <2>1. e \in TaskRec /\ queue' = Append(queue, e)
      BY <1>1, NewTasks DEF Trigger
    <2> HIDE DEF e
    <2>2. \A i \in 1..Len(queue') : \/ i \in 1..Len(queue) /\ queue'[i] = queue[i]
                                    \/ i = Len(queue) + 1
      BY <1>1, <2>1, QueueAppend DEF TQueue
    <2> QED BY <1>4, <2>2 DEF OneTask, Tasked, Fires
  <1>6. Timed(s, h.ts) /\ (s.kind = "relative" => h.target = h.ts)
    BY <1>2 DEF Instant, LiveTimed, HandleOK
  <1>7. ASSUME NEW f, f = AfterFire(h) PROVE Cold(f)'
    <2>1. f.s = s /\ f.armed = FALSE /\ f.ts = h.ts /\ f.target = h.target
      BY <1>1, <1>7, AfterFireFacts
    <2>2. s.kind = "dated" => s.at = h.ts
      BY <1>2, <1>6 DEF Timed, Shape
    <2> QED BY <1>2, <1>6, <2>1, <2>2 DEF Cold
  <1>8. \A g \in live' : g.s = s => Cold(g)'
    <2>1. \A g \in live : g.s = s => g = h
      BY DEF Unique, OneLive
    <2> QED BY <1>2, <1>7, <2>1
  <1>9. ASSUME NEW x \in nvs, x.s = s PROVE x.ts <= now
    <2>1. Timed(s, x.ts) /\ x.ts \in Nat /\ now \in Nat /\ h.ts \in Nat
      BY <1>1, <1>9 DEF Instant, NvsTimed, Types, TNvs, Stored, Targets, TClock, Instants, Handle
    <2>2. CASE x.ts = Never
      BY <2>1, <2>2 DEF Never
    <2>3. CASE x.ts # Never
      <3>1. x.ts <= h.ts
        <4>1. CASE s.kind = "dated"
          <5>1. x.ts = h.ts
            BY <1>2, <1>6, <2>1, <2>3, <4>1 DEF Timed, Shape
          <5> QED BY <2>1, <5>1
        <4>2. CASE s.kind \in {"relative", "weekday"}
          <5>1. CrossFor(h, x)
            BY <1>1, <1>9, <2>3 DEF Cross
          <5> QED BY <1>6, <4>2, <5>1 DEF CrossFor
        <4> QED BY <1>1, <4>1, <4>2
      <3> QED BY <1>2, <2>1, <3>1
    <2> QED BY <2>2, <2>3
  <1>10. Over(s)'
    <2>1. due[s.edit] # Never /\ (s.kind = "dated" => s.at = h.ts)
      BY <1>2, <1>6 DEF Timed, Shape
    <2> QED BY <1>2, <1>8, <1>9, <2>1 DEF Over
  <1>11. fired'[s.edit] = 0 /\ fired'[s.edit] <= 1
    BY <1>2, <1>4
  <1> QED BY <1>5, <1>10, <1>11 DEF OnceFor

(* Every step keeps the action of a one-shot at one run.                   *)
LEMMA OnceStep ==
    ASSUME Types, Ident, Unique, Instant, BootOK, New, Cross, Once, [Next]_vars
    PROVE  Once'
  <1> SUFFICES ASSUME NEW s \in Schedule, Present(s)', OneShot(s), s.edit \notin again'
               PROVE  OnceFor(s)'
    BY DEF Once
  <1>1. s.edit \in Edits /\ s.edit \notin again /\ Ident' /\ fired \in [Edits -> Nat]
    BY MarkType, IdentStep DEF Schedule, Types, THist
  <1>2. CASE ~Present(s)
    <2>1. cloudVer' = cloudVer + 1 /\ cloudVer \in Nat /\ s.edit = cloudVer + 1
      BY <1>2, PresentOrigin DEF Types, TCloud
    <2>2. fired[s.edit] = 0 /\ due[s.edit] = Never
      BY <1>1, <2>1 DEF Ident, Unseen
    <2>3. fired' = fired
      <3>1. Fire => cloudVer' = cloudVer
        BY DEF Fire, cloudVars
      <3> QED BY <2>1, <3>1, HistType
    <2>4. ~Tasked(s)'
      BY <1>2, QueueOrigin DEF Present, InLive
    <2> QED BY <2>2, <2>3, <2>4 DEF OnceFor, Ran, OneTask, Tasked
  <1>3. CASE Present(s)
    <2>1. OnceFor(s)
      BY <1>1, <1>3 DEF Once
    <2>2. CASE \E h \in live : Trigger(h) /\ h.s = s
      BY <2>1, <2>2, GoesOff
    <2>3. CASE \A h \in live : Trigger(h) => h.s # s
      <3>1. /\ OneTask(s)' /\ (Tasked(s)' => Tasked(s))
            /\ Fire /\ Fires(1, s) => ~Tasked(s)'
        BY <2>1, <2>3, TaskedStep DEF OnceFor
      <3>2. fired[s.edit] \in Nat /\ fired[s.edit] <= 1 /\ (Tasked(s) => fired[s.edit] = 0)
        BY <1>1, <2>1 DEF OnceFor
      <3>3. \/ fired'[s.edit] = fired[s.edit]
            \/ Fire /\ Fires(1, s) /\ Tasked(s) /\ fired'[s.edit] = 1
        BY <1>3, <3>2, FiredStep
      <3>4. Ran(s)' => Ran(s)
        BY <3>1, <3>3 DEF Ran
      <3>5. Ran(s)' => Over(s)'
        BY <1>3, <2>1, <3>4, OverStep DEF OnceFor
      <3>6. fired'[s.edit] <= 1 /\ (Tasked(s)' => fired'[s.edit] = 0)
        BY <3>1, <3>2, <3>3
      <3> QED BY <3>1, <3>5, <3>6 DEF OnceFor
    <2> QED BY <2>2, <2>3
  <1> QED BY <1>2, <1>3

(* The action of a one-shot is run at most once (__schedule_fire_task,     *)
(* __remove_fired_schedule), whatever power failures fall between the      *)
(* action, the removal and its write, unless the cloud sent the schedule   *)
(* again or a boot did not know its instant.                               *)
THEOREM FiresOnceSafety == Spec => []FiresOnce
  <1> DEFINE Inv == Types /\ Ident /\ Unique /\ Instant /\ BootOK /\ New /\ Cross /\ Once
  <1>1. Init => Inv
    <2>1. ASSUME Init PROVE BootOK /\ New /\ Cross /\ Once
      <3>1. \A s : ~Present(s)
        BY <2>1 DEF Init, Present, InLive, InNvs, InQueue, Tasked, Removing
      <3> QED BY <2>1, <3>1 DEF Init, BootOK, New, Cross, Once, Present
    <2> QED BY <2>1, TypesInit, IdentInit, UniqueInit, InstantInit
  <1>2. Inv /\ [Next]_vars => Inv'
    BY TypesStep, IdentStep, UniqueStep, InstantStep, BootStep, NewStep, CrossStep, OnceStep
  <1>3. Inv => FiresOnce
    <2> SUFFICES ASSUME Inv, NEW s \in cloud \cup {h.s : h \in live} \cup {x.s : x \in nvs},
                        OneShot(s), s.edit \notin again
                 PROVE  fired[s.edit] <= 1
      BY DEF FiresOnce
    <2>1. s \in Schedule /\ Present(s)
      BY DEF Present, InLive, InNvs, Types, TCloud, TLive, TNvs, Handle, Stored
    <2> QED BY <2>1 DEF Once, OnceFor
  <1> QED BY <1>1, <1>2, <1>3, PTL DEF Spec
=============================================================================
