---------------------------- MODULE Bridge_proofs ----------------------------
(***************************************************************************)
(* Proofs about the children of a bridge and the drain of configurations,  *)
(* for any ids, slots, tables, queues, calls and faults.                   *)
(*                                                                         *)
(* The cloud has the READY children.  Requests reach the cloud in the      *)
(* order of their numbers and are answered in it (InOrder, Answered).  So  *)
(* when a bridgeAck finds its add in the table, no removal of that child   *)
(* is left on the way (Asking): the cloud still has it.                    *)
(*                                                                         *)
(* Nothing on the list is stranded.  A node in flight has its              *)
(* configuration or an answer on the way, or its connection was lost and   *)
(* comes back with an event; any other has a drain to come (Listing,       *)
(* ComesBack).                                                             *)
(*                                                                         *)
(* No configuration is forgotten.  The configurations of a child reach the *)
(* cloud in their order (Rising), so one that was accepted is never undone *)
(* by another on its way (Accepted).  The answers, the stored checksum and *)
(* the callback speak only of accepted ones (Granted, Stored).  For a slot *)
(* that is used again this rests on the order of the messages: what an     *)
(* earlier child of the same id sent goes before the add (Before), and     *)
(* what came back for it before the bridgeAck (After), so a child that     *)
(* becomes READY finds nothing of it.  The holes are the nodes for which   *)
(* the code breaks this: among them one whose checksum is that of an       *)
(* earlier configuration that says the same (Mistaken).                    *)
(***************************************************************************)
EXTENDS Bridge, WellFoundedInduction, FiniteSetTheorems, TLAPS

-----------------------------------------------------------------------------
(* The types of the variables.                                             *)

(* A checksum with the node it is of.                                      *)
Digests == Things \X Nat
(* What the node sends,                                                    *)
Upward == [kind : {"add", "remove"}, req : Nat, id : Ids] \cup [kind : {"config"}, hash : Digests]
(* what the cloud answers,                                                 *)
Downward == [kind : {"answer"}, hash : Digests, ok : BOOLEAN]
            \cup [kind : {"ack"}, req : Nat, id : Ids, ok : BOOLEAN]
(* and what the worker's queue may hold.                                   *)
BridgeTasks == [kind : {"drain", "setup"}] \cup Downward

(* The slots, without a bound on the configurations.                       *)
Children == [st : {"free", "add", "ready", "remove"}, id : Things, cfg : Nat]
(* Where the application is,                                               *)
AppStates == {Idle} \cup [pc : {"request"}, kind : {"add", "remove"}, slot : Slots]
             \cup [pc : {"free", "reset"}, slot : Slots]
(* where the worker is,                                                    *)
WorkerStates == {Idle} \cup [pc : {"collect"}] \cup [pc : {"reset"}, slot : Slots]
                \cup [pc : {"report"}, batch : SUBSET Nodes, failed : BOOLEAN]
(* and where the callback in the client's thread is.                       *)
ClientStates == {Idle} \cup [pc : {"compare", "persist"}, node : Nodes, hash : Digests]

(* The types of the variables, with no bound on queues, calls or faults.   *)
BridgeShape ==
    /\ slots \in [Nodes -> Children]
    /\ slots[Self].st = "ready" /\ slots[Self].id = "self"
    /\ \A s \in Slots : slots[s].st # "free" => slots[s].id \in Ids
    /\ pend \subseteq Nodes /\ inflight \subseteq Nodes
    /\ nvs \in [Things -> Digests] /\ inbox \in [Nodes -> Digests]
    /\ requests \subseteq [req : Nat, kind : {"add", "remove"}, id : Ids] /\ nreq \in Nat
    /\ app \in AppStates /\ worker \in WorkerStates /\ cb \in ClientStates
    /\ loop \in {"idle", "clear"}
    /\ queue \in Seq(BridgeTasks) /\ toCloud \in Seq(Upward) /\ fromCloud \in Seq(Downward)
    /\ events \in Seq({"ok", "fail", "up", "down"})
    /\ cloudHas \subseteq Ids /\ cloudCfg \in [Things -> Nat]
    /\ want \in [Nodes -> Nat]
    /\ armed \in BOOLEAN /\ listening \in BOOLEAN /\ up \in BOOLEAN /\ deaf \in BOOLEAN

(* A set of numbers has a least one: Min takes it.                         *)
LEMMA LeastOf ==
    ASSUME NEW S, S \subseteq Nat, S # {}
    PROVE  Min(S) \in S /\ \A y \in S : Min(S) <= y
  <1> DEFINE R == OpToRel(<, Nat)
  <1>1. IsWellFoundedOn(R, Nat)
    BY NatLessThanWellFounded
  <1>2. \A x, y \in Nat : x < y => <<x, y>> \in R
    BY DEF OpToRel
  <1> HIDE DEF R
  <1>3. PICK x \in S : \A y \in S : ~(<<y, x>> \in R)
    BY <1>1, WFMin
  <1>4. ASSUME NEW y \in S
        PROVE  x <= y
    <2>1. x \in Nat /\ y \in Nat
      OBVIOUS
    <2>2. ~(y < x)
      BY <1>2, <1>3, <2>1, Zenon
    <2> QED BY <2>1, <2>2
  <1> QED BY <1>4 DEF Min

(* The node itself is not a child.                                         *)
LEMMA NodeFacts ==
    /\ Nodes \subseteq Nat /\ Slots \subseteq Nodes /\ Self \in Nodes /\ Self \notin Slots
    /\ \A n \in Nodes : n # Self => n \in Slots
    /\ Ids \subseteq Things /\ "self" \in Things /\ NoHash \in Digests /\ FreeSlot \in Children
  BY BoundsAssumption DEF Nodes, Slots, Self, Things, NoHash, Digests, FreeSlot, Children

(* The oldest message of a queue, and the others.                          *)
LEMMA QueueFacts ==
    ASSUME NEW S, NEW s \in Seq(S), s # <<>>
    PROVE  /\ Head(s) \in S /\ Tail(s) \in Seq(S) /\ Len(s) \in Nat /\ Len(s) > 0
           /\ Head(s) = s[1] /\ 1 \in DOMAIN s
           /\ \A i \in DOMAIN Tail(s) : i + 1 \in DOMAIN s /\ Tail(s)[i] = s[i + 1]
           /\ \A i \in DOMAIN s : i # 1 => i - 1 \in DOMAIN Tail(s) /\ Tail(s)[i - 1] = s[i]
  OBVIOUS

(* A queue with one message more.                                          *)
LEMMA AppendFacts ==
    ASSUME NEW S, NEW s \in Seq(S), NEW e \in S
    PROVE  /\ Append(s, e) \in Seq(S) /\ DOMAIN s \subseteq DOMAIN Append(s, e)
           /\ \A i \in DOMAIN s : Append(s, e)[i] = s[i]
           /\ \A i \in DOMAIN Append(s, e) : i \in DOMAIN s \/ (Append(s, e)[i] = e /\ i = Len(s) + 1)
           /\ Len(s) + 1 \in DOMAIN Append(s, e) /\ Append(s, e)[Len(s) + 1] = e
  OBVIOUS

(* The task the worker takes.                                              *)
LEMMA TaskTaken ==
    ASSUME BridgeShape, NEW k, TakeTask(k)
    PROVE  /\ worker = Idle /\ Head(queue) \in BridgeTasks /\ Head(queue).kind = k
           /\ Tail(queue) \in Seq(BridgeTasks) /\ queue # <<>> /\ queue \in Seq(BridgeTasks)
  BY QueueFacts DEF TakeTask, BridgeShape

(* A publish that was accepted.                                            *)
LEMMA PublishedFacts ==
    ASSUME BridgeShape, NEW m \in Upward, Published(m)
    PROVE  /\ toCloud' = Append(toCloud, m) /\ toCloud' \in Seq(Upward) /\ up'= up
           /\ UNCHANGED <<fromCloud, cloudHas, cloudCfg>>
  BY AppendFacts DEF Published, BridgeShape

(* The checksum of a node.                                                 *)
LEMMA HashType == ASSUME BridgeShape, NEW n \in Nodes PROVE Hash(n) \in Digests
  BY DEF BridgeShape, Hash, Digests, Children

(* The next node of the batch is a node,                                   *)
LEMMA BatchFacts ==
    ASSUME BridgeShape, worker.pc = "report", worker.batch # {}
    PROVE  /\ Next1 \in Nodes /\ Next1 \in worker.batch /\ worker.batch \subseteq Nodes
           /\ worker = [pc |-> "report", batch |-> worker.batch, failed |-> worker.failed]
           /\ worker.failed \in BOOLEAN
  <1>1. /\ worker.batch \subseteq Nodes /\ worker.failed \in BOOLEAN
        /\ worker = [pc |-> "report", batch |-> worker.batch, failed |-> worker.failed]
    BY DEF BridgeShape, WorkerStates, Idle
  <1>2. worker.batch \subseteq Nat
    BY <1>1, NodeFacts
  <1>3. Min(worker.batch) \in worker.batch
    BY <1>2, LeastOf
  <1> QED BY <1>1, <1>3 DEF Next1

(* and the drain goes on with the others.                                  *)
LEMMA ReportedFacts ==
    ASSUME BridgeShape, worker.pc = "report", worker.batch # {}, NEW n, NEW f \in BOOLEAN,
           Reported(n, f)
    PROVE  /\ worker' \in WorkerStates /\ worker'.pc = "report" /\ worker'.batch = worker.batch \ {n}
           /\ worker'.failed = (worker.failed \/ f)
  <1>1. worker' = [pc |-> "report", batch |-> worker.batch \ {n}, failed |-> worker.failed \/ f]
    BY BatchFacts DEF Reported
  <1>2. (worker.failed \/ f) \in BOOLEAN /\ worker.batch \ {n} \in SUBSET Nodes
    BY BatchFacts
  <1> QED BY <1>1, <1>2 DEF WorkerStates

(* The retry context is kicked.                                            *)
LEMMA Kicked ==
    ASSUME BridgeShape, Kick
    PROVE  queue' \in Seq(BridgeTasks) /\ armed' \in BOOLEAN
  <1>1. [kind |-> "drain"] \in BridgeTasks
    BY DEF BridgeTasks
  <1>2. queue \in Seq(BridgeTasks) /\ armed \in BOOLEAN
    BY DEF BridgeShape
  <1>3. Append(queue, [kind |-> "drain"]) \in Seq(BridgeTasks)
    BY <1>1, <1>2, AppendFacts
  <1> QED BY <1>2, <1>3 DEF Kick

(* The types are kept by the calls of the application,                     *)
LEMMA AppCallShape == ASSUME BridgeShape, AppCall PROVE BridgeShape'
  <1> USE NodeFacts DEF poolVars, listVars, netVars, histVars, otherThreads
  <1>1. CASE \E id \in Ids : AddChild(id)
    <2>1. PICK id \in Ids : AddChild(id)
      BY <1>1
    <2>2. FreeSlots \subseteq Nat /\ FreeSlots # {}
      BY <2>1 DEF AddChild, FreeSlots
    <2> DEFINE s == Min(FreeSlots)
    <2>3. s \in Slots
      BY <2>2, LeastOf DEF FreeSlots
    <2> HIDE DEF s
    <2>4. /\ slots' = [slots EXCEPT ![s] = [st |-> "add", id |-> id, cfg |-> 0]]
          /\ pend' = pend \ {s} /\ inflight' = inflight \ {s}
          /\ app' = [pc |-> "request", kind |-> "add", slot |-> s]
      BY <2>1 DEF AddChild, s
    <2>5. app' \in AppStates /\ slots' \in [Nodes -> Children]
      BY <2>3, <2>4 DEF AppStates, Children, BridgeShape
    <2>6. /\ slots'[Self] = slots[Self]
          /\ \A r \in Slots : slots'[r].st # "free" => slots'[r].id \in Ids
      BY <2>3, <2>4 DEF BridgeShape
    <2>7. pend' \subseteq Nodes /\ inflight' \subseteq Nodes
      BY <2>4 DEF BridgeShape
    <2> QED BY <2>1, <2>5, <2>6, <2>7 DEF AddChild, BridgeShape
  <1>2. CASE \E s \in Slots : RemoveChild(s)
    <2>1. PICK s \in Slots : RemoveChild(s)
      BY <1>2
    <2>2. app' \in AppStates /\ slots' \in [Nodes -> Children]
      BY <2>1 DEF RemoveChild, AppStates, Children, BridgeShape
    <2> QED BY <2>1, <2>2 DEF RemoveChild, BridgeShape, Children
  <1>3. CASE \E s \in Slots : ChangeNode(s)
    <2>1. PICK s \in Slots : ChangeNode(s)
      BY <1>3
    <2>2. s \in Nodes /\ slots \in [Nodes -> Children] /\ slots' = [slots EXCEPT ![s].cfg = @ + 1]
      BY <2>1 DEF ChangeNode, BridgeShape
    <2>3. [slots[s] EXCEPT !.cfg = @ + 1] \in Children
      BY <2>2 DEF Children
    <2>4. slots' \in [Nodes -> Children]
      BY <2>2, <2>3
    <2>5. /\ slots'[Self] = slots[Self]
          /\ \A r \in Slots : slots'[r].st = slots[r].st /\ slots'[r].id = slots[r].id
      BY <2>1, <2>2 DEF Children
    <2> QED BY <2>1, <2>4, <2>5 DEF ChangeNode, BridgeShape
  <1>4. CASE \E s \in Slots : CommitDevices(s)
    <2>1. PICK s \in Slots : CommitDevices(s)
      BY <1>4
    <2>2. queue' \in Seq(BridgeTasks) /\ armed' \in BOOLEAN
      BY <2>1, Kicked DEF CommitDevices
    <2>3. want' \in [Nodes -> Nat]
      BY <2>1 DEF CommitDevices, BridgeShape, Children
    <2> QED BY <2>1, <2>2, <2>3 DEF CommitDevices, BridgeShape
  <1> QED BY <1>1, <1>2, <1>3, <1>4 DEF AppCall

(* (a request in the table,                                                *)
LEMMA RegisterFacts ==
    ASSUME BridgeShape, NEW k \in {"add", "remove"}, NEW id \in Ids, Register(k, id)
    PROVE  /\ nreq' = nreq + 1 /\ nreq' \in Nat
           /\ [req |-> nreq + 1, kind |-> k, id |-> id] \in requests'
           /\ requests' \subseteq requests \cup {[req |-> nreq + 1, kind |-> k, id |-> id]}
           /\ requests' \subseteq [req : Nat, kind : {"add", "remove"}, id : Ids]
  <1>1. PICK n \in Sweeps : /\ requests' = Swept(n) \cup {[req |-> nreq + 1, kind |-> k, id |-> id]}
                            /\ nreq' = nreq + 1
    BY DEF Register
  <1>2. Swept(n) \subseteq requests
    BY DEF Swept
  <1> QED BY <1>1, <1>2 DEF BridgeShape

(* the fields that go with where the application is,                       *)
LEMMA AppPlace ==
    ASSUME BridgeShape
    PROVE  /\ app.pc = "request" => app.kind \in {"add", "remove"} /\ app.slot \in Slots
                    /\ app = [pc |-> "request", kind |-> app.kind, slot |-> app.slot]
           /\ app.pc \in {"free", "reset"} => app.slot \in Slots
                    /\ app = [pc |-> app.pc, slot |-> app.slot]
           /\ Idle \in AppStates
  BY DEF BridgeShape, AppStates, Idle

(* a slot that is given back,)                                             *)
LEMMA FreedShape ==
    ASSUME BridgeShape, NEW t, NEW s \in Slots, TakeBAndFree(t, s)
    PROVE  /\ slots' \in [Nodes -> Children] /\ want' \in [Nodes -> Nat]
           /\ slots'[Self].st = "ready" /\ slots'[Self].id = "self"
           /\ \A r \in Slots : slots'[r].st # "free" => slots'[r].id \in Ids
  BY NodeFacts DEF TakeBAndFree, BridgeShape, FreeSlot, Children

(* by what is left of a call,                                              *)
LEMMA AppStepShape ==
    ASSUME BridgeShape, AppStep,
           app.pc = "request" => slots[app.slot].st # "free"
    PROVE BridgeShape'
  <1> USE NodeFacts DEF poolVars, listVars, netVars, histVars, otherThreads
  <1>1. CASE RequestSent
    <2> DEFINE id == slots[app.slot].id
    <2>1. /\ app.pc = "request" /\ app.slot \in Slots /\ app.kind \in {"add", "remove"} /\ id \in Ids
          /\ Register(app.kind, id)
          /\ Published([kind |-> app.kind, req |-> nreq + 1, id |-> id])
      BY <1>1, AppPlace DEF RequestSent, BridgeShape
    <2>2. [kind |-> app.kind, req |-> nreq + 1, id |-> id] \in Upward
      BY <2>1 DEF Upward, BridgeShape
    <2>3. app' \in AppStates
      BY <1>1, <2>1, AppPlace DEF RequestSent, AppStates
    <2> HIDE DEF id
    <2> QED BY <1>1, <2>1, <2>2, <2>3, RegisterFacts, PublishedFacts DEF RequestSent, BridgeShape
  <1>2. CASE RequestFailed
    <2>1. app' \in AppStates
      BY <1>2, AppPlace DEF RequestFailed, AppStates
    <2>2. nreq' \in Nat /\ requests' \subseteq requests /\ UNCHANGED netVars
      BY <1>2 DEF RequestFailed, BridgeShape, Refused, Swept
    <2> QED BY <1>2, <2>1, <2>2 DEF RequestFailed, BridgeShape
  <1>3. CASE FreeChild
    <2>1. app' \in AppStates
      BY <1>3, AppPlace DEF FreeChild, AppStates
    <2> QED BY <1>3, <2>1, AppPlace, FreedShape DEF FreeChild, BridgeShape
  <1>4. CASE FreeReset
    BY <1>4, AppPlace DEF FreeReset, ResetNode, PendingRemove, BridgeShape
  <1> QED BY <1>1, <1>2, <1>3, <1>4 DEF AppStep

(* (where the worker goes,                                                 *)
LEMMA WorkerReady ==
    /\ Idle \in WorkerStates /\ [pc |-> "collect"] \in WorkerStates
    /\ \A s \in Slots : [pc |-> "reset", slot |-> s] \in WorkerStates
    /\ \A b \in SUBSET Nodes, f \in BOOLEAN :
          [pc |-> "report", batch |-> b, failed |-> f] \in WorkerStates
    /\ Idle \in ClientStates
    /\ [kind |-> "drain"] \in BridgeTasks /\ [kind |-> "setup"] \in BridgeTasks
  BY DEF Idle, WorkerStates, ClientStates, BridgeTasks

(* and the fields that go with it,)                                        *)
LEMMA WorkerPlace ==
    ASSUME BridgeShape
    PROVE  /\ worker.pc = "reset" => worker.slot \in Slots
                  /\ worker = [pc |-> "reset", slot |-> worker.slot]
           /\ worker.pc = "collect" => worker = [pc |-> "collect"]
           /\ worker.pc = "report" => worker.batch \subseteq Nodes /\ worker.failed \in BOOLEAN
  BY DEF BridgeShape, WorkerStates, Idle

(* by the drain,                                                           *)
LEMMA DrainShape ==
    ASSUME BridgeShape,
           \/ DrainBegin \/ DrainCollect \/ ReportUnchanged \/ ReportSent \/ ReportFailed
           \/ DrainEnd \/ SetupDone \/ RetryFires
    PROVE  BridgeShape'
  <1> USE NodeFacts DEF poolVars, listVars, netVars, histVars, otherThreads
  <1>1. CASE DrainBegin
    BY <1>1, TaskTaken, WorkerReady DEF DrainBegin, BridgeShape
  <1>2. CASE DrainCollect
    <2> DEFINE batch == (pend \ inflight) \cap Ready
    <2>1. batch \in SUBSET Nodes
      BY DEF BridgeShape
    <2>2. worker' = [pc |-> "report", batch |-> batch, failed |-> FALSE] /\ inflight' = inflight \cup batch
      BY <1>2 DEF DrainCollect
    <2>3. worker' \in WorkerStates
      BY <2>1, <2>2, WorkerReady
    <2> HIDE DEF batch
    <2> QED BY <1>2, <2>1, <2>2, <2>3 DEF DrainCollect, BridgeShape
  <1>3. CASE ReportUnchanged
    <2>1. worker' \in WorkerStates
      BY <1>3, ReportedFacts DEF ReportUnchanged
    <2> QED BY <1>3, <2>1 DEF ReportUnchanged, PendingRemove, BridgeShape
  <1>4. CASE ReportSent
    <2>1. worker' \in WorkerStates /\ Next1 \in Nodes
      BY <1>4, ReportedFacts, BatchFacts DEF ReportSent
    <2>2. [kind |-> "config", hash |-> Hash(Next1)] \in Upward /\ Hash(Next1) \in Digests
      BY <2>1, HashType DEF Upward
    <2>3. /\ toCloud' \in Seq(Upward) /\ up' = up /\ UNCHANGED <<fromCloud, cloudHas, cloudCfg>>
      BY <1>4, <2>2, PublishedFacts DEF ReportSent
    <2>4. inbox' \in [Nodes -> Digests]
      BY <1>4, <2>1, <2>2 DEF ReportSent, BridgeShape
    <2> QED BY <1>4, <2>1, <2>3, <2>4 DEF ReportSent, BridgeShape
  <1>5. CASE ReportFailed
    <2>1. worker' \in WorkerStates /\ Next1 \in Nodes
      BY <1>5, ReportedFacts, BatchFacts DEF ReportFailed
    <2>2. UNCHANGED netVars /\ inbox' \in [Nodes -> Digests]
      BY <1>5, <2>1 DEF ReportFailed, Refused, BridgeShape
    <2> QED BY <1>5, <2>1, <2>2 DEF ReportFailed, ClearInflight, BridgeShape
  <1>6. CASE DrainEnd
    <2>1. armed' \in BOOLEAN
      BY <1>6, WorkerPlace DEF DrainEnd, BridgeShape
    <2> QED BY <1>6, <2>1, WorkerReady DEF DrainEnd, BridgeShape
  <1>7. CASE SetupDone
    <2>1. Tail(queue) \in Seq(BridgeTasks)
      BY <1>7, TaskTaken DEF SetupDone
    <2>2. Append(Tail(queue), [kind |-> "drain"]) \in Seq(BridgeTasks)
      BY <2>1, WorkerReady, AppendFacts
    <2>4. queue' \in Seq(BridgeTasks)
      BY <1>7, <2>1, <2>2 DEF SetupDone
    <2>3. listening' \in BOOLEAN /\ armed' \in BOOLEAN /\ deaf' \in BOOLEAN
      BY <1>7 DEF SetupDone, BridgeShape
    <2> QED BY <1>7, <2>3, <2>4 DEF SetupDone, BridgeShape
  <1>8. CASE RetryFires
    <2>1. queue' \in Seq(BridgeTasks)
      BY <1>8, WorkerReady, AppendFacts DEF RetryFires, BridgeShape
    <2> QED BY <1>8, <2>1 DEF RetryFires, BridgeShape
  <1> QED BY <1>1, <1>2, <1>3, <1>4, <1>5, <1>6, <1>7, <1>8

(* (what is in an answer of the cloud,                                     *)
LEMMA TaskKinds ==
    ASSUME NEW m \in Downward
    PROVE  /\ m \in BridgeTasks /\ m.kind \in {"answer", "ack"}
           /\ m.kind = "answer" => m.hash \in Digests /\ m.ok \in BOOLEAN /\ m.hash[1] \in Things
           /\ m.kind = "ack" => m.req \in Nat /\ m.id \in Ids /\ m.ok \in BOOLEAN
  BY DEF Downward, BridgeTasks, Digests

(* and in a task,)                                                         *)
LEMMA TaskFields ==
    ASSUME NEW m \in BridgeTasks
    PROVE  /\ m.kind = "ack" => m.req \in Nat /\ m.id \in Ids /\ m.ok \in BOOLEAN /\ m \in Downward
           /\ m.kind = "answer" => m.hash \in Digests /\ m.ok \in BOOLEAN /\ m \in Downward
  BY DEF Downward, BridgeTasks

(* by a bridgeAck,                                                         *)
LEMMA BridgeAckShape == ASSUME BridgeShape, BridgeAck PROVE BridgeShape'
  <1> USE NodeFacts DEF poolVars, listVars, netVars, histVars, otherThreads
  <1> DEFINE m == Head(queue)
             entry == AckTaken(m)
             adds == {s \in SlotOf(m.id) : slots[s].st = "add" /\ \E e \in entry : e.kind = "add"}
  <1>1. adds \subseteq Slots
    BY DEF SlotOf
  <1>2. adds # {} => Min(adds) \in Slots
    BY <1>1, LeastOf
  <1>3. Tail(queue) \in Seq(BridgeTasks)
    BY TaskTaken DEF BridgeAck
  <1>4. requests' \subseteq requests /\ queue' = Tail(queue)
    BY DEF BridgeAck
  <1>5. /\ slots' \in [Nodes -> Children] /\ want' \in [Nodes -> Nat]
        /\ slots'[Self].st = "ready" /\ slots'[Self].id = "self"
        /\ \A r \in Slots : slots'[r].st # "free" => slots'[r].id \in Ids
        /\ worker' \in WorkerStates
    <2>1. CASE adds # {} /\ TakeBAndFree("worker", Min(adds)) /\ worker' = [pc |-> "reset", slot |-> Min(adds)]
      <3>1. Min(adds) \in Slots
        BY <1>2, <2>1
      <3> QED BY <2>1, <3>1, FreedShape, WorkerReady
    <2>2. CASE /\ slots' = [n \in Nodes |-> IF n \in adds THEN [slots[n] EXCEPT !.st = "ready"] ELSE slots[n]]
               /\ UNCHANGED <<worker, want>>
      <3>1. \A n \in Nodes : slots'[n] \in Children /\ slots'[n].id = slots[n].id
                             /\ (slots'[n].st # slots[n].st => n \in adds)
        BY <2>2 DEF BridgeShape, Children
      <3>2. slots' \in [Nodes -> Children]
        BY <2>2, <3>1
      <3>3. \A n \in adds : slots[n].st # "free" /\ n # Self
        BY <1>1
      <3> HIDE DEF adds
      <3> QED BY <1>1, <2>2, <3>1, <3>2, <3>3 DEF BridgeShape
    <2>3. CASE UNCHANGED <<slots, worker, want>>
      BY <2>3 DEF BridgeShape
    <2> QED BY <2>1, <2>2, <2>3 DEF BridgeAck
  <1> HIDE DEF m, entry, adds
  <1> QED BY <1>3, <1>4, <1>5 DEF BridgeAck, BridgeShape

(* by the answers and the callback,                                        *)
LEMMA AnswerShape ==
    ASSUME BridgeShape, WorkerReset \/ SelfAnswer \/ ChildAnswer \/ ToWorker \/ CbCompare \/ CbPersist
    PROVE  BridgeShape'
  <1> USE NodeFacts DEF poolVars, listVars, netVars, histVars, otherThreads
  <1>1. CASE WorkerReset
    BY <1>1, WorkerReady DEF WorkerReset, ResetNode, PendingRemove, BridgeShape
  <1>2. CASE SelfAnswer
    <2>1. Tail(queue) \in Seq(BridgeTasks)
      BY <1>2, TaskTaken DEF SelfAnswer
    <2>2. inbox' \in [Nodes -> Digests] /\ nvs' \in [Things -> Digests]
      BY <1>2 DEF SelfAnswer, Stores, BridgeShape
    <2>3. pend' \subseteq Nodes /\ inflight' \subseteq Nodes
      BY <1>2 DEF SelfAnswer, NotAccepted, PendingRemove, ClearInflight, BridgeShape
    <2>4. queue' = Tail(queue)
      BY <1>2 DEF SelfAnswer
    <2> QED BY <1>2, <2>1, <2>2, <2>3, <2>4 DEF SelfAnswer, BridgeShape
  <1>3. CASE ChildAnswer
    <2>1. fromCloud' \in Seq(Downward)
      BY <1>3, QueueFacts DEF ChildAnswer, BridgeShape
    <2>2. /\ inbox' \in [Nodes -> Digests] /\ pend' \subseteq Nodes /\ inflight' \subseteq Nodes
          /\ cb' \in ClientStates
      <3>1. CASE UNCHANGED <<inbox, cb, pend, inflight, holes>>
        BY <3>1 DEF BridgeShape
      <3>2. ASSUME NEW s \in Slots, inbox' = [inbox EXCEPT ![s] = NoHash],
                   \/ NotAccepted(s, Head(fromCloud)) /\ UNCHANGED <<cb, holes>>
                   \/ /\ cb' = [pc |-> "compare", node |-> s, hash |-> inbox[s]]
                      /\ UNCHANGED <<pend, inflight, stuck>>
            PROVE  /\ inbox' \in [Nodes -> Digests] /\ pend' \subseteq Nodes /\ inflight' \subseteq Nodes
                   /\ cb' \in ClientStates
        <4>1. inbox[s] \in Digests /\ inbox' \in [Nodes -> Digests]
          BY <3>2 DEF BridgeShape
        <4>2. [pc |-> "compare", node |-> s, hash |-> inbox[s]] \in ClientStates
          BY <4>1 DEF ClientStates
        <4> QED BY <3>2, <4>1, <4>2 DEF NotAccepted, ClearInflight, BridgeShape
      <3> QED BY <1>3, <3>1, <3>2 DEF ChildAnswer, SlotOf
    <2> QED BY <1>3, <2>1, <2>2 DEF ChildAnswer, BridgeShape
  <1>4. CASE ToWorker
    <2>1. fromCloud' \in Seq(Downward) /\ Head(fromCloud) \in Downward
      BY <1>4, QueueFacts DEF ToWorker, BridgeShape
    <2>3. Head(fromCloud) \in BridgeTasks /\ queue \in Seq(BridgeTasks)
      BY <2>1, TaskKinds DEF BridgeShape
    <2>4. Append(queue, Head(fromCloud)) \in Seq(BridgeTasks)
      BY <2>3, AppendFacts
    <2>2. queue' \in Seq(BridgeTasks)
      BY <1>4, <2>3, <2>4 DEF ToWorker
    <2> QED BY <1>4, <2>1, <2>2 DEF ToWorker, BridgeShape
  <1>5. CASE CbCompare
    <2>2. cb \in [pc : {"compare", "persist"}, node : Nodes, hash : Digests]
      BY <1>5 DEF CbCompare, BridgeShape, ClientStates, Idle
    <2>3. [cb EXCEPT !.pc = "persist"] \in ClientStates
      BY <2>2 DEF ClientStates
    <2>1. cb' \in ClientStates
      BY <1>5, <2>3, WorkerReady DEF CbCompare
    <2> QED BY <1>5, <2>1 DEF CbCompare, ClearInflight, BridgeShape
  <1>6. CASE CbPersist
    <2>1. cb.node \in Nodes /\ cb.hash \in Digests
      BY <1>6 DEF CbPersist, BridgeShape, ClientStates, Idle
    <2>2. nvs' \in [Things -> Digests]
      BY <1>6, <2>1 DEF CbPersist, Stores, BridgeShape, Children
    <2> QED BY <1>6, <2>2, WorkerReady DEF CbPersist, PendingRemove, BridgeShape
  <1> QED BY <1>1, <1>2, <1>3, <1>4, <1>5, <1>6

(* (an empty queue,)                                                       *)
LEMMA NoMessage == ASSUME NEW S PROVE <<>> \in Seq(S) /\ DOMAIN <<>> = {}
  OBVIOUS

(* by the event loop and the connection,                                   *)
LEMMA LoopShape ==
    ASSUME BridgeShape, Loop \/ Drop \/ Connect
    PROVE  BridgeShape'
  <1> USE DEF poolVars, listVars, netVars, histVars, otherThreads
  <1> DEFINE E == {"ok", "fail", "up", "down"}
  <1>0. events \in Seq(E) /\ queue \in Seq(BridgeTasks)
    BY DEF BridgeShape
  <1>1. CASE Puback
    <2>1. events' \in Seq(E)
      BY <1>0, <1>1, QueueFacts DEF Puback
    <2> QED BY <1>1, <2>1 DEF Puback, BridgeShape
  <1>2. CASE Disconnected
    <2>1. events' \in Seq(E)
      BY <1>0, <1>2, QueueFacts DEF Disconnected
    <2> QED BY <1>2, <2>1 DEF Disconnected, BridgeShape
  <1>3. CASE ClearAllInflight
    BY <1>3 DEF ClearAllInflight, BridgeShape
  <1>4. CASE Reconnected
    <2>1. events' \in Seq(E)
      BY <1>0, <1>4, QueueFacts DEF Reconnected
    <2>2. Append(queue, [kind |-> "setup"]) \in Seq(BridgeTasks)
      BY <1>0, WorkerReady, AppendFacts
    <2>3. queue' \in Seq(BridgeTasks) /\ deaf' \in BOOLEAN
      BY <1>0, <1>4, <2>2 DEF Reconnected, BridgeShape
    <2> QED BY <1>4, <2>1, <2>3 DEF Reconnected, BridgeShape
  <1>5. CASE Drop
    <2> DEFINE C == {j \in DOMAIN toCloud : toCloud[j].kind = "config"}
               f == [i \in 1 .. Cardinality(C) |-> "fail"]
    <2>1. toCloud \in Seq(Upward) /\ DOMAIN toCloud = 1 .. Len(toCloud) /\ Len(toCloud) \in Nat
      BY DEF BridgeShape
    <2>2. IsFiniteSet(DOMAIN toCloud)
      BY <2>1, FS_Interval
    <2>3. Cardinality(C) \in Nat
      BY <2>2, FS_Subset, FS_CardinalityType
    <2>4. f \in Seq(E) /\ <<"down">> \in Seq(E)
      BY <2>3
    <2>5. events \o f \in Seq(E)
      BY <1>0, <2>4
    <2>6. (events \o f) \o <<"down">> \in Seq(E)
      BY <2>4, <2>5
    <2>7. events' = (events \o f) \o <<"down">>
      BY <1>5 DEF Drop
    <2> HIDE DEF f, C
    <2>8. events' \in Seq(E)
      BY <2>6, <2>7
    <2>10. toCloud' = <<>> /\ fromCloud' = <<>> /\ up' = FALSE
      BY <1>5 DEF Drop
    <2>9. toCloud' \in Seq(Upward) /\ fromCloud' \in Seq(Downward) /\ up' \in BOOLEAN
      BY <2>10, NoMessage
    <2> QED BY <1>5, <2>8, <2>9 DEF Drop, BridgeShape
  <1>6. CASE Connect
    <2>1. events' \in Seq(E)
      BY <1>0, <1>6, AppendFacts DEF Connect
    <2> QED BY <1>6, <2>1 DEF Connect, BridgeShape
  <1> QED BY <1>1, <1>2, <1>3, <1>4, <1>5, <1>6 DEF Loop

(* (the cloud's answer,                                                    *)
LEMMA ReplyType ==
    ASSUME NEW m \in Upward, NEW ok \in BOOLEAN
    PROVE  /\ Reply(m, ok) \in Downward
           /\ m.kind \in {"add", "remove", "config"}
           /\ m.kind # "config" => m.req \in Nat /\ m.id \in Ids
           /\ m.kind = "config" => m.hash \in Digests /\ m.hash[1] \in Things /\ m.hash[2] \in Nat
  BY DEF Reply, Upward, Downward, Digests

(* and what it has done,)                                                  *)
LEMMA CarryFacts ==
    ASSUME BridgeShape, NEW m \in Upward, Carry(m)
    PROVE  /\ m.kind = "add" => cloudHas' = cloudHas \cup {m.id} /\ cloudCfg' = cloudCfg
           /\ m.kind = "remove" => cloudHas' = cloudHas \ {m.id}
                                   /\ cloudCfg' = [cloudCfg EXCEPT ![m.id] = 0]
           /\ m.kind = "config" => cloudHas' = cloudHas
                                   /\ cloudCfg' = [cloudCfg EXCEPT ![m.hash[1]] = m.hash[2]]
           /\ cloudHas' \subseteq Ids /\ cloudCfg' \in [Things -> Nat]
  <1>1. /\ m.kind = "add" => cloudHas' = cloudHas \cup {m.id} /\ cloudCfg' = cloudCfg
        /\ m.kind = "remove" => cloudHas' = cloudHas \ {m.id}
                                /\ cloudCfg' = [cloudCfg EXCEPT ![m.id] = 0]
        /\ m.kind = "config" => cloudHas' = cloudHas
                                /\ cloudCfg' = [cloudCfg EXCEPT ![m.hash[1]] = m.hash[2]]
    BY DEF Carry
  <1> QED BY <1>1, ReplyType, NodeFacts DEF BridgeShape

(* and by the cloud.                                                       *)
LEMMA CloudShape == ASSUME BridgeShape, Cloud PROVE BridgeShape'
  <1> USE DEF poolVars, listVars, netVars, histVars, otherThreads
  <1> DEFINE m == Head(toCloud)
  <1>1. m \in Upward /\ Tail(toCloud) \in Seq(Upward) /\ toCloud' = Tail(toCloud)
    BY QueueFacts DEF Cloud, BridgeShape
  <1>2. events' \in Seq({"ok", "fail", "up", "down"})
    BY AppendFacts DEF Cloud, BridgeShape
  <1>3. Reply(m, TRUE) \in Downward /\ Reply(m, FALSE) \in Downward /\ fromCloud \in Seq(Downward)
    BY <1>1, ReplyType DEF BridgeShape
  <1>4. /\ Append(fromCloud, Reply(m, TRUE)) \in Seq(Downward)
        /\ Append(fromCloud, Reply(m, FALSE)) \in Seq(Downward)
        /\ fromCloud \o <<Reply(m, TRUE), Reply(m, TRUE)>> \in Seq(Downward)
    <2> DEFINE a == Reply(m, TRUE)
               b == Reply(m, FALSE)
    <2>1. a \in Downward /\ b \in Downward /\ fromCloud \in Seq(Downward)
      BY <1>3
    <2> HIDE DEF a, b
    <2>2. <<a, a>> \in Seq(Downward)
      BY <2>1
    <2>3. fromCloud \o <<a, a>> \in Seq(Downward)
      BY <2>1, <2>2
    <2>4. Append(fromCloud, a) \in Seq(Downward) /\ Append(fromCloud, b) \in Seq(Downward)
      BY <2>1, AppendFacts
    <2> QED BY <2>3, <2>4 DEF a, b
  <1> HIDE DEF m
  <1>5. fromCloud' \in Seq(Downward)
    BY <1>3, <1>4 DEF Cloud, m
  <1>6. cloudHas' \subseteq Ids /\ cloudCfg' \in [Things -> Nat]
    <2>1. CASE Carry(m)
      BY <1>1, <2>1, CarryFacts
    <2>2. CASE m.kind = "add" /\ cloudHas' = cloudHas \cup {m.id} /\ UNCHANGED cloudCfg
      BY <1>1, <2>2, ReplyType DEF BridgeShape
    <2>3. CASE UNCHANGED <<cloudHas, cloudCfg>>
      BY <2>3 DEF BridgeShape
    <2> QED BY <2>1, <2>2, <2>3 DEF Cloud, m
  <1> QED BY <1>1, <1>2, <1>5, <1>6 DEF Cloud, BridgeShape

(* While a request is made the slot waits for it.                          *)
Requested == app.pc = "request" => slots[app.slot].st = app.kind

(* The types hold initially,                                               *)
LEMMA ShapeInit == Init => BridgeShape
  <1> SUFFICES ASSUME Init PROVE BridgeShape
    OBVIOUS
  <1>1. slots \in [Nodes -> Children] /\ slots[Self].st = "ready" /\ slots[Self].id = "self"
        /\ \A s \in Slots : slots[s].st # "free" => slots[s].id \in Ids
    BY NodeFacts DEF Init, Children, FreeSlot
  <1>2. queue \in Seq(BridgeTasks)
    BY WorkerReady DEF Init
  <1>3. nvs \in [Things -> Digests] /\ inbox \in [Nodes -> Digests]
    BY NodeFacts DEF Init
  <1>4. app \in AppStates /\ worker \in WorkerStates /\ cb \in ClientStates
    BY WorkerReady DEF Init, AppStates
  <1>5. cloudCfg \in [Things -> Nat] /\ want \in [Nodes -> Nat]
    BY DEF Init
  <1>6. /\ toCloud \in Seq(Upward) /\ fromCloud \in Seq(Downward)
        /\ events \in Seq({"ok", "fail", "up", "down"}) /\ nreq \in Nat
        /\ requests \subseteq [req : Nat, kind : {"add", "remove"}, id : Ids]
        /\ pend \subseteq Nodes /\ inflight \subseteq Nodes /\ cloudHas \subseteq Ids
        /\ loop \in {"idle", "clear"} /\ armed \in BOOLEAN /\ listening \in BOOLEAN
        /\ up \in BOOLEAN /\ deaf \in BOOLEAN
    <2>1. toCloud = <<>> /\ fromCloud = <<>> /\ events = <<>>
      BY DEF Init
    <2>2. /\ toCloud \in Seq(Upward) /\ fromCloud \in Seq(Downward)
          /\ events \in Seq({"ok", "fail", "up", "down"})
      BY <2>1, NoMessage
    <2> QED BY <2>2, NodeFacts DEF Init
  <1> QED BY <1>1, <1>2, <1>3, <1>4, <1>5, <1>6 DEF BridgeShape

(* and every step keeps them.                                              *)
LEMMA ShapeNext ==
    ASSUME BridgeShape, Requested, [Next]_vars PROVE BridgeShape'
  <1>1. CASE AppCall
    BY <1>1, AppCallShape
  <1>2. CASE AppStep
    BY <1>2, AppStepShape, AppPlace DEF Requested
  <1>3. CASE Worker
    BY <1>3, DrainShape, BridgeAckShape, AnswerShape DEF Worker
  <1>4. CASE RetryFires
    BY <1>4, DrainShape
  <1>5. CASE Client
    BY <1>5, AnswerShape DEF Client
  <1>6. CASE Loop \/ Drop \/ Connect
    BY <1>6, LoopShape
  <1>7. CASE Cloud
    BY <1>7, CloudShape
  <1>8. CASE UNCHANGED vars
    BY <1>8 DEF vars, BridgeShape, poolVars, listVars, netVars, histVars
  <1> QED BY <1>1, <1>2, <1>3, <1>4, <1>5, <1>6, <1>7, <1>8 DEF Next

-----------------------------------------------------------------------------
(* The cloud has the READY children.                                       *)

(* What is in a queue.                                                     *)
Elements(s) == {s[i] : i \in DOMAIN s}
(* The bridgeAcks on their way,                                            *)
Acks == {m \in Elements(fromCloud) \cup Elements(queue) : m.kind = "ack"}
(* and the requests on theirs.                                             *)
Asked == {m \in Elements(toCloud) : m.kind # "config"}

(* What is in a queue was its oldest or is in the rest;                    *)
LEMMA TailElements ==
    ASSUME NEW S, NEW s \in Seq(S), s # <<>>
    PROVE  /\ Elements(s) = {Head(s)} \cup Elements(Tail(s)) /\ Elements(s) \subseteq S
           /\ Head(s) \in Elements(s) /\ Elements(Tail(s)) \subseteq Elements(s)
  <1>1. /\ Head(s) = s[1] /\ 1 \in DOMAIN s
        /\ \A i \in DOMAIN Tail(s) : i + 1 \in DOMAIN s /\ Tail(s)[i] = s[i + 1]
        /\ \A i \in DOMAIN s : i # 1 => i - 1 \in DOMAIN Tail(s) /\ Tail(s)[i - 1] = s[i]
    BY QueueFacts
  <1>2. \A i \in DOMAIN s : s[i] \in S
    OBVIOUS
  <1>3. \A i \in DOMAIN s : s[i] \in {Head(s)} \cup Elements(Tail(s))
    BY <1>1 DEF Elements
  <1>4. \A i \in DOMAIN Tail(s) : Tail(s)[i] \in Elements(s)
    BY <1>1 DEF Elements
  <1>5. Head(s) \in Elements(s)
    BY <1>1 DEF Elements
  <1> QED BY <1>2, <1>3, <1>4, <1>5 DEF Elements

(* one more is in it once it was appended;                                 *)
LEMMA AppendElements ==
    ASSUME NEW S, NEW s \in Seq(S), NEW e \in S
    PROVE  Elements(Append(s, e)) = Elements(s) \cup {e}
  <1>1. \A i \in DOMAIN Append(s, e) : Append(s, e)[i] \in Elements(s) \cup {e}
    BY AppendFacts DEF Elements
  <1>2. \A i \in DOMAIN s : s[i] \in Elements(Append(s, e))
    BY AppendFacts DEF Elements
  <1>3. e \in Elements(Append(s, e))
    BY AppendFacts DEF Elements
  <1> QED BY <1>1, <1>2, <1>3 DEF Elements

(* nothing is in an empty one.                                             *)
LEMMA EmptyElements == Elements(<<>>) = {}
  BY NoMessage DEF Elements

(* No two slots have one id.                                               *)
Apart == \A s, r \in Slots : /\ slots[s].st # "free" /\ slots[r].st # "free"
                             /\ slots[s].id = slots[r].id
                             => s = r

(* A slot whose add was requested, and that no call gives back.            *)
Granting(s) == slots[s].st = "add" /\ ~(app.pc \in {"request", "free"} /\ app.slot = s)

(* An add in the table has its slot, and there is one for an id.           *)
Tables ==
    /\ \A e \in requests : /\ e.req <= nreq
                           /\ e.kind = "add" => \E s \in Slots : Granting(s) /\ slots[s].id = e.id
    /\ \A e, f \in requests : e.kind = "add" /\ f.kind = "add" /\ e.id = f.id => e.req = f.req

(* Requests reach the cloud in the order of their numbers.                 *)
InOrder ==
    \A i, j \in DOMAIN toCloud :
        /\ toCloud[i].kind # "config" => toCloud[i].req <= nreq
        /\ toCloud[i].kind # "config" /\ toCloud[j].kind # "config" /\ i < j
              => toCloud[i].req < toCloud[j].req

(* A bridgeAck answers a request that was made before all that are on      *)
(* their way; when it grants an add that is in the table, the cloud has    *)
(* the child.                                                              *)
Answered ==
    /\ \A a \in Acks : a.req <= nreq /\ \A m \in Asked : a.req < m.req
    /\ \A e \in requests, a \in Acks :
          a.req = e.req => a.id = e.id /\ (e.kind = "add" /\ a.ok => e.id \in cloudHas)

(* A request on its way is the one in the table, and no removal overtakes  *)
(* an add that is in the table.                                            *)
Asking ==
    \A e \in requests, m \in Asked :
        /\ m.req = e.req => m.kind = e.kind /\ m.id = e.id
        /\ e.kind = "add" /\ m.kind = "remove" /\ m.id = e.id => m.req < e.req

(* The cloud has the READY children, and nothing on its way removes one.   *)
Held == \A s \in Slots : slots[s].st = "ready" =>
            /\ slots[s].id \in cloudHas
            /\ \A m \in Asked : ~(m.kind = "remove" /\ m.id = slots[s].id)

(* The inductive invariant of ReadyIsKnown.                                *)
KnownInv == BridgeShape /\ Apart /\ Requested /\ Tables /\ InOrder /\ Answered /\ Asking /\ Held

(* The oldest request has the least number;                                *)
LEMMA Ordered ==
    ASSUME BridgeShape, InOrder, toCloud # <<>>
    PROVE  LET m == Head(toCloud) IN
           /\ m \in Elements(toCloud) /\ m \in Upward
           /\ m.kind # "config" => \A n \in Elements(Tail(toCloud)) : n.kind # "config" => m.req < n.req
  <1>1. /\ Head(toCloud) = toCloud[1] /\ 1 \in DOMAIN toCloud /\ Head(toCloud) \in Upward
        /\ \A i \in DOMAIN Tail(toCloud) : i + 1 \in DOMAIN toCloud /\ Tail(toCloud)[i] = toCloud[i + 1]
    BY QueueFacts DEF BridgeShape
  <1>2. \A i \in DOMAIN Tail(toCloud) : i \in Nat /\ i >= 1
    BY QueueFacts DEF BridgeShape
  <1> QED BY <1>1, <1>2 DEF InOrder, Elements

(* the order stays when it is taken,                                       *)
LEMMA InOrderTail ==
    ASSUME BridgeShape, InOrder, toCloud # <<>>, toCloud' = Tail(toCloud), nreq' = nreq
    PROVE  InOrder'
  <1>1. \A i \in DOMAIN Tail(toCloud) : i \in Nat /\ i + 1 \in DOMAIN toCloud /\ Tail(toCloud)[i] = toCloud[i + 1]
    BY QueueFacts DEF BridgeShape
  <1>2. \A i \in DOMAIN toCloud' : i \in Nat /\ i + 1 \in DOMAIN toCloud /\ toCloud'[i] = toCloud[i + 1]
    BY <1>1
  <1> QED BY <1>2 DEF InOrder

(* and when a new one is sent.                                             *)
LEMMA InOrderAppend ==
    ASSUME BridgeShape, InOrder, NEW m \in Upward, toCloud' = Append(toCloud, m), nreq' \in Nat, nreq <= nreq',
           m.kind # "config" => m.req = nreq' /\ nreq < nreq'
    PROVE  InOrder'
  <1>1. /\ \A i \in DOMAIN toCloud' : i \in Nat /\ ((i \in DOMAIN toCloud /\ toCloud'[i] = toCloud[i])
                                        \/ (toCloud'[i] = m /\ i = Len(toCloud) + 1))
        /\ \A i \in DOMAIN toCloud : i \in Nat /\ i < Len(toCloud) + 1 /\ toCloud[i] \in Upward
        /\ Len(toCloud) \in Nat
    BY AppendFacts DEF BridgeShape
  <1>2. nreq \in Nat
    BY DEF BridgeShape
  <1>3. \A i \in DOMAIN toCloud : toCloud[i].kind # "config" => toCloud[i].req \in Nat
    BY <1>1, ReplyType
  <1> QED BY <1>1, <1>2, <1>3 DEF InOrder

(* A step that leaves the pool and the table alone and adds no bridgeAck   *)
(* and no request keeps the invariant.                                     *)
LEMMA KnownFrame ==
    ASSUME KnownInv, BridgeShape',
           \A n \in Nodes : slots'[n].st = slots[n].st /\ slots'[n].id = slots[n].id,
           UNCHANGED <<requests, nreq, app, cloudHas>>,
           Acks' \subseteq Acks, Asked' \subseteq Asked, InOrder'
    PROVE  KnownInv'
  <1>1. \A n \in Slots : slots'[n].st = slots[n].st /\ slots'[n].id = slots[n].id
    BY NodeFacts
  <1>2. Apart'
    BY <1>1 DEF KnownInv, Apart
  <1>3. Requested'
    BY <1>1, AppPlace DEF KnownInv, Requested
  <1>4. Tables'
    BY <1>1 DEF KnownInv, Tables, Granting
  <1>5. Answered'
    BY DEF KnownInv, Answered
  <1>6. Asking'
    BY DEF KnownInv, Asking
  <1>7. Held'
    BY <1>1 DEF KnownInv, Held
  <1> QED BY <1>2, <1>3, <1>4, <1>5, <1>6, <1>7 DEF KnownInv

(* The numbers of requests and bridgeAcks.                                 *)
LEMMA MessageFacts ==
    ASSUME BridgeShape
    PROVE  /\ \A a \in Acks : a \in Downward /\ a.req \in Nat
           /\ \A m \in Asked : m \in Upward /\ m.kind \in {"add", "remove"} /\ m.req \in Nat /\ m.id \in Ids
           /\ \A e \in requests : e.req \in Nat /\ e.id \in Ids /\ e.kind \in {"add", "remove"}
           /\ nreq \in Nat
  <1>1. \A a \in Acks : a \in BridgeTasks /\ a.kind = "ack"
    <2>1. Elements(fromCloud) \subseteq Downward /\ Elements(queue) \subseteq BridgeTasks
      BY DEF BridgeShape, Elements
    <2> QED BY <2>1, TaskKinds DEF Acks
  <1>2. Elements(toCloud) \subseteq Upward
    BY DEF BridgeShape, Elements
  <1> QED BY <1>1, <1>2, TaskFields, ReplyType DEF Asked, BridgeShape

(* A task put in the queue,                                                *)
LEMMA QueueGrows ==
    ASSUME BridgeShape, NEW t \in BridgeTasks, queue' = Append(queue, t), UNCHANGED fromCloud
    PROVE  t.kind # "ack" => Acks' = Acks
  BY AppendElements DEF Acks, BridgeShape

(* and one taken from it.                                                  *)
LEMMA QueueShrinks ==
    ASSUME BridgeShape, queue # <<>>, queue' = Tail(queue), UNCHANGED fromCloud
    PROVE  /\ Acks' \subseteq Acks
           /\ Head(queue).kind = "ack" => Head(queue) \in Acks
  BY TailElements DEF Acks, BridgeShape

(* A child is added,                                                       *)
LEMMA AddChildKnown == ASSUME KnownInv, BridgeShape', NEW id \in Ids, AddChild(id) PROVE KnownInv'
  <1> DEFINE s == Min(FreeSlots)
  <1>1. s \in Slots /\ slots[s].st = "free"
    <2>1. FreeSlots \subseteq Nat /\ FreeSlots # {}
      BY NodeFacts DEF AddChild, FreeSlots
    <2> QED BY <2>1, LeastOf DEF FreeSlots
  <1>2. /\ slots' = [slots EXCEPT ![s] = [st |-> "add", id |-> id, cfg |-> 0]]
        /\ app = Idle /\ app' = [pc |-> "request", kind |-> "add", slot |-> s]
        /\ SlotOf(id) = {}
        /\ UNCHANGED <<requests, nreq, queue, toCloud, fromCloud, cloudHas>>
    BY DEF AddChild, netVars
  <1> HIDE DEF s
  <1>3. \A r \in Slots : r # s => slots'[r] = slots[r]
    BY <1>1, <1>2, NodeFacts DEF KnownInv, BridgeShape
  <1>4. slots'[s].st = "add" /\ slots'[s].id = id
    BY <1>1, <1>2, NodeFacts DEF KnownInv, BridgeShape
  <1>5. \A r \in Slots : slots[r].st # "free" => slots[r].id # id
    BY <1>2 DEF SlotOf
  <1>6. Apart'
    BY <1>3, <1>4, <1>5 DEF KnownInv, Apart
  <1>7. Requested'
    BY <1>2, <1>4 DEF Requested
  <1>8. Tables'
    <2>1. \A r \in Slots : Granting(r) => r # s /\ Granting(r)' /\ slots'[r].id = slots[r].id
      BY <1>1, <1>2, <1>3 DEF Granting
    <2> QED BY <1>2, <2>1 DEF KnownInv, Tables
  <1>9. Acks' = Acks /\ Asked' = Asked /\ InOrder'
    BY <1>2 DEF Acks, Asked, Elements, KnownInv, InOrder
  <1>10. Answered' /\ Asking'
    BY <1>2, <1>9 DEF KnownInv, Answered, Asking
  <1>11. Held'
    BY <1>2, <1>3, <1>4, <1>9 DEF KnownInv, Held
  <1> QED BY <1>6, <1>7, <1>8, <1>9, <1>10, <1>11 DEF KnownInv

(* removed,                                                                *)
LEMMA RemoveChildKnown == ASSUME KnownInv, BridgeShape', NEW s \in Slots, RemoveChild(s) PROVE KnownInv'
  <1>2. /\ slots' = [slots EXCEPT ![s].st = "remove"] /\ slots[s].st = "ready"
        /\ app = Idle /\ app' = [pc |-> "request", kind |-> "remove", slot |-> s]
        /\ UNCHANGED <<requests, nreq, queue, toCloud, fromCloud, cloudHas>>
    BY DEF RemoveChild, netVars
  <1>3. \A r \in Slots : /\ r # s => slots'[r] = slots[r]
                         /\ slots'[r].id = slots[r].id
    BY <1>2, NodeFacts DEF KnownInv, BridgeShape, Children
  <1>4. slots'[s].st = "remove"
    BY <1>2, NodeFacts DEF KnownInv, BridgeShape, Children
  <1>6. Apart'
    BY <1>2, <1>3, <1>4 DEF KnownInv, Apart
  <1>7. Requested'
    BY <1>2, <1>4 DEF Requested
  <1>8. Tables'
    <2>1. \A r \in Slots : Granting(r) => r # s /\ Granting(r)' /\ slots'[r].id = slots[r].id
      BY <1>2, <1>3 DEF Granting
    <2> QED BY <1>2, <2>1 DEF KnownInv, Tables
  <1>9. Acks' = Acks /\ Asked' = Asked /\ InOrder'
    BY <1>2 DEF Acks, Asked, Elements, KnownInv, InOrder
  <1>10. Answered' /\ Asking'
    BY <1>2, <1>9 DEF KnownInv, Answered, Asking
  <1>11. Held'
    BY <1>2, <1>3, <1>4, <1>9 DEF KnownInv, Held
  <1> QED BY <1>6, <1>7, <1>8, <1>9, <1>10, <1>11 DEF KnownInv

(* its request is registered and published,                                *)
LEMMA RequestSentKnown == ASSUME KnownInv, BridgeShape', RequestSent PROVE KnownInv'
  <1> DEFINE id == slots[app.slot].id
             m == [kind |-> app.kind, req |-> nreq + 1, id |-> id]
             e == [req |-> nreq + 1, kind |-> app.kind, id |-> id]
  <1>1. /\ app.pc = "request" /\ app.slot \in Slots /\ app.kind \in {"add", "remove"}
        /\ slots[app.slot].st = app.kind /\ id \in Ids
    BY AppPlace DEF RequestSent, KnownInv, Requested, BridgeShape
  <1>2. m \in Upward /\ nreq \in Nat
    BY <1>1 DEF Upward, KnownInv, BridgeShape
  <1>3. Register(app.kind, id) /\ Published(m)
    BY DEF RequestSent
  <1>4. /\ app' = IF app.kind = "add" THEN Idle ELSE [pc |-> "free", slot |-> app.slot]
        /\ UNCHANGED <<slots, queue>>
    BY DEF RequestSent
  <1>5. m.req = nreq + 1 /\ m.kind = app.kind /\ m.id = id /\ e.req = nreq + 1 /\ e.kind = app.kind /\ e.id = id
    OBVIOUS
  <1>6. nreq' = nreq + 1 /\ requests' \subseteq requests \cup {e}
    BY <1>1, <1>3, RegisterFacts DEF KnownInv
  <1>7. toCloud' = Append(toCloud, m) /\ UNCHANGED <<fromCloud, cloudHas>>
    BY <1>2, <1>3, PublishedFacts DEF KnownInv
  <1> HIDE DEF m, e, id
  <1>8. InOrder'
    BY <1>2, <1>5, <1>6, <1>7, InOrderAppend DEF KnownInv
  <1>9. Asked' \subseteq Asked \cup {m} /\ Acks' = Acks
    <2>1. Elements(toCloud') = Elements(toCloud) \cup {m}
      BY <1>2, <1>7, AppendElements DEF KnownInv, BridgeShape
    <2> QED BY <1>4, <1>7, <2>1 DEF Asked, Acks, Elements
  <1>10. \A n \in Asked : n.req <= nreq
    BY DEF KnownInv, InOrder, Asked, Elements
  <1>11. \A a \in Acks : a.req <= nreq /\ a.req \in Nat
    BY MessageFacts DEF KnownInv, Answered
  <1>12. \A f \in requests : f.req <= nreq /\ f.req \in Nat
    BY MessageFacts DEF KnownInv, Tables
  <1>13. \A f \in requests : f.kind = "add" => f.id # id
    <2> SUFFICES ASSUME NEW f \in requests, f.kind = "add", f.id = id PROVE FALSE
      OBVIOUS
    <2>1. PICK s \in Slots : Granting(s) /\ slots[s].id = f.id
      BY DEF KnownInv, Tables
    <2>2. s # app.slot /\ slots[s].st = "add"
      BY <1>1, <2>1 DEF Granting
    <2> QED BY <1>1, <2>1, <2>2 DEF KnownInv, Apart, id
  <1>14. Answered'
    <2>1. \A a \in Acks' : a.req <= nreq' /\ \A n \in Asked' : a.req < n.req
      BY <1>2, <1>5, <1>6, <1>9, <1>11 DEF KnownInv, Answered
    <2>2. \A f \in requests', a \in Acks' : a.req = f.req => a.id = f.id /\ (f.kind = "add" /\ a.ok => f.id \in cloudHas')
      BY <1>2, <1>5, <1>6, <1>7, <1>9, <1>11 DEF KnownInv, Answered
    <2> QED BY <2>1, <2>2 DEF Answered
  <1>15. Asking'
    <2> SUFFICES ASSUME NEW f \in requests', NEW n \in Asked'
                 PROVE  /\ n.req = f.req => n.kind = f.kind /\ n.id = f.id
                        /\ f.kind = "add" /\ n.kind = "remove" /\ n.id = f.id => n.req < f.req
      BY DEF Asking
    <2>1. CASE f \in requests /\ n \in Asked
      BY <2>1 DEF KnownInv, Asking
    <2>2. CASE f = e /\ n \in Asked
      BY <1>2, <1>5, <1>10, <2>2, MessageFacts DEF KnownInv
    <2>3. CASE f \in requests /\ n = m
      BY <1>2, <1>5, <1>12, <1>13, <2>3
    <2>4. CASE f = e /\ n = m
      BY <1>5, <2>4
    <2> QED BY <1>6, <1>9, <2>1, <2>2, <2>3, <2>4
  <1>16. Apart' /\ Requested'
    BY <1>1, <1>4, NodeFacts DEF KnownInv, Apart, Requested, Idle
  <1>17. Tables'
    <2>1. \A s \in Slots : Granting(s) => Granting(s)' /\ slots'[s].id = slots[s].id
      BY <1>1, <1>4 DEF Granting, Idle
    <2>2. \A s \in Slots : app.kind = "add" /\ s = app.slot => Granting(s)' /\ slots'[s].id = id
      BY <1>1, <1>4 DEF Granting, Idle, id
    <2>5. \A f \in requests : f.kind = "add" => \E s \in Slots : Granting(s)' /\ slots'[s].id = f.id
      BY <2>1 DEF KnownInv, Tables
    <2>6. e.kind = "add" => \E s \in Slots : Granting(s)' /\ slots'[s].id = e.id
      BY <1>1, <1>5, <2>2
    <2>7. \A f \in requests' : f.req <= nreq'
      BY <1>2, <1>5, <1>6, <1>12
    <2>3. \A f \in requests' : /\ f.req <= nreq'
                               /\ f.kind = "add" => \E s \in Slots : Granting(s)' /\ slots'[s].id = f.id
      BY <1>6, <2>5, <2>6, <2>7
    <2>4. \A f, g \in requests' : f.kind = "add" /\ g.kind = "add" /\ f.id = g.id => f.req = g.req
      BY <1>5, <1>6, <1>13 DEF KnownInv, Tables
    <2> QED BY <2>3, <2>4 DEF Tables
  <1>18. Held'
    <2>1. app.kind = "remove" => \A s \in Slots : slots[s].st = "ready" => slots[s].id # id
      BY <1>1 DEF KnownInv, Apart, id
    <2> QED BY <1>4, <1>5, <1>7, <1>9, <2>1 DEF KnownInv, Held
  <1> QED BY <1>8, <1>14, <1>15, <1>16, <1>17, <1>18 DEF KnownInv

(* or is not;                                                              *)
LEMMA RequestFailedKnown == ASSUME KnownInv, BridgeShape', RequestFailed PROVE KnownInv'
  <1>1. /\ requests' \subseteq requests /\ nreq <= nreq' /\ nreq' \in Nat /\ nreq \in Nat
        /\ UNCHANGED <<slots, queue, toCloud, fromCloud, cloudHas>>
        /\ app.pc = "request"
        /\ app' = IF app.kind = "add" THEN [pc |-> "free", slot |-> app.slot] ELSE Idle
    BY DEF RequestFailed, Refused, Swept, netVars, KnownInv, BridgeShape
  <1>2. Acks' = Acks /\ Asked' = Asked
    BY <1>1 DEF Acks, Asked, Elements
  <1>3. Apart' /\ Requested' /\ Held'
    BY <1>1, <1>2 DEF KnownInv, Apart, Requested, Held, Idle
  <1>4. \A s \in Slots : Granting(s) => Granting(s)' /\ slots'[s].id = slots[s].id
    BY <1>1 DEF Granting, Idle
  <1>5. Tables'
    BY <1>1, <1>4, MessageFacts DEF KnownInv, Tables
  <1>6. InOrder'
    <2>1. \A i \in DOMAIN toCloud : toCloud[i].kind # "config" => toCloud[i].req \in Nat
      BY ReplyType DEF KnownInv, BridgeShape
    <2> QED BY <1>1, <2>1 DEF KnownInv, InOrder
  <1>7. Answered' /\ Asking'
    BY <1>1, <1>2, MessageFacts DEF KnownInv, Answered, Asking
  <1> QED BY <1>3, <1>5, <1>6, <1>7 DEF KnownInv

(* its slot is given back.                                                 *)
LEMMA FreeChildKnown == ASSUME KnownInv, BridgeShape', FreeChild PROVE KnownInv'
  <1>1. /\ app.pc = "free" /\ app.slot \in Slots /\ slots' = [slots EXCEPT ![app.slot] = FreeSlot]
        /\ app'.pc = "reset"
        /\ UNCHANGED <<requests, nreq, queue, toCloud, fromCloud, cloudHas>>
    BY AppPlace DEF FreeChild, TakeBAndFree, netVars, KnownInv
  <1>2. Acks' = Acks /\ Asked' = Asked
    BY <1>1 DEF Acks, Asked, Elements
  <1>3. /\ \A s \in Slots : s # app.slot => slots'[s] = slots[s]
        /\ slots'[app.slot].st = "free"
    BY <1>1, NodeFacts DEF KnownInv, BridgeShape, FreeSlot
  <1>4. Apart' /\ Requested' /\ Held'
    BY <1>1, <1>2, <1>3 DEF KnownInv, Apart, Requested, Held
  <1>5. \A s \in Slots : Granting(s) => Granting(s)' /\ slots'[s].id = slots[s].id
    BY <1>1, <1>3 DEF Granting
  <1>6. Tables' /\ InOrder' /\ Answered' /\ Asking'
    BY <1>1, <1>2, <1>5 DEF KnownInv, Tables, InOrder, Answered, Asking
  <1> QED BY <1>4, <1>6 DEF KnownInv

(* A bridgeAck promotes only the child whose add is in the table: a late   *)
(* or second one has lost its entry.                                       *)
LEMMA BridgeAckKnown == ASSUME KnownInv, BridgeShape', BridgeAck PROVE KnownInv'
  <1> DEFINE m == Head(queue)
             entry == AckTaken(m)
             adds == {s \in SlotOf(m.id) : slots[s].st = "add" /\ \E e \in entry : e.kind = "add"}
  <1>1. /\ m \in BridgeTasks /\ m.kind = "ack" /\ queue # <<>>
        /\ queue' = Tail(queue) /\ requests' = requests \ entry
        /\ UNCHANGED <<nreq, app, toCloud, fromCloud, cloudHas>>
    BY TaskTaken DEF BridgeAck, netVars, KnownInv
  <1>2. m \in Acks /\ Acks' \subseteq Acks /\ Asked' = Asked
    BY <1>1, QueueShrinks DEF KnownInv, Asked, Elements
  <1>3. entry = {e \in requests : e.req = m.req}
    BY DEF AckTaken
  <1>4. adds \subseteq Slots
    BY DEF SlotOf
  <1>5. ASSUME NEW s \in adds
        PROVE  /\ slots[s].st = "add" /\ slots[s].id = m.id
               /\ \E e \in requests : e.req = m.req /\ e.kind = "add" /\ e.id = m.id /\ slots[s].id = e.id
               /\ Granting(s)
    <2>1. slots[s].st = "add" /\ slots[s].id = m.id /\ s \in Slots
      BY DEF SlotOf
    <2>2. PICK e \in requests : e.req = m.req /\ e.kind = "add"
      BY <1>3
    <2>3. e.id = m.id
      BY <1>2, <2>2 DEF KnownInv, Answered
    <2>4. PICK r \in Slots : Granting(r) /\ slots[r].id = e.id
      BY <2>2 DEF KnownInv, Tables
    <2>5. r = s
      BY <2>1, <2>3, <2>4 DEF KnownInv, Apart, Granting
    <2> QED BY <2>1, <2>2, <2>3, <2>4, <2>5
  <1> HIDE DEF m, entry
  <1>6. \A s, r \in adds : s = r
    BY <1>4, <1>5 DEF KnownInv, Apart
  <1>7. ASSUME NEW s \in Slots, NEW e \in requests', e.kind = "add", slots[s].id = e.id, Granting(s)
        PROVE  s \notin adds
    <2> SUFFICES ASSUME s \in adds PROVE FALSE
      OBVIOUS
    <2>1. PICK f \in requests : f.req = m.req /\ f.kind = "add" /\ f.id = slots[s].id
      BY <1>5
    <2>2. e \in requests /\ e.req # m.req
      BY <1>1, <1>3
    <2> QED BY <1>7, <2>1, <2>2 DEF KnownInv, Tables
  <1>8. \/ /\ m.ok /\ adds # {}
           /\ slots' = [n \in Nodes |-> IF n \in adds THEN [slots[n] EXCEPT !.st = "ready"] ELSE slots[n]]
        \/ adds # {} /\ slots' = [slots EXCEPT ![Min(adds)] = FreeSlot]
        \/ slots' = slots
    BY DEF BridgeAck, TakeBAndFree, m, entry
  <1>9. adds # {} => Min(adds) \in adds
    BY <1>4, NodeFacts, LeastOf
  <1> HIDE DEF adds
  <1>10. /\ \A s \in Slots : s \notin adds => slots'[s] = slots[s]
         /\ \A s \in adds : \/ slots'[s].st = "free"
                            \/ slots'[s] = slots[s]
                            \/ slots'[s].st = "ready" /\ slots'[s].id = slots[s].id /\ m.ok
    <2>1. CASE /\ m.ok /\ adds # {}
               /\ slots' = [n \in Nodes |-> IF n \in adds THEN [slots[n] EXCEPT !.st = "ready"] ELSE slots[n]]
      <3>1. \A s \in adds : slots[s] \in Children /\ s \in Nodes
        BY <1>4, NodeFacts DEF KnownInv, BridgeShape
      <3> QED BY <2>1, <3>1, NodeFacts DEF Children
    <2>2. CASE adds # {} /\ slots' = [slots EXCEPT ![Min(adds)] = FreeSlot]
      <3>1. Min(adds) \in adds /\ \A s \in adds : s = Min(adds)
        BY <1>6, <1>9, <2>2
      <3>2. Min(adds) \in Nodes
        BY <1>4, <3>1, NodeFacts
      <3> QED BY <2>2, <3>1, <3>2, NodeFacts DEF KnownInv, BridgeShape, FreeSlot
    <2> QED BY <1>8, <2>1, <2>2
  <1>11. Apart'
    BY <1>4, <1>5, <1>10 DEF KnownInv, Apart
  <1>12. Requested'
    <2> SUFFICES ASSUME app.pc = "request" PROVE slots'[app.slot].st = app.kind
      BY <1>1 DEF Requested
    <2>1. app.slot \in Slots /\ slots[app.slot].st = app.kind
      BY AppPlace DEF KnownInv, Requested
    <2>2. app.slot \notin adds
      BY <1>5 DEF Granting
    <2> QED BY <1>10, <2>1, <2>2
  <1>13. Tables'
    <2>1. ASSUME NEW e \in requests', e.kind = "add"
          PROVE  \E s \in Slots : Granting(s)' /\ slots'[s].id = e.id
      <3>1. PICK s \in Slots : Granting(s) /\ slots[s].id = e.id
        BY <1>1, <2>1 DEF KnownInv, Tables
      <3>2. s \notin adds
        BY <1>7, <2>1, <3>1
      <3>3. slots'[s] = slots[s]
        BY <1>10, <3>2
      <3> QED BY <1>1, <3>1, <3>3 DEF Granting
    <2> QED BY <1>1, <2>1 DEF KnownInv, Tables
  <1>14. InOrder' /\ Answered' /\ Asking'
    BY <1>1, <1>2 DEF KnownInv, InOrder, Answered, Asking
  <1>15. Held'
    <2> SUFFICES ASSUME NEW s \in Slots, slots'[s].st = "ready"
                 PROVE  /\ slots'[s].id \in cloudHas
                        /\ \A n \in Asked : ~(n.kind = "remove" /\ n.id = slots'[s].id)
      BY <1>1, <1>2 DEF Held
    <2>1. CASE slots'[s] = slots[s]
      BY <2>1 DEF KnownInv, Held
    <2>2. CASE s \in adds /\ slots'[s].id = slots[s].id /\ m.ok
      <3>1. PICK e \in requests : e.req = m.req /\ e.kind = "add" /\ e.id = slots[s].id
        BY <1>5, <2>2
      <3>2. e.id \in cloudHas
        BY <1>2, <2>2, <3>1 DEF KnownInv, Answered
      <3>3. \A n \in Asked : ~(n.kind = "remove" /\ n.id = e.id)
        <4> SUFFICES ASSUME NEW n \in Asked, n.kind = "remove", n.id = e.id PROVE FALSE
          OBVIOUS
        <4>1. n.req < e.req
          BY <3>1 DEF KnownInv, Asking
        <4>2. e.req < n.req
          BY <1>2, <3>1 DEF KnownInv, Answered
        <4>3. n.req \in Nat /\ e.req \in Nat
          BY MessageFacts DEF KnownInv
        <4> QED BY <4>1, <4>2, <4>3
      <3> QED BY <2>2, <3>1, <3>2, <3>3
    <2> QED BY <1>10, <2>1, <2>2
  <1> QED BY <1>11, <1>12, <1>13, <1>14, <1>15 DEF KnownInv

(* The cloud carries out a request: the removal of a child that is in the  *)
(* table again was answered before.                                        *)
LEMMA CloudKnown == ASSUME KnownInv, BridgeShape', Cloud PROVE KnownInv'
  <1> DEFINE m == Head(toCloud)
  <1>1. /\ toCloud # <<>> /\ toCloud' = Tail(toCloud) /\ m \in Upward
        /\ UNCHANGED <<slots, requests, nreq, app, queue>>
    BY QueueFacts DEF Cloud, poolVars, KnownInv, BridgeShape
  <1>2. /\ m \in Elements(toCloud) /\ Asked' \subseteq Asked
        /\ m.kind # "config" => m \in Asked /\ \A n \in Asked' : m.req < n.req
    BY <1>1, Ordered, TailElements DEF KnownInv, Asked, BridgeShape
  <1>3. InOrder'
    BY <1>1, InOrderTail DEF KnownInv
  <1>4. Reply(m, TRUE) \in Downward /\ Reply(m, FALSE) \in Downward /\ fromCloud \in Seq(Downward)
    BY <1>1, ReplyType DEF KnownInv, BridgeShape
  <1> HIDE DEF m
  <1>17. ASSUME NEW a \in Downward
         PROVE  /\ Elements(Append(fromCloud, a)) = Elements(fromCloud) \cup {a}
                /\ Elements(fromCloud \o <<a, a>>) \subseteq Elements(fromCloud) \cup {a}
    <2>1. \A i \in DOMAIN (fromCloud \o <<a, a>>) : (fromCloud \o <<a,
                                                                    a>>)[i] \in Elements(fromCloud) \cup {a}
      BY <1>4 DEF Elements
    <2>2. Elements(fromCloud \o <<a, a>>) \subseteq Elements(fromCloud) \cup {a}
      BY <2>1 DEF Elements
    <2> QED BY <1>4, <2>2, AppendElements
  <1>5. /\ \/ fromCloud' = Append(fromCloud, Reply(m, TRUE))
           \/ fromCloud' = Append(fromCloud, Reply(m, FALSE))
           \/ fromCloud' = fromCloud \o <<Reply(m, TRUE), Reply(m, TRUE)>>
           \/ fromCloud' = fromCloud
        /\ \/ UNCHANGED cloudHas
           \/ m.kind = "add" /\ cloudHas' = cloudHas \cup {m.id}
           \/ m.kind = "remove" /\ cloudHas' = cloudHas \ {m.id}
        /\ m.kind = "add" => \/ cloudHas' = cloudHas \cup {m.id}
                             \/ Elements(fromCloud') \subseteq Elements(fromCloud) \cup {Reply(m, FALSE)}
    <2>1. Elements(Append(fromCloud, Reply(m, FALSE))) = Elements(fromCloud) \cup {Reply(m, FALSE)}
      BY <1>4, <1>17
    <2>2. CASE Known(m) /\ Carry(m) /\ fromCloud' = Append(fromCloud, Reply(m, TRUE))
      BY <1>1, <2>2, CarryFacts, ReplyType DEF KnownInv
    <2>3. CASE /\ m.kind = "add" /\ cloudHas' = cloudHas \cup {m.id}
               /\ fromCloud' = fromCloud \o <<Reply(m, TRUE), Reply(m, TRUE)>>
      BY <2>3
    <2>4. CASE fromCloud' = Append(fromCloud, Reply(m, FALSE)) /\ UNCHANGED cloudHas
      BY <2>1, <2>4
    <2>5. CASE UNCHANGED <<fromCloud, cloudHas>>
      BY <2>5
    <2> QED BY <2>2, <2>3, <2>4, <2>5 DEF Cloud, m
  <1>6. Elements(fromCloud') \subseteq Elements(fromCloud) \cup {Reply(m, TRUE), Reply(m, FALSE)}
    <2>1. /\ Elements(Append(fromCloud, Reply(m, TRUE))) = Elements(fromCloud) \cup {Reply(m, TRUE)}
          /\ Elements(fromCloud \o <<Reply(m, TRUE), Reply(m,
                                     TRUE)>>) \subseteq Elements(fromCloud) \cup {Reply(m, TRUE)}
      BY <1>4, <1>17
    <2>2. Elements(Append(fromCloud, Reply(m, FALSE))) = Elements(fromCloud) \cup {Reply(m, FALSE)}
      BY <1>4, <1>17
    <2> QED BY <1>5, <2>1, <2>2
  <1>7. \A a \in Acks' : a \in Acks \/ (m.kind # "config" /\ a.req = m.req /\ a.id = m.id)
    <2>1. \A ok \in BOOLEAN : \/ Reply(m, ok).kind = "answer"
                              \/ m.kind # "config" /\ Reply(m, ok).req = m.req /\ Reply(m, ok).id = m.id
      BY DEF Reply
    <2> QED BY <1>1, <1>6, <2>1 DEF Acks
  <1>8. m.kind = "add" => \/ cloudHas' = cloudHas \cup {m.id}
                          \/ \A a \in Acks' : a \in Acks \/ ~a.ok
    <2>1. m.kind = "add" => ~Reply(m, FALSE).ok
      BY DEF Reply
    <2> QED BY <1>1, <1>5, <2>1 DEF Acks
  <1>9. /\ m.kind # "config" => m.req \in Nat /\ m.req <= nreq /\ m.kind \in {"add", "remove"}
        /\ nreq \in Nat /\ \A n \in Asked : n.req \in Nat
    BY <1>1, <1>2, ReplyType, MessageFacts DEF KnownInv, InOrder, Elements
  <1>10. Apart' /\ Requested' /\ Tables'
    BY <1>1 DEF KnownInv, Apart, Requested, Tables, Granting
  <1>11. Asking'
    BY <1>1, <1>2 DEF KnownInv, Asking
  <1>12. \A s \in Slots : slots[s].st = "ready" => slots[s].id \in cloudHas'
    BY <1>2, <1>5 DEF KnownInv, Held
  <1>13. Held'
    BY <1>1, <1>2, <1>12 DEF KnownInv, Held
  <1>14. \A a \in Acks' : a.req <= nreq' /\ \A n \in Asked' : a.req < n.req
    BY <1>1, <1>2, <1>7, <1>9 DEF KnownInv, Answered
  <1>15. ASSUME NEW e \in requests, NEW a \in Acks', a.req = e.req
         PROVE  a.id = e.id /\ (e.kind = "add" /\ a.ok => e.id \in cloudHas')
    <2>1. CASE a \in Acks
      <3>1. a.id = e.id /\ (e.kind = "add" /\ a.ok => e.id \in cloudHas)
        BY <1>15, <2>1 DEF KnownInv, Answered
      <3>2. ASSUME e.kind = "add", m.kind = "remove" PROVE m.id # e.id
        <4> SUFFICES ASSUME m.id = e.id PROVE FALSE
          OBVIOUS
        <4>1. m.req < e.req /\ e.req < m.req
          BY <1>2, <1>15, <2>1, <3>2 DEF KnownInv, Asking, Answered
        <4>2. m.req \in Nat /\ e.req \in Nat
          BY <1>9, <3>2, MessageFacts DEF KnownInv
        <4> QED BY <4>1, <4>2
      <3> QED BY <1>5, <3>1, <3>2
    <2>2. CASE a \notin Acks
      <3>1. m.kind # "config" /\ a.req = m.req /\ a.id = m.id
        BY <1>7, <2>2
      <3>2. m.kind = e.kind /\ m.id = e.id
        BY <1>2, <1>15, <3>1 DEF KnownInv, Asking
      <3> QED BY <1>8, <2>2, <3>1, <3>2
    <2> QED BY <2>1, <2>2
  <1>16. Answered'
    BY <1>1, <1>14, <1>15 DEF Answered
  <1> QED BY <1>3, <1>10, <1>11, <1>13, <1>16 DEF KnownInv

(* The drain,                                                              *)
LEMMA DrainKnown ==
    ASSUME KnownInv, BridgeShape',
           \/ DrainBegin \/ DrainCollect \/ ReportUnchanged \/ ReportSent \/ ReportFailed
           \/ DrainEnd \/ SetupDone \/ RetryFires
    PROVE  KnownInv'
  <1> USE DEF poolVars, listVars, netVars, histVars, otherThreads
  <1>1. BridgeShape
    BY DEF KnownInv
  <1>2. UNCHANGED <<slots, requests, nreq, app, cloudHas, fromCloud>>
    BY DEF DrainBegin, DrainCollect, ReportUnchanged, ReportSent, ReportFailed, DrainEnd, SetupDone,
           RetryFires, Published, Refused
  <1>3. Acks' \subseteq Acks
    <2>1. CASE UNCHANGED queue
      BY <1>2, <2>1 DEF Acks, Elements
    <2>2. CASE DrainBegin
      BY <1>1, <1>2, <2>2, QueueShrinks, TaskTaken DEF DrainBegin
    <2>3. CASE RetryFires
      <3>1. [kind |-> "drain"] \in BridgeTasks /\ [kind |-> "drain"].kind # "ack"
        BY WorkerReady
      <3> QED BY <1>1, <1>2, <2>3, <3>1, QueueGrows DEF RetryFires
    <2>4. CASE SetupDone
      <3>1. /\ queue # <<>> /\ Tail(queue) \in Seq(BridgeTasks) /\ queue \in Seq(BridgeTasks)
            /\ \/ queue' = Tail(queue)
               \/ queue' = Append(Tail(queue), [kind |-> "drain"])
        BY <1>1, <2>4, TaskTaken DEF SetupDone
      <3>2. Elements(Tail(queue)) \subseteq Elements(queue)
        BY <3>1, TailElements
      <3>3. Elements(Append(Tail(queue), [kind |-> "drain"])) = Elements(Tail(queue)) \cup {[kind |-> "drain"]}
        <4> DEFINE d == [kind |-> "drain"]
        <4>1. d \in BridgeTasks
          BY WorkerReady
        <4> HIDE DEF d
        <4>2. \A t \in Seq(BridgeTasks) : Elements(Append(t, d)) = Elements(t) \cup {d}
          BY <4>1, AppendElements
        <4> QED BY <3>1, <4>2 DEF d
      <3>4. Elements(queue') \subseteq Elements(queue) \cup {[kind |-> "drain"]}
        BY <3>1, <3>2, <3>3
      <3> QED BY <1>2, <3>4 DEF Acks
    <2> QED BY <2>1, <2>2, <2>3, <2>4 DEF DrainCollect, ReportUnchanged, ReportSent, ReportFailed, DrainEnd
  <1>4. Asked' \subseteq Asked /\ InOrder'
    <2>1. CASE UNCHANGED toCloud
      BY <1>2, <2>1 DEF Asked, Elements, KnownInv, InOrder
    <2>2. CASE ReportSent
      <3> DEFINE c == [kind |-> "config", hash |-> Hash(Next1)]
      <3>1. c \in Upward /\ c.kind = "config"
        BY <1>1, <2>2, BatchFacts, HashType DEF ReportSent, Upward
      <3>2. Published(c)
        BY <2>2 DEF ReportSent
      <3> HIDE DEF c
      <3>3. toCloud' = Append(toCloud, c)
        BY <3>2 DEF Published
      <3>4. Elements(toCloud') = Elements(toCloud) \cup {c}
        BY <1>1, <3>1, <3>3, AppendElements DEF BridgeShape
      <3>5. nreq \in Nat /\ nreq' = nreq
        BY <1>1, <1>2 DEF BridgeShape
      <3>6. InOrder'
        BY <1>1, <3>1, <3>3, <3>5, InOrderAppend DEF KnownInv
      <3> QED BY <3>1, <3>4, <3>6 DEF Asked
    <2> QED BY <2>1, <2>2 DEF DrainBegin, DrainCollect, ReportUnchanged, ReportFailed, DrainEnd, SetupDone,
           RetryFires, Refused
  <1> QED BY <1>2, <1>3, <1>4, KnownFrame

(* the answers for configurations,                                         *)
LEMMA AnswerKnown ==
    ASSUME KnownInv, BridgeShape',
           WorkerReset \/ SelfAnswer \/ ChildAnswer \/ ToWorker \/ CbCompare \/ CbPersist
    PROVE  KnownInv'
  <1> USE DEF poolVars, listVars, netVars, histVars, otherThreads
  <1>1. BridgeShape
    BY DEF KnownInv
  <1>2. UNCHANGED <<slots, requests, nreq, app, cloudHas, toCloud>>
    BY DEF WorkerReset, SelfAnswer, ChildAnswer, ToWorker, CbCompare, CbPersist
  <1>3. Acks' \subseteq Acks
    <2>1. CASE UNCHANGED <<queue, fromCloud>>
      BY <2>1 DEF Acks, Elements
    <2>2. CASE SelfAnswer
      BY <1>1, <2>2, QueueShrinks, TaskTaken DEF SelfAnswer
    <2>3. CASE ChildAnswer \/ ToWorker
      <3>1. /\ fromCloud \in Seq(Downward) /\ queue \in Seq(BridgeTasks) /\ fromCloud # <<>>
            /\ fromCloud' = Tail(fromCloud)
            /\ (queue' = queue \/ queue' = Append(queue, Head(fromCloud)))
        BY <1>1, <2>3 DEF ChildAnswer, ToWorker, BridgeShape
      <3>2. Elements(fromCloud') \subseteq Elements(fromCloud) /\ Head(fromCloud) \in Elements(fromCloud)
        BY <3>1, TailElements
      <3>3. Head(fromCloud) \in BridgeTasks
        BY <3>1, QueueFacts, TaskKinds
      <3>4. Elements(queue') \subseteq Elements(queue) \cup {Head(fromCloud)}
        BY <3>1, <3>3, AppendElements
      <3> QED BY <3>2, <3>4 DEF Acks
    <2> QED BY <2>1, <2>2, <2>3 DEF WorkerReset, CbCompare, CbPersist
  <1>4. Asked' \subseteq Asked /\ InOrder'
    BY <1>2 DEF Asked, Elements, KnownInv, InOrder
  <1> QED BY <1>2, <1>3, <1>4, KnownFrame

(* and the other steps are quiet.                                          *)
LEMMA OtherKnown ==
    ASSUME KnownInv, BridgeShape',
           \/ Loop \/ Drop \/ Connect \/ FreeReset
           \/ \E s \in Slots : ChangeNode(s) \/ CommitDevices(s)
    PROVE  KnownInv'
  <1> USE DEF poolVars, listVars, netVars, histVars, otherThreads, Loop
  <1>1. BridgeShape
    BY DEF KnownInv
  <1>2. UNCHANGED <<requests, nreq, cloudHas>>
    BY DEF Puback, Disconnected, ClearAllInflight, Reconnected, Drop, Connect, FreeReset, ChangeNode,
       CommitDevices
  <1>3. CASE FreeReset
    <2>1. app.pc = "reset" /\ app' = Idle /\ UNCHANGED <<slots, queue, toCloud, fromCloud>>
      BY <1>3 DEF FreeReset
    <2>2. Acks' = Acks /\ Asked' = Asked
      BY <2>1 DEF Acks, Asked, Elements
    <2> QED BY <1>2, <2>1, <2>2 DEF KnownInv, Apart, Requested, Tables, Granting, InOrder, Answered, Asking, Held, Idle
  <1>4. CASE ~FreeReset
    <2>1. app' = app
      BY <1>4 DEF Puback, Disconnected, ClearAllInflight, Reconnected, Drop, Connect, ChangeNode,
         CommitDevices
    <2>2. \A n \in Nodes : slots'[n].st = slots[n].st /\ slots'[n].id = slots[n].id
      <3>1. CASE slots' = slots
        BY <3>1
      <3>2. ASSUME NEW s \in Slots, slots' = [slots EXCEPT ![s].cfg = @ + 1]
            PROVE  <2>2
        BY <1>1, <3>2 DEF BridgeShape, Children
      <3> QED BY <1>4, <3>1, <3>2 DEF Puback, Disconnected, ClearAllInflight, Reconnected, Drop, Connect, ChangeNode, CommitDevices
    <2>3. Acks' \subseteq Acks
      <3>1. CASE UNCHANGED <<queue, fromCloud>>
        BY <3>1 DEF Acks, Elements
      <3>2. CASE Drop
        <4>1. queue' = queue /\ fromCloud' = <<>>
          BY <3>2 DEF Drop
        <4> QED BY <4>1, EmptyElements DEF Acks, Elements
      <3>3. CASE /\ UNCHANGED fromCloud
                 /\ \E k \in {"drain", "setup"} : queue' = Append(queue, [kind |-> k])
        <4>1. \A k \in {"drain", "setup"} : [kind |-> k] \in BridgeTasks /\ [kind |-> k].kind # "ack"
          BY WorkerReady
        <4> QED BY <1>1, <3>3, <4>1, QueueGrows
      <3> QED BY <1>4, <3>1, <3>2, <3>3 DEF Puback, Disconnected, ClearAllInflight, Reconnected, Connect, ChangeNode, CommitDevices, Kick
    <2>4. Asked' \subseteq Asked /\ InOrder'
      <3>1. CASE UNCHANGED toCloud
        BY <1>2, <3>1 DEF Asked, Elements, KnownInv, InOrder
      <3>2. CASE Drop
        <4>1. toCloud' = <<>>
          BY <3>2 DEF Drop
        <4>2. Elements(toCloud') = {} /\ DOMAIN toCloud' = {}
          BY <4>1, EmptyElements, NoMessage
        <4> QED BY <4>2 DEF Asked, InOrder
      <3> QED BY <1>4, <3>1, <3>2 DEF Puback, Disconnected, ClearAllInflight, Reconnected, Connect, ChangeNode, CommitDevices
    <2> QED BY <1>2, <2>1, <2>2, <2>3, <2>4, KnownFrame
  <1> QED BY <1>3, <1>4

(* The invariant holds initially,                                          *)
LEMMA KnownInit == Init => KnownInv
  <1> SUFFICES ASSUME Init PROVE KnownInv
    OBVIOUS
  <1>1. /\ toCloud = <<>> /\ fromCloud = <<>> /\ queue = <<[kind |-> "setup"]>> /\ requests = {} /\ app = Idle
        /\ \A s \in Slots : slots[s].st = "free"
    BY NodeFacts DEF Init, FreeSlot
  <1>2. Asked = {} /\ InOrder
    BY <1>1, EmptyElements, NoMessage DEF Asked, InOrder
  <1>3. Acks = {}
    <2>1. Elements(queue) = {[kind |-> "setup"]}
      BY <1>1 DEF Elements
    <2> QED BY <1>1, <2>1, EmptyElements DEF Acks
  <1> QED BY <1>1, <1>2, <1>3, ShapeInit DEF KnownInv, Apart, Requested, Tables, Answered, Asking, Held, Idle

(* and every step keeps it.                                                *)
LEMMA KnownNext == KnownInv /\ [Next]_vars => KnownInv'
  <1> SUFFICES ASSUME KnownInv, [Next]_vars PROVE KnownInv'
    OBVIOUS
  <1>0. BridgeShape'
    BY ShapeNext DEF KnownInv
  <1>1. CASE AppCall
    BY <1>0, <1>1, AddChildKnown, RemoveChildKnown, OtherKnown DEF AppCall
  <1>2. CASE AppStep
    BY <1>0, <1>2, RequestSentKnown, RequestFailedKnown, FreeChildKnown, OtherKnown DEF AppStep
  <1>3. CASE Worker
    BY <1>0, <1>3, DrainKnown, BridgeAckKnown, AnswerKnown DEF Worker
  <1>4. CASE RetryFires
    BY <1>0, <1>4, DrainKnown
  <1>5. CASE Client
    BY <1>0, <1>5, AnswerKnown DEF Client
  <1>6. CASE Loop \/ Drop \/ Connect
    BY <1>0, <1>6, OtherKnown
  <1>7. CASE Cloud
    BY <1>0, <1>7, CloudKnown
  <1>8. CASE UNCHANGED vars
    <2>1. UNCHANGED <<slots, requests, nreq, app, cloudHas, toCloud, fromCloud, queue>>
      BY <1>8 DEF vars, poolVars, netVars
    <2>2. Acks' = Acks /\ Asked' = Asked /\ InOrder'
      BY <2>1 DEF Acks, Asked, Elements, KnownInv, InOrder
    <2> QED BY <1>0, <2>1, <2>2, KnownFrame
  <1> QED BY <1>1, <1>2, <1>3, <1>4, <1>5, <1>6, <1>7, <1>8 DEF Next

(* For any ids, slots, table, calls and faults a READY child is one the    *)
(* cloud has (bridge_events.c bridge_internal_dispatch_from_cloud_event,   *)
(* esp_rmaker_bridge.c bridge_handle_ack_success_add): a bridgeAck that    *)
(* comes late, twice, or after the child was removed and added again       *)
(* promotes nobody.                                                        *)
THEOREM KnownSafety == Spec => []ReadyIsKnown
  <1>1. KnownInv => ReadyIsKnown
    BY DEF KnownInv, Held, ReadyIsKnown
  <1> QED BY <1>1, KnownInit, KnownNext, PTL DEF Spec

-----------------------------------------------------------------------------
(* Nothing on the list is stranded.                                        *)

(* The configurations on their way to the cloud,                           *)
Sent == {m \in Elements(toCloud) : m.kind = "config"}
(* the answers on their way back,                                          *)
Replies == {m \in Elements(fromCloud) \cup Elements(queue) : m.kind = "answer"}
(* and the tasks that start a drain.                                       *)
Wakers == {t \in Elements(queue) : t.kind \in {"drain", "setup"}}
(* A lost connection the event loop has not seen to the end.               *)
Lost == "down" \in Elements(events) \/ loop = "clear"
(* The node waits in the drain's batch.                                    *)
Batched(n) == worker.pc = "report" /\ n \in worker.batch

(* A child without its bridgeAck is not on the list.                       *)
NewUnlisted == \A s \in Slots : slots[s].st = "add" => s \notin pend

(* Only the node's own answers reach the worker, and its own callback runs *)
(* there.                                                                  *)
OwnQueue == /\ \A t \in Elements(queue) : t.kind = "answer" => t.hash[1] = "self"
            /\ ~InCallback(Self)

(* A connection that was lost is back only with its event on the way.      *)
ComesBack ==
    up => /\ loop = "clear" => "up" \in Elements(events)
          /\ \A i \in DOMAIN events : events[i] = "down" =>
                \E k \in DOMAIN events : i < k /\ events[k] = "up"

(* A drain will come.                                                      *)
Coming == armed \/ Wakers # {} \/ ~up \/ deaf \/ (\E e \in Elements(events) : e # "ok")
          \/ worker.pc = "collect" \/ (worker.pc = "report" /\ worker.failed)

(* A READY node on the list that the code has not given up,                *)
Listed(n) == n \in pend /\ slots[n].st = "ready" /\ n \notin stuck
(* one whose configuration or answer is on its way,                        *)
Travelling(n) == \/ \E m \in Sent \cup Replies : m.hash[1] = slots[n].id
                 \/ InCallback(n) \/ Batched(n) \/ Lost
(* and one somebody will see to.                                           *)
Seen(n) == IF n \in inflight THEN Travelling(n) ELSE Coming
(* Somebody sees to every node on the list.                                *)
Listing == \A n \in Nodes : Listed(n) => Seen(n)

(* The inductive invariant of NothingStranded.                             *)
StrandedInv == KnownInv /\ NewUnlisted /\ OwnQueue /\ ComesBack /\ Listing

(* A configuration on its way stays there,                                 *)
LEMMA TravelKept ==
    ASSUME NEW n \in Nodes, slots'[n].id = slots[n].id,
           \A m \in Sent \cup Replies : m.hash[1] = slots[n].id => m \in Sent' \cup Replies',
           InCallback(n) => InCallback(n)', Batched(n) => Batched(n)', Lost => Lost'
    PROVE  Travelling(n) => Travelling(n)'
  BY DEF Travelling

(* so that the list is kept by a step that ends no travel without a drain  *)
(* to come.                                                                *)
LEMMA ListingKept ==
    ASSUME Listing,
           \A n \in Nodes : Listed(n)' /\ n \in inflight'
              => Listed(n) /\ n \in inflight /\ (Travelling(n) => Travelling(n)'),
           \/ Coming'
           \/ /\ Coming => Coming'
              /\ \A n \in Nodes : Listed(n)' /\ n \notin inflight' => Listed(n) /\ n \notin inflight
    PROVE  Listing'
  BY DEF Listing, Seen

(* A task that starts no drain is taken,                                   *)
LEMMA OtherTaskTaken ==
    ASSUME BridgeShape, NEW k, TakeTask(k), queue' = Tail(queue), UNCHANGED <<fromCloud, toCloud>>
    PROVE  /\ k \notin {"drain", "setup"} => Wakers' = Wakers
           /\ k # "answer" => Replies' = Replies
           /\ Sent' = Sent /\ worker = Idle /\ queue # <<>>
           /\ Elements(queue') \subseteq Elements(queue)
           /\ Head(queue) \in Elements(queue) /\ Head(queue).kind = k
  <1>1. /\ queue # <<>> /\ Head(queue).kind = k /\ worker = Idle /\ queue \in Seq(BridgeTasks)
    BY TaskTaken
  <1>2. Elements(queue) = {Head(queue)} \cup Elements(queue')
    BY <1>1, TailElements
  <1>3. Sent' = Sent /\ Elements(fromCloud') = Elements(fromCloud)
    BY DEF Sent, Elements
  <1>4. k \notin {"drain", "setup"} => Wakers' = Wakers
    BY <1>1, <1>2 DEF Wakers
  <1>5. k # "answer" => Replies' = Replies
    BY <1>1, <1>2, <1>3 DEF Replies
  <1> QED BY <1>1, <1>2, <1>3, <1>4, <1>5

(* one more is queued,                                                     *)
LEMMA TaskQueued ==
    ASSUME BridgeShape, NEW t \in BridgeTasks, queue' = Append(queue, t), UNCHANGED fromCloud
    PROVE  /\ Elements(queue') = Elements(queue) \cup {t}
           /\ Wakers \subseteq Wakers' /\ Replies \subseteq Replies'
           /\ t.kind \in {"drain", "setup"} => Wakers' # {} /\ Replies' = Replies
  <1>1. Elements(queue') = Elements(queue) \cup {t}
    BY AppendElements DEF BridgeShape
  <1> QED BY <1>1 DEF Wakers, Replies

(* or the retry context is kicked.                                         *)
LEMMA Wakened ==
    ASSUME BridgeShape, Kick, UNCHANGED fromCloud
    PROVE  /\ Replies' = Replies /\ Coming'
           /\ \A t \in Elements(queue') : t \in Elements(queue) \/ t.kind = "drain"
  <1> DEFINE d == [kind |-> "drain"]
  <1>1. d \in BridgeTasks /\ d.kind = "drain"
    BY WorkerReady
  <1>2. CASE queue' = Append(queue, d)
    <2> HIDE DEF d
    <2> QED BY <1>1, <1>2, TaskQueued DEF Coming
  <1>3. CASE armed' = TRUE /\ UNCHANGED queue
    BY <1>3 DEF Coming, Replies, Elements
  <1> QED BY <1>2, <1>3 DEF Kick

(* The parts make the invariant.                                           *)
LEMMA StrandedKept ==
    ASSUME StrandedInv, KnownInv', NewUnlisted', OwnQueue', ComesBack', Listing'
    PROVE  StrandedInv'
  BY DEF StrandedInv

(* The calls of the application,                                           *)
LEMMA AppCallStranded == ASSUME StrandedInv, KnownInv', AppCall PROVE StrandedInv'
  <1> USE DEF poolVars, listVars, netVars, histVars, otherThreads
  <1>0. BridgeShape
    BY DEF StrandedInv, KnownInv
  <1>1. UNCHANGED <<up, loop, events, cb, worker, toCloud, fromCloud>>
    BY DEF AppCall, AddChild, RemoveChild, ChangeNode, CommitDevices
  <1>2. ComesBack' /\ Lost' = Lost
    BY <1>1 DEF StrandedInv, ComesBack, Lost, Elements
  <1>3. /\ Sent' = Sent /\ \A n \in Nodes : Batched(n)' = Batched(n) /\ InCallback(n)' = InCallback(n)
    BY <1>1 DEF Sent, Elements, Batched, InCallback
  <1>4. CASE \E id \in Ids : AddChild(id)
    <2>1. PICK id \in Ids : AddChild(id)
      BY <1>4
    <2> DEFINE s == Min(FreeSlots)
    <2>2. FreeSlots \subseteq Nat /\ FreeSlots # {}
      BY <2>1, NodeFacts DEF AddChild, FreeSlots
    <2>3. s \in Slots
      BY <2>2, LeastOf DEF FreeSlots
    <2> HIDE DEF s
    <2>4. /\ slots' = [slots EXCEPT ![s] = [st |-> "add", id |-> id, cfg |-> 0]]
          /\ pend' = pend \ {s} /\ inflight' = inflight \ {s}
          /\ UNCHANGED <<queue, stuck, armed, deaf>>
      BY <2>1 DEF AddChild, s
    <2>5. slots'[s].st = "add" /\ \A n \in Nodes : n # s => slots'[n] = slots[n]
      BY <1>0, <2>3, <2>4, NodeFacts DEF BridgeShape
    <2>6. NewUnlisted' /\ OwnQueue'
      BY <1>3, <2>4, <2>5, NodeFacts DEF StrandedInv, NewUnlisted, OwnQueue, Elements
    <2>7. Replies' = Replies /\ Coming' = Coming
      BY <1>1, <2>4 DEF Replies, Coming, Wakers, Elements
    <2>8. \A n \in Nodes : Listed(n)' => Listed(n) /\ n # s
      BY <2>4, <2>5 DEF Listed
    <2>9. \A n \in Nodes : n # s => (Travelling(n) => Travelling(n)')
      BY <1>2, <1>3, <2>5, <2>7, TravelKept
    <2>10. Listing'
      BY <2>4, <2>7, <2>8, <2>9, ListingKept DEF StrandedInv
    <2> QED BY <1>2, <2>6, <2>10, StrandedKept
  <1>5. CASE \E s \in Slots : RemoveChild(s) \/ ChangeNode(s)
    <2>1. /\ UNCHANGED <<queue, stuck, armed, deaf, pend, inflight>>
          /\ \A n \in Nodes : slots'[n].id = slots[n].id /\ (slots'[n].st \in {"add", "ready"} => slots'[n].st = slots[n].st)
      <3>1. ASSUME NEW s \in Slots, slots' = [slots EXCEPT ![s].st = "remove"] PROVE  \A n \in Nodes : slots'[n].id = slots[n].id /\ (slots'[n].st \in {"add", "ready"} => slots'[n].st = slots[n].st)
        BY <1>0, <3>1, NodeFacts DEF BridgeShape, Children
      <3>2. ASSUME NEW s \in Slots, slots' = [slots EXCEPT ![s].cfg = @ + 1] PROVE  \A n \in Nodes : slots'[n].id = slots[n].id /\ slots'[n].st = slots[n].st
        BY <1>0, <3>2, NodeFacts DEF BridgeShape, Children
      <3> QED BY <1>5, <3>1, <3>2 DEF RemoveChild, ChangeNode
    <2>6. NewUnlisted' /\ OwnQueue'
      BY <1>3, <2>1, NodeFacts DEF StrandedInv, NewUnlisted, OwnQueue, Elements
    <2>7. Replies' = Replies /\ Coming' = Coming
      BY <1>1, <2>1 DEF Replies, Coming, Wakers, Elements
    <2>8. \A n \in Nodes : Listed(n)' => Listed(n)
      BY <2>1 DEF Listed
    <2>9. \A n \in Nodes : Travelling(n) => Travelling(n)'
      BY <1>2, <1>3, <2>1, <2>7, TravelKept
    <2>10. Listing'
      BY <2>1, <2>7, <2>8, <2>9, ListingKept DEF StrandedInv
    <2> QED BY <1>2, <2>6, <2>10, StrandedKept
  <1>6. CASE \E s \in Slots : CommitDevices(s)
    <2>1. PICK s \in Slots : CommitDevices(s)
      BY <1>6
    <2>2. /\ slots[s].st = "ready" /\ pend' = pend \cup {s} /\ inflight' = inflight \ {s}
          /\ Kick /\ stuck' = stuck \cap inflight' /\ UNCHANGED slots
      BY <2>1 DEF CommitDevices
    <2>3. Replies' = Replies /\ Coming' /\ \A t \in Elements(queue') : t \in Elements(queue) \/ t.kind = "drain"
      BY <1>0, <1>1, <2>2, Wakened
    <2>6. NewUnlisted' /\ OwnQueue'
      BY <1>3, <2>2, <2>3, NodeFacts DEF StrandedInv, NewUnlisted, OwnQueue
    <2>9. \A n \in Nodes : Travelling(n) => Travelling(n)'
      BY <1>2, <1>3, <2>2, <2>3, TravelKept
    <2>8. \A n \in Nodes : Listed(n)' /\ n \in inflight' => Listed(n) /\ n \in inflight
      BY <2>2 DEF Listed
    <2>10. Listing'
      BY <2>3, <2>8, <2>9, ListingKept DEF StrandedInv
    <2> QED BY <1>2, <2>6, <2>10, StrandedKept
  <1> QED BY <1>4, <1>5, <1>6 DEF AppCall

(* and what is left of them.                                               *)
LEMMA AppStepStranded == ASSUME StrandedInv, KnownInv', AppStep PROVE StrandedInv'
  <1> USE DEF poolVars, listVars, netVars, histVars, otherThreads
  <1>0. BridgeShape
    BY DEF StrandedInv, KnownInv
  <1>1. UNCHANGED <<up, loop, events, cb, worker, fromCloud, queue, armed, deaf>>
    BY DEF AppStep, RequestSent, RequestFailed, FreeChild, FreeReset, Published, Refused
  <1>2. ComesBack' /\ Lost' = Lost /\ OwnQueue' /\ Coming' = Coming /\ Replies' = Replies
    BY <1>1 DEF StrandedInv, ComesBack, Lost, Elements, OwnQueue, InCallback, Coming, Wakers,
       Replies
  <1>3. \A n \in Nodes : Batched(n)' = Batched(n) /\ InCallback(n)' = InCallback(n)
    BY <1>1 DEF Batched, InCallback
  <1>4. CASE RequestSent \/ RequestFailed
    <2>1. UNCHANGED <<slots, pend, inflight, stuck>>
      BY <1>4 DEF RequestSent, RequestFailed
    <2>2. Sent \subseteq Sent'
      <3>1. CASE UNCHANGED toCloud
        BY <3>1 DEF Sent, Elements
      <3>2. CASE RequestSent
        <4> DEFINE id == slots[app.slot].id
                   m == [kind |-> app.kind, req |-> nreq + 1, id |-> id]
        <4>1. app.pc = "request" /\ Published(m) /\ slots[app.slot].st = app.kind
          BY <3>2 DEF RequestSent, StrandedInv, KnownInv, Requested
        <4>2. app.slot \in Slots /\ id \in Ids /\ app.kind \in {"add", "remove"} /\ nreq + 1 \in Nat
          BY <1>0, <4>1, AppPlace DEF BridgeShape
        <4>3. m \in Upward
          BY <4>2 DEF Upward
        <4> HIDE DEF m
        <4>5. toCloud' = Append(toCloud, m)
          BY <4>1 DEF Published
        <4>4. Elements(toCloud') = Elements(toCloud) \cup {m}
          BY <1>0, <4>3, <4>5, AppendElements DEF BridgeShape
        <4> QED BY <4>4 DEF Sent
      <3> QED BY <1>4, <3>1, <3>2 DEF RequestFailed, Refused
    <2>3. \A n \in Nodes : Travelling(n) => Travelling(n)'
      BY <1>2, <1>3, <2>1, <2>2, TravelKept
    <2>4. Listing'
      BY <1>2, <2>1, <2>3, ListingKept DEF StrandedInv, Listed
    <2>5. NewUnlisted'
      BY <2>1 DEF StrandedInv, NewUnlisted
    <2> QED BY <1>2, <2>4, <2>5, StrandedKept
  <1>5. CASE FreeChild
    <2>1. /\ app.slot \in Slots /\ slots' = [slots EXCEPT ![app.slot] = FreeSlot]
          /\ UNCHANGED <<pend, inflight, toCloud>> /\ stuck' = stuck \ {app.slot}
      <3>1. app.pc = "free" /\ TakeBAndFree("app", app.slot)
            /\ UNCHANGED <<pend, inflight, toCloud>>
        BY <1>5 DEF FreeChild
      <3>2. app.slot \in Slots
        BY <1>0, <3>1, AppPlace
      <3> QED BY <3>1, <3>2 DEF TakeBAndFree
    <2>2. slots'[app.slot].st = "free" /\ \A n \in Nodes : n # app.slot => slots'[n] = slots[n]
      BY <1>0, <2>1, NodeFacts DEF BridgeShape, FreeSlot
    <2>3. \A n \in Nodes : n # app.slot => (Travelling(n) => Travelling(n)')
      <3>1. Sent' = Sent
        BY <2>1 DEF Sent, Elements
      <3> QED BY <1>2, <1>3, <2>2, <3>1, TravelKept
    <2>4. Listing'
      BY <1>2, <2>1, <2>2, <2>3, ListingKept DEF StrandedInv, Listed
    <2>5. NewUnlisted'
      BY <2>1, <2>2, NodeFacts DEF StrandedInv, NewUnlisted
    <2> QED BY <1>2, <2>4, <2>5, StrandedKept
  <1>6. CASE FreeReset
    <2>1. /\ UNCHANGED <<slots, stuck, toCloud>>
          /\ pend' = pend \ {app.slot} /\ inflight' = inflight \ {app.slot}
      BY <1>6 DEF FreeReset, ResetNode, PendingRemove
    <2>3. \A n \in Nodes : Travelling(n) => Travelling(n)'
      <3>1. Sent' = Sent
        BY <2>1 DEF Sent, Elements
      <3> QED BY <1>2, <1>3, <2>1, <3>1, TravelKept
    <2>4. Listing'
      BY <1>2, <2>1, <2>3, ListingKept DEF StrandedInv, Listed
    <2>5. NewUnlisted'
      BY <2>1 DEF StrandedInv, NewUnlisted
    <2> QED BY <1>2, <2>4, <2>5, StrandedKept
  <1> QED BY <1>4, <1>5, <1>6 DEF AppStep

(* The drain begins, collects its batch and ends.                          *)
LEMMA DrainStranded ==
    ASSUME StrandedInv, KnownInv', DrainBegin \/ DrainCollect \/ ReportUnchanged \/ DrainEnd
    PROVE  StrandedInv'
  <1> USE DEF poolVars, listVars, netVars, histVars, otherThreads
  <1>0. BridgeShape
    BY DEF StrandedInv, KnownInv
  <1>1. UNCHANGED <<slots, up, loop, events, cb, fromCloud, toCloud, stuck,
                    deaf>> /\ pend' \subseteq pend
    BY DEF DrainBegin, DrainCollect, ReportUnchanged, DrainEnd, PendingRemove
  <1>2. ComesBack' /\ Lost' = Lost /\ NewUnlisted'
    BY <1>1 DEF StrandedInv, ComesBack, Lost, Elements, NewUnlisted
  <1>3. Sent' = Sent /\ \A n \in Nodes : InCallback(n)' = InCallback(n)
    BY <1>1 DEF Sent, Elements, InCallback
  <1>4. ~InCallback(Self)'
    BY <1>3, NodeFacts DEF StrandedInv, OwnQueue
  <1>5. CASE DrainBegin
    <2>1. /\ TakeTask("drain") /\ queue' = Tail(queue) /\ worker' = [pc |-> "collect"]
          /\ UNCHANGED <<pend, inflight>>
      BY <1>5 DEF DrainBegin
    <2>2. Replies' = Replies /\ Elements(queue') \subseteq Elements(queue) /\ worker = Idle
      BY <1>0, <1>1, <2>1, OtherTaskTaken
    <2>3. OwnQueue'
      BY <1>4, <2>2 DEF StrandedInv, OwnQueue
    <2>4. Coming'
      BY <2>1 DEF Coming
    <2>5. \A n \in Nodes : Travelling(n) => Travelling(n)'
      BY <1>1, <1>2, <1>3, <2>2, TravelKept DEF Batched, Idle
    <2>6. Listing'
      BY <1>1, <2>1, <2>4, <2>5, ListingKept DEF StrandedInv, Listed
    <2> QED BY <1>2, <2>3, <2>6, StrandedKept
  <1>6. CASE DrainCollect
    <2>1. /\ worker' = [pc |-> "report", batch |-> (pend \ inflight) \cap Ready, failed |-> FALSE]
          /\ inflight' = inflight \cup ((pend \ inflight) \cap Ready)
          /\ worker.pc = "collect" /\ UNCHANGED <<pend, queue>>
      BY <1>6 DEF DrainCollect
    <2>2. Replies' = Replies /\ OwnQueue'
      BY <1>1, <1>4, <2>1 DEF StrandedInv, OwnQueue, Replies, Elements
    <2>3. \A n \in Nodes : Travelling(n) => Travelling(n)'
      BY <1>1, <1>2, <1>3, <2>1, <2>2, TravelKept DEF Batched
    <2>4. \A n \in Nodes : Listed(n)' => Listed(n) /\ n \in inflight' /\ (n \notin inflight => Batched(n)')
      BY <1>1, <2>1 DEF Listed, Batched, Ready
    <2>5. \A n \in Nodes : Batched(n)' => Travelling(n)'
      BY DEF Travelling
    <2>6. Listing'
      BY <2>3, <2>4, <2>5 DEF StrandedInv, Listing, Seen
    <2> QED BY <1>2, <2>2, <2>6, StrandedKept
  <1>7. CASE ReportUnchanged
    <2>1. /\ worker.pc = "report" /\ worker.batch # {} /\ Reported(Next1, FALSE)
          /\ pend' = pend \ {Next1} /\ inflight' = inflight \ {Next1} /\ UNCHANGED <<queue, armed>>
      BY <1>7 DEF ReportUnchanged, PendingRemove
    <2>2. /\ worker'.pc = "report" /\ worker'.batch = worker.batch \ {Next1}
          /\ worker'.failed = (worker.failed \/ FALSE)
      BY <1>0, <2>1, ReportedFacts
    <2>3. Replies' = Replies /\ OwnQueue' /\ (Coming => Coming')
      BY <1>1, <1>4, <2>1, <2>2 DEF StrandedInv, OwnQueue, Replies, Elements, Coming, Wakers
    <2>4. \A n \in Nodes : n # Next1 => (Travelling(n) => Travelling(n)')
      BY <1>1, <1>2, <1>3, <2>1, <2>2, <2>3, TravelKept DEF Batched
    <2>5. \A n \in Nodes : Listed(n)' => Listed(n) /\ n # Next1 /\ (n \in inflight' <=> n \in inflight)
      BY <1>1, <2>1 DEF Listed
    <2>6. Listing'
      BY <2>3, <2>4, <2>5, ListingKept DEF StrandedInv
    <2> QED BY <1>2, <2>3, <2>6, StrandedKept
  <1>8. CASE DrainEnd
    <2>1. /\ worker.pc = "report" /\ worker.batch = {} /\ armed' = (armed \/ worker.failed)
          /\ UNCHANGED <<queue, pend, inflight>>
      BY <1>8 DEF DrainEnd
    <2>3. Replies' = Replies /\ OwnQueue' /\ (Coming => Coming')
      BY <1>1, <1>4, <2>1 DEF StrandedInv, OwnQueue, Replies, Elements, Coming, Wakers
    <2>4. \A n \in Nodes : Travelling(n) => Travelling(n)'
      BY <1>1, <1>2, <1>3, <2>1, <2>3, TravelKept DEF Batched
    <2>6. Listing'
      BY <1>1, <2>1, <2>3, <2>4, ListingKept DEF StrandedInv, Listed
    <2> QED BY <1>2, <2>3, <2>6, StrandedKept
  <1> QED BY <1>5, <1>6, <1>7, <1>8

(* A node of the batch is reported, or is not.                             *)
LEMMA ReportStranded ==
    ASSUME StrandedInv, KnownInv', ReportSent \/ ReportFailed
    PROVE  StrandedInv'
  <1> USE DEF poolVars, listVars, netVars, histVars, otherThreads
  <1>0. BridgeShape
    BY DEF StrandedInv, KnownInv
  <1>1. /\ UNCHANGED <<slots, up, loop, events, cb, fromCloud, queue, armed, stuck, deaf, pend>>
        /\ worker.pc = "report" /\ worker.batch # {}
    BY DEF ReportSent, ReportFailed, Published, Refused, ClearInflight
  <1>2. ComesBack' /\ Lost' = Lost /\ NewUnlisted' /\ Replies' = Replies
    BY <1>1 DEF StrandedInv, ComesBack, Lost, Elements, NewUnlisted, Replies
  <1>3. OwnQueue' /\ \A n \in Nodes : InCallback(n)' = InCallback(n)
    BY <1>1 DEF StrandedInv, OwnQueue, Elements, InCallback
  <1>4. Next1 \in Nodes
    BY <1>0, <1>1, BatchFacts
  <1>5. CASE ReportSent
    <2> DEFINE m == [kind |-> "config", hash |-> Hash(Next1)]
    <2>1. Reported(Next1, FALSE) /\ Published(m) /\ UNCHANGED inflight
      BY <1>5 DEF ReportSent
    <2>2. m \in Upward /\ m.kind = "config" /\ m.hash[1] = slots[Next1].id
      BY <1>0, <1>4, HashType DEF Upward, Hash
    <2> HIDE DEF m
    <2>3. /\ worker'.pc = "report" /\ worker'.batch = worker.batch \ {Next1}
          /\ worker'.failed = (worker.failed \/ FALSE)
      BY <1>0, <1>1, <2>1, ReportedFacts
    <2>4. Sent' = Sent \cup {m}
      <3>1. toCloud' = Append(toCloud, m)
        BY <2>1 DEF Published
      <3>2. Elements(toCloud') = Elements(toCloud) \cup {m}
        BY <1>0, <2>2, <3>1, AppendElements DEF BridgeShape
      <3> QED BY <2>2, <3>2 DEF Sent
    <2>5. Coming => Coming'
      BY <1>1, <2>3 DEF Coming, Wakers, Elements
    <2>6. \A n \in Nodes : n # Next1 => (Travelling(n) => Travelling(n)')
      BY <1>1, <1>2, <1>3, <2>3, <2>4, TravelKept DEF Batched
    <2>7. \A n \in Nodes : n = Next1 => Travelling(n)'
      BY <1>1, <2>2, <2>4 DEF Travelling
    <2>8. \A n \in Nodes : Travelling(n) => Travelling(n)'
      BY <2>6, <2>7
    <2>9. Listing'
      BY <1>1, <2>1, <2>5, <2>8, ListingKept DEF StrandedInv, Listed
    <2> QED BY <1>2, <1>3, <2>9, StrandedKept
  <1>6. CASE ReportFailed
    <2>1. Reported(Next1, TRUE) /\ inflight' = inflight \ {Next1} /\ UNCHANGED toCloud
      BY <1>6 DEF ReportFailed, ClearInflight, Refused
    <2>3. /\ worker'.pc = "report" /\ worker'.batch = worker.batch \ {Next1}
          /\ worker'.failed = (worker.failed \/ TRUE)
      BY <1>0, <1>1, <2>1, ReportedFacts
    <2>4. Sent' = Sent /\ Coming'
      BY <2>1, <2>3 DEF Sent, Elements, Coming
    <2>6. \A n \in Nodes : n # Next1 => (Travelling(n) => Travelling(n)')
      BY <1>1, <1>2, <1>3, <2>3, <2>4, TravelKept DEF Batched
    <2>7. \A n \in Nodes : Listed(n)' /\ n \in inflight' => Listed(n) /\ n \in inflight /\ n # Next1
      BY <1>1, <2>1 DEF Listed
    <2>8. Listing'
      BY <2>4, <2>6, <2>7, ListingKept DEF StrandedInv
    <2> QED BY <1>2, <1>3, <2>8, StrandedKept
  <1> QED BY <1>5, <1>6

(* The setup and the timer start a drain.                                  *)
LEMMA SetupStranded ==
    ASSUME StrandedInv, KnownInv', SetupDone \/ RetryFires
    PROVE  StrandedInv'
  <1> USE DEF poolVars, listVars, netVars, histVars, otherThreads
  <1>0. BridgeShape
    BY DEF StrandedInv, KnownInv
  <1>1. /\ UNCHANGED <<slots, up, loop, events, cb, worker, fromCloud, toCloud, pend, inflight>>
        /\ stuck' = stuck \/ stuck' = stuck \cap inflight
    BY DEF SetupDone, RetryFires
  <1>2. ComesBack' /\ Lost' = Lost /\ NewUnlisted' /\ Sent' = Sent
    BY <1>1 DEF StrandedInv, ComesBack, Lost, Elements, NewUnlisted, Sent
  <1>3. \A n \in Nodes : InCallback(n)' = InCallback(n) /\ Batched(n)' = Batched(n)
    BY <1>1 DEF InCallback, Batched
  <1>4. Replies' = Replies /\ (\A t \in Elements(queue') : t \in Elements(queue) \/ t.kind = "drain") /\ Coming'
    <2> DEFINE d == [kind |-> "drain"]
    <2>1. d \in BridgeTasks /\ d.kind = "drain"
      BY WorkerReady
    <2>2. CASE RetryFires
      <3>1. queue' = Append(queue, d)
        BY <2>2 DEF RetryFires
      <3> HIDE DEF d
      <3> QED BY <1>0, <1>1, <2>1, <3>1, TaskQueued DEF Coming
    <2>3. CASE SetupDone /\ ~up
      <3>1. TakeTask("setup") /\ queue' = Tail(queue)
        BY <2>3 DEF SetupDone
      <3> QED BY <1>0, <1>1, <2>3, <3>1, OtherTaskTaken DEF Coming
    <2>4. CASE SetupDone /\ up
      <3>1. TakeTask("setup") /\ queue' = Append(Tail(queue), d)
        BY <2>4 DEF SetupDone
      <3>2. /\ queue # <<>> /\ Head(queue).kind = "setup" /\ queue \in Seq(BridgeTasks)
            /\ Tail(queue) \in Seq(BridgeTasks)
        BY <1>0, <3>1, TaskTaken
      <3>3. Elements(queue) = {Head(queue)} \cup Elements(Tail(queue))
        BY <3>2, TailElements
      <3> HIDE DEF d
      <3>4. \A t \in Seq(BridgeTasks) : Elements(Append(t, d)) = Elements(t) \cup {d}
        BY <2>1, AppendElements
      <3>5. Elements(queue') = Elements(Tail(queue)) \cup {d}
        BY <3>1, <3>2, <3>4
      <3>6. Replies' = Replies
        BY <1>1, <2>1, <3>2, <3>3, <3>5 DEF Replies, Elements
      <3>7. d \in Wakers'
        BY <2>1, <3>5 DEF Wakers
      <3> QED BY <2>1, <3>3, <3>5, <3>6, <3>7 DEF Coming
    <2> QED BY <2>2, <2>3, <2>4
  <1>5. OwnQueue'
    BY <1>3, <1>4, NodeFacts DEF StrandedInv, OwnQueue
  <1>6. \A n \in Nodes : Travelling(n) => Travelling(n)'
    BY <1>1, <1>2, <1>3, <1>4, TravelKept
  <1>7. Listing'
    BY <1>1, <1>4, <1>6, ListingKept DEF StrandedInv, Listed
  <1> QED BY <1>2, <1>5, <1>7, StrandedKept

(* A bridgeAck touches no node on the list.                                *)
LEMMA BridgeAckStranded == ASSUME StrandedInv, KnownInv', BridgeAck PROVE StrandedInv'
  <1> USE DEF poolVars, listVars, netVars, histVars, otherThreads
  <1>0. BridgeShape
    BY DEF StrandedInv, KnownInv
  <1> DEFINE m == Head(queue)
             entry == AckTaken(m)
             adds == {s \in SlotOf(m.id) : slots[s].st = "add" /\ \E e \in entry : e.kind = "add"}
  <1>1. /\ TakeTask("ack") /\ queue' = Tail(queue)
        /\ UNCHANGED <<up, loop, events, cb, toCloud, fromCloud, pend, inflight, armed, deaf>>
    BY DEF BridgeAck
  <1>2. ComesBack' /\ Lost' = Lost /\ \A n \in Nodes : InCallback(n)' = InCallback(n)
    BY <1>1 DEF StrandedInv, ComesBack, Lost, Elements, InCallback
  <1>3. /\ Wakers' = Wakers /\ Replies' = Replies /\ Sent' = Sent /\ worker = Idle
        /\ Elements(queue') \subseteq Elements(queue)
    BY <1>0, <1>1, OtherTaskTaken
  <1>4. OwnQueue'
    BY <1>2, <1>3, NodeFacts DEF StrandedInv, OwnQueue
  <1>5. adds \subseteq Slots /\ \A s \in adds : slots[s].st = "add" /\ s \notin pend
    <2>1. \A s \in adds : s \in Slots /\ slots[s].st = "add"
      BY DEF SlotOf
    <2> QED BY <2>1 DEF StrandedInv, NewUnlisted
  <1>6. adds # {} => Min(adds) \in adds
    BY <1>5, NodeFacts, LeastOf
  <1>7. \/ /\ slots' = [n \in Nodes |-> IF n \in adds THEN [slots[n] EXCEPT !.st = "ready"] ELSE slots[n]]
           /\ UNCHANGED <<worker, stuck>>
        \/ /\ adds # {} /\ slots' = [slots EXCEPT ![Min(adds)] = FreeSlot]
           /\ worker' = [pc |-> "reset", slot |-> Min(adds)] /\ stuck' = stuck \ {Min(adds)}
        \/ UNCHANGED <<slots, worker, stuck>>
    BY DEF BridgeAck, TakeBAndFree
  <1> HIDE DEF adds
  <1>8. /\ \A n \in Nodes : n \notin adds => slots'[n] = slots[n] /\ (n \in stuck' <=> n \in stuck)
        /\ \A n \in adds : slots'[n].st # "add" \/ slots'[n] = slots[n]
    <2>1. CASE slots' = [n \in Nodes |-> IF n \in adds THEN [slots[n] EXCEPT !.st = "ready"] ELSE slots[n]]
               /\ UNCHANGED <<worker, stuck>>
      <3>1. \A n \in Nodes : slots[n] \in Children
        BY <1>0 DEF BridgeShape
      <3>2. \A n \in adds : slots'[n].st = "ready"
        BY <1>5, <2>1, <3>1, NodeFacts DEF Children
      <3> QED BY <2>1, <3>2
    <2>2. CASE /\ adds # {} /\ slots' = [slots EXCEPT ![Min(adds)] = FreeSlot] /\ stuck' = stuck \ {Min(adds)}
      <3>1. Min(adds) \in adds /\ Min(adds) \in Nodes
        BY <1>5, <1>6, <2>2, NodeFacts
      <3>2. \A n \in Nodes : slots'[n] = IF n = Min(adds) THEN FreeSlot ELSE slots[n]
        BY <1>0, <2>2 DEF BridgeShape
      <3> QED BY <1>5, <2>2, <3>1, <3>2, NodeFacts DEF FreeSlot
    <2> QED BY <1>7, <2>1, <2>2
  <1>9. NewUnlisted'
    BY <1>1, <1>5, <1>8, NodeFacts DEF StrandedInv, NewUnlisted
  <1>10. Coming => Coming'
    <2>1. worker.pc \notin {"collect", "report"}
      BY <1>3 DEF Idle
    <2> QED BY <1>1, <1>3, <2>1 DEF Coming, Elements
  <1>11. \A n \in Nodes : Listed(n)' => Listed(n) /\ n \notin adds
    BY <1>1, <1>5, <1>8 DEF Listed
  <1>12. \A n \in Nodes : n \notin adds => (Travelling(n) => Travelling(n)')
    BY <1>2, <1>3, <1>8, TravelKept DEF Batched, Idle
  <1>13. Listing'
    BY <1>1, <1>10, <1>11, <1>12, ListingKept DEF StrandedInv
  <1> QED BY <1>2, <1>4, <1>9, <1>13, StrandedKept

(* The node's own answer.                                                  *)
LEMMA SelfAnswerStranded == ASSUME StrandedInv, KnownInv', SelfAnswer PROVE StrandedInv'
  <1> USE DEF poolVars, listVars, netVars, histVars, otherThreads
  <1>0. BridgeShape
    BY DEF StrandedInv, KnownInv
  <1>1. /\ TakeTask("answer") /\ queue' = Tail(queue)
        /\ UNCHANGED <<slots, up, loop, events, cb, worker, toCloud, fromCloud, armed, deaf>>
        /\ \/ pend' = pend /\ inflight' \in {inflight, inflight \ {Self}} /\ stuck' = stuck \cup {Self}
           \/ pend' = pend \ {Self} /\ inflight' = inflight \ {Self} /\ stuck' = stuck
    BY DEF SelfAnswer, NotAccepted, PendingRemove, ClearInflight
  <1>2. ComesBack' /\ Lost' = Lost /\ \A n \in Nodes : InCallback(n)' = InCallback(n) /\ Batched(n)' = Batched(n)
    BY <1>1 DEF StrandedInv, ComesBack, Lost, Elements, InCallback, Batched
  <1>3. /\ Wakers' = Wakers /\ Sent' = Sent /\ Elements(queue') \subseteq Elements(queue)
    BY <1>0, <1>1, OtherTaskTaken
  <1>4. OwnQueue' /\ NewUnlisted'
    BY <1>1, <1>2, <1>3, NodeFacts DEF StrandedInv, OwnQueue, NewUnlisted
  <1>5. \A m \in Replies : m \in Replies' \/ m.hash[1] = "self"
    <2>1. /\ queue # <<>> /\ queue \in Seq(BridgeTasks) /\ Head(queue).kind = "answer"
      BY <1>0, <1>1, TaskTaken
    <2>2. Elements(queue) = {Head(queue)} \cup Elements(queue') /\ Elements(fromCloud') = Elements(fromCloud)
      BY <1>1, <2>1, TailElements
    <2>3. Head(queue).hash[1] = "self"
      BY <2>1, <2>2 DEF StrandedInv, OwnQueue
    <2> QED BY <2>2, <2>3 DEF Replies
  <1>6. \A n \in Nodes : n # Self => slots[n].id # "self" \/ slots[n].st = "free"
    BY <1>0, IdsAssumption, NodeFacts DEF BridgeShape
  <1>7. Coming => Coming'
    BY <1>1, <1>3 DEF Coming, Elements
  <1>8. \A n \in Nodes : Listed(n)' => Listed(n) /\ n # Self /\ slots[n].id # "self" /\ (n \in inflight' <=> n \in inflight)
    BY <1>1, <1>6 DEF Listed
  <1>9. \A n \in Nodes : slots[n].id # "self" => (Travelling(n) => Travelling(n)')
    BY <1>1, <1>2, <1>3, <1>5, TravelKept
  <1>10. Listing'
    BY <1>7, <1>8, <1>9, ListingKept DEF StrandedInv
  <1> QED BY <1>2, <1>4, <1>10, StrandedKept

(* The callback of a child, in the client's thread.                        *)
LEMMA CallbackStranded ==
    ASSUME StrandedInv, KnownInv', CbCompare \/ CbPersist \/ WorkerReset
    PROVE  StrandedInv'
  <1> USE DEF poolVars, listVars, netVars, histVars, otherThreads
  <1>0. BridgeShape
    BY DEF StrandedInv, KnownInv
  <1>1. /\ UNCHANGED <<slots, up, loop, events, toCloud, fromCloud, queue, armed, deaf>>
        /\ pend' \subseteq pend /\ stuck \subseteq stuck'
    BY DEF CbCompare, CbPersist, WorkerReset, ResetNode, PendingRemove, ClearInflight
  <1>2. ComesBack' /\ Lost' = Lost /\ NewUnlisted' /\ Sent' = Sent /\ Replies' = Replies
    BY <1>1 DEF StrandedInv, ComesBack, Lost, Elements, NewUnlisted, Sent, Replies
  <1>3. Coming => Coming'
    <2>1. worker' = worker \/ worker.pc = "reset"
      BY DEF CbCompare, CbPersist, WorkerReset
    <2> QED BY <1>1, <2>1 DEF Coming, Wakers, Elements
  <1>4. CASE WorkerReset
    <2> DEFINE s == worker.slot
    <2>1. /\ worker.pc = "reset" /\ pend' = pend \ {s} /\ inflight' = inflight \ {s} /\ UNCHANGED <<cb, stuck>>
      BY <1>4 DEF WorkerReset, ResetNode, PendingRemove
    <2>2. OwnQueue' /\ \A n \in Nodes : InCallback(n)' = InCallback(n)
      BY <1>1, <2>1 DEF StrandedInv, OwnQueue, Elements, InCallback
    <2>3. \A n \in Nodes : Travelling(n) => Travelling(n)'
      BY <1>1, <1>2, <2>1, <2>2, TravelKept DEF Batched
    <2>4. \A n \in Nodes : Listed(n)' => Listed(n) /\ (n \in inflight' <=> n \in inflight)
      BY <1>1, <2>1 DEF Listed
    <2>5. Listing'
      BY <1>3, <2>3, <2>4, ListingKept DEF StrandedInv
    <2> QED BY <1>2, <2>2, <2>5, StrandedKept
  <1>5. CASE CbCompare \/ CbPersist
    <2>1. cb # Idle /\ cb = [pc |-> cb.pc, node |-> cb.node, hash |-> cb.hash] /\ cb.node \in Nodes
      BY <1>0, <1>5 DEF CbCompare, CbPersist, BridgeShape, ClientStates, Idle
    <2>2. /\ UNCHANGED worker
          /\ \/ cb' = Idle /\ (cb.node \in stuck' \/ cb.node \notin pend') /\ inflight' = inflight \ {cb.node}
             \/ cb' = [cb EXCEPT !.pc = "persist"] /\ UNCHANGED <<pend, inflight, stuck>>
          /\ \A n \in Nodes : n # cb.node => (n \in stuck' <=> n \in stuck)
      BY <1>5 DEF CbCompare, CbPersist, PendingRemove, ClearInflight
    <2>3. \/ cb' = Idle
          \/ cb' # Idle /\ cb'.node = cb.node
      BY <2>1, <2>2 DEF Idle
    <2>4. \A n \in Nodes : InCallback(n)' => InCallback(n)
      BY <2>1, <2>3 DEF InCallback
    <2>5. OwnQueue'
      BY <1>1, <2>4, NodeFacts DEF StrandedInv, OwnQueue, Elements
    <2>6. \A n \in Nodes : Listed(n)' => Listed(n) /\ (n \in inflight' <=> n \in inflight) /\ (n # cb.node \/ cb' # Idle)
      <3>1. \A n \in Nodes : Listed(n)' => Listed(n) /\ n \in pend' /\ n \notin stuck'
        BY <1>1 DEF Listed
      <3>2. CASE cb' = Idle /\ (cb.node \in stuck' \/ cb.node \notin pend') /\ inflight' = inflight \ {cb.node}
        BY <3>1, <3>2
      <3>3. CASE cb' = [cb EXCEPT !.pc = "persist"] /\ UNCHANGED <<pend, inflight, stuck>>
        <4>1. cb' # Idle
          BY <2>1, <3>3 DEF Idle
        <4> QED BY <3>1, <3>3, <4>1
      <3> QED BY <2>2, <3>2, <3>3
    <2>7. \A n \in Nodes : n # cb.node \/ cb' # Idle => (InCallback(n) => InCallback(n)')
      BY <2>3 DEF InCallback
    <2>8. \A n \in Nodes : n # cb.node \/ cb' # Idle => (Travelling(n) => Travelling(n)')
      BY <1>1, <1>2, <2>2, <2>7, TravelKept DEF Batched
    <2>9. Listing'
      BY <1>3, <2>6, <2>8, ListingKept DEF StrandedInv
    <2> QED BY <1>2, <2>5, <2>9, StrandedKept
  <1> QED BY <1>4, <1>5

(* An answer for a child,                                                  *)
LEMMA ChildAnswerStranded == ASSUME StrandedInv, KnownInv', ChildAnswer PROVE StrandedInv'
  <1> USE DEF poolVars, listVars, netVars, histVars, otherThreads
  <1>0. BridgeShape
    BY DEF StrandedInv, KnownInv
  <1> DEFINE m == Head(fromCloud)
  <1>1. /\ UNCHANGED <<slots, up, loop, events, toCloud, queue, armed, deaf, worker, pend>>
        /\ cb = Idle /\ fromCloud # <<>> /\ m.kind = "answer" /\ m.hash[1] # "self"
        /\ fromCloud' = Tail(fromCloud)
    BY DEF ChildAnswer, NotAccepted, ClearInflight
  <1>2. ComesBack' /\ Lost' = Lost /\ NewUnlisted' /\ Sent' = Sent /\ Coming' = Coming
    BY <1>1 DEF StrandedInv, ComesBack, Lost, Elements, NewUnlisted, Sent, Coming, Wakers
  <1>3. Elements(fromCloud) = {m} \cup Elements(fromCloud') /\ Elements(queue') = Elements(queue)
    <2>1. fromCloud \in Seq(Downward)
      BY <1>0 DEF BridgeShape
    <2> QED BY <1>1, <2>1, TailElements
  <1>4. \A r \in Replies : r \in Replies' \/ r.hash[1] = m.hash[1]
    BY <1>3 DEF Replies
  <1>5. \A n \in Nodes : ~InCallback(n) /\ Batched(n)' = Batched(n)
    BY <1>1 DEF InCallback, Batched
  <1>6. \A n \in Nodes : slots[n].id # m.hash[1] => (Travelling(n) => Travelling(n)')
    BY <1>1, <1>2, <1>4, <1>5, TravelKept
  <1>7. CASE /\ SlotOf(m.hash[1]) \cap Ready = {}
             /\ stuck' = stuck \cup SlotOf(m.hash[1]) /\ UNCHANGED <<cb, inflight>>
    <2>1. OwnQueue'
      BY <1>1, <1>7 DEF StrandedInv, OwnQueue, Elements, InCallback
    <2>2. \A n \in Nodes : Listed(n)' => Listed(n) /\ slots[n].id # m.hash[1]
      <3>1. \A n \in Nodes : Listed(n)' => Listed(n) /\ n \notin SlotOf(m.hash[1]) /\ slots[n].st = "ready"
        BY <1>1, <1>7 DEF Listed
      <3> QED BY <1>0, <1>1, <3>1, NodeFacts DEF SlotOf, BridgeShape
    <2>3. Listing'
      BY <1>2, <1>6, <1>7, <2>2, ListingKept DEF StrandedInv
    <2> QED BY <1>2, <2>1, <2>3, StrandedKept
  <1>8. ASSUME NEW s \in SlotOf(m.hash[1]) \cap Ready,
               \/ /\ UNCHANGED cb /\ stuck' = stuck \cup {s} /\ inflight' \in {inflight, inflight \ {s}}
               \/ /\ cb' = [pc |-> "compare", node |-> s, hash |-> inbox[s]] /\ UNCHANGED <<inflight, stuck>>
        PROVE  StrandedInv'
    <2>1. s \in Slots /\ slots[s].st = "ready" /\ slots[s].id = m.hash[1] /\ s # Self
      BY NodeFacts DEF SlotOf, Ready
    <2>2. OwnQueue'
      BY <1>1, <1>8, <2>1 DEF StrandedInv, OwnQueue, Elements, InCallback
    <2>3. \A n \in Nodes : n # s /\ slots[n].st = "ready" => slots[n].id # m.hash[1]
      BY <1>0, <1>1, <2>1, NodeFacts DEF StrandedInv, KnownInv, Apart, BridgeShape
    <2>4. \/ InCallback(s)'
          \/ ~Listed(s)'
      BY <1>8 DEF InCallback, Listed, Idle
    <2>5. \A n \in Nodes : n = s => (Travelling(n)' \/ ~Listed(n)')
      BY <2>4 DEF Travelling
    <2>6. \A n \in Nodes : Listed(n)' => Listed(n) /\ slots[n].st = "ready" /\ (n # s => (n \in inflight' <=> n \in inflight))
      BY <1>1, <1>8 DEF Listed
    <2>7. \A n \in Nodes : n = s /\ Listed(n)' => (n \in inflight' <=> n \in inflight)
      BY <1>8 DEF Listed
    <2>8. Listing'
      BY <1>2, <1>6, <2>3, <2>5, <2>6, <2>7, ListingKept DEF StrandedInv
    <2> QED BY <1>2, <2>2, <2>8, StrandedKept
  <1>9. \/ /\ SlotOf(m.hash[1]) \cap Ready = {}
           /\ stuck' = stuck \cup SlotOf(m.hash[1]) /\ UNCHANGED <<cb, inflight>>
        \/ \E s \in SlotOf(m.hash[1]) \cap Ready :
               \/ /\ UNCHANGED cb /\ stuck' = stuck \cup {s} /\ inflight' \in {inflight, inflight \ {s}}
               \/ /\ cb' = [pc |-> "compare", node |-> s, hash |-> inbox[s]] /\ UNCHANGED <<inflight, stuck>>
    BY DEF ChildAnswer, NotAccepted, ClearInflight
  <1> QED BY <1>7, <1>8, <1>9

(* and any other message of the cloud.                                     *)
LEMMA ToWorkerStranded == ASSUME StrandedInv, KnownInv', ToWorker PROVE StrandedInv'
  <1> USE DEF poolVars, listVars, netVars, histVars, otherThreads
  <1>0. BridgeShape
    BY DEF StrandedInv, KnownInv
  <1> DEFINE m == Head(fromCloud)
  <1>1. /\ UNCHANGED <<slots, up, loop, events, toCloud, armed, deaf, worker, pend, inflight, cb>>
        /\ fromCloud # <<>> /\ (m.kind = "answer" => m.hash[1] = "self")
        /\ fromCloud' = Tail(fromCloud)
        /\ \/ queue' = Append(queue, m) /\ stuck' = stuck
           \/ queue' = queue /\ stuck' = stuck \cup {Self}
    BY DEF ToWorker
  <1>2. ComesBack' /\ Lost' = Lost /\ NewUnlisted' /\ Sent' = Sent
    BY <1>1 DEF StrandedInv, ComesBack, Lost, Elements, NewUnlisted, Sent
  <1>3. m \in BridgeTasks /\ queue \in Seq(BridgeTasks) /\ Elements(fromCloud) = {m} \cup Elements(fromCloud')
    <2>1. fromCloud \in Seq(Downward) /\ m \in Downward
      BY <1>0, <1>1, QueueFacts DEF BridgeShape
    <2> QED BY <1>0, <1>1, <2>1, TailElements, TaskKinds DEF BridgeShape
  <1> HIDE DEF m
  <1>4. \/ Elements(queue') = Elements(queue) \cup {m} /\ stuck' = stuck
        \/ Elements(queue') = Elements(queue) /\ stuck' = stuck \cup {Self}
    <2>1. Elements(Append(queue, m)) = Elements(queue) \cup {m}
      BY <1>3, AppendElements
    <2> QED BY <1>1, <2>1
  <1>5. Coming => Coming'
    BY <1>1, <1>4 DEF Coming, Wakers, Elements
  <1>6. OwnQueue'
    BY <1>1, <1>4 DEF StrandedInv, OwnQueue, InCallback
  <1>7. \A r \in Replies : r \in Replies' \/ (r.hash[1] = "self" /\ Self \in stuck')
    BY <1>1, <1>3, <1>4 DEF Replies
  <1>8. \A n \in Nodes : InCallback(n)' = InCallback(n) /\ Batched(n)' = Batched(n)
    BY <1>1 DEF InCallback, Batched
  <1>9. \A n \in Nodes : Listed(n)' => Listed(n) /\ ~(slots[n].id = "self" /\ Self \in stuck')
    BY <1>0, <1>1, IdsAssumption, NodeFacts DEF Listed, BridgeShape
  <1>10. \A n \in Nodes : ~(slots[n].id = "self" /\ Self \in stuck') => (Travelling(n) => Travelling(n)')
    BY <1>1, <1>2, <1>7, <1>8, TravelKept
  <1>11. Listing'
    BY <1>1, <1>5, <1>9, <1>10, ListingKept DEF StrandedInv
  <1> QED BY <1>2, <1>6, <1>11, StrandedKept

(* An event is taken,                                                      *)
LEMMA EventTaken ==
    ASSUME BridgeShape, events # <<>>, events' = Tail(events), UNCHANGED up,
           loop = "idle"
    PROVE  /\ Elements(events) = {Head(events)} \cup Elements(events')
           /\ ComesBack => /\ loop' = "idle" \/ Head(events) = "down" => ComesBack'
                           /\ Head(events) = "down" /\ up => "up" \in Elements(events')
  <1>1. /\ events \in Seq({"ok", "fail", "up", "down"}) /\ Head(events) = events[1] /\ 1 \in DOMAIN events
        /\ \A i \in DOMAIN events' : i + 1 \in DOMAIN events /\ events'[i] = events[i + 1] /\ i \in Nat
        /\ \A i \in DOMAIN events : i # 1 => i - 1 \in DOMAIN events' /\ events'[i - 1] = events[i] /\ i \in Nat
    BY QueueFacts DEF BridgeShape
  <1>2. Elements(events) = {Head(events)} \cup Elements(events')
    BY <1>1, TailElements
  <1>3. ASSUME ComesBack, up
        PROVE  /\ \A i \in DOMAIN events' : events'[i] = "down" =>
                     \E k \in DOMAIN events' : i < k /\ events'[k] = "up"
               /\ Head(events) = "down" => "up" \in Elements(events')
    <2>1. ASSUME NEW i \in DOMAIN events', events'[i] = "down"
          PROVE  \E k \in DOMAIN events' : i < k /\ events'[k] = "up"
      <3>1. i + 1 \in DOMAIN events /\ events[i + 1] = "down" /\ i \in Nat
        BY <1>1, <2>1
      <3>2. PICK k \in DOMAIN events : i + 1 < k /\ events[k] = "up"
        BY <1>3, <3>1 DEF ComesBack
      <3>3. k # 1 /\ k - 1 \in DOMAIN events' /\ events'[k - 1] = "up" /\ i < k - 1
        BY <1>1, <3>1, <3>2
      <3> QED BY <3>3
    <2>2. ASSUME Head(events) = "down" PROVE "up" \in Elements(events')
      <3>1. PICK k \in DOMAIN events : 1 < k /\ events[k] = "up"
        BY <1>1, <1>3, <2>2 DEF ComesBack
      <3>2. k - 1 \in DOMAIN events' /\ events'[k - 1] = "up"
        BY <1>1, <3>1
      <3> QED BY <3>2 DEF Elements
    <2> QED BY <2>1, <2>2
  <1> QED BY <1>2, <1>3 DEF ComesBack

(* or one more is queued: a connection that comes back stays announced.    *)
LEMMA EventAdded ==
    ASSUME BridgeShape, NEW e \in {"ok", "up"}, events' = Append(events, e), UNCHANGED loop,
           UNCHANGED up \/ e = "up"
    PROVE  /\ Elements(events') = Elements(events) \cup {e} /\ (ComesBack => ComesBack')
           /\ Lost => Lost'
  <1>1. events \in Seq({"ok", "fail", "up", "down"}) /\ e \in {"ok", "fail", "up", "down"}
    BY DEF BridgeShape
  <1>2. Elements(events') = Elements(events) \cup {e}
    BY <1>1, AppendElements
  <1>3. /\ DOMAIN events \subseteq DOMAIN events' /\ \A i \in DOMAIN events : events'[i] = events[i] /\ i \in Nat /\ i < Len(events) + 1
        /\ \A i \in DOMAIN events' : i \in DOMAIN events \/ events'[i] = e
        /\ Len(events) + 1 \in DOMAIN events' /\ events'[Len(events) + 1] = e
    BY <1>1, AppendFacts
  <1>4. ASSUME ComesBack, up' PROVE ComesBack'
    <2>1. ASSUME NEW i \in DOMAIN events', events'[i] = "down"
          PROVE  \E k \in DOMAIN events' : i < k /\ events'[k] = "up"
      <3>1. i \in DOMAIN events /\ events[i] = "down"
        BY <1>3, <2>1
      <3>2. CASE e = "up"
        BY <1>3, <3>1, <3>2
      <3>3. CASE up
        <4>1. PICK k \in DOMAIN events : i < k /\ events[k] = "up"
          BY <1>4, <3>1, <3>3 DEF ComesBack
        <4> QED BY <1>3, <4>1
      <3> QED BY <1>4, <3>2, <3>3
    <2>2. loop = "clear" => "up" \in Elements(events')
      BY <1>2, <1>4 DEF ComesBack
    <2> QED BY <2>1, <2>2 DEF ComesBack
  <1>5. ~up' => ComesBack'
    BY DEF ComesBack
  <1> QED BY <1>2, <1>4, <1>5 DEF Lost

(* The event loop.                                                         *)
LEMMA LoopStranded == ASSUME StrandedInv, KnownInv', Loop PROVE StrandedInv'
  <1> USE DEF poolVars, listVars, netVars, histVars, otherThreads
  <1>0. BridgeShape
    BY DEF StrandedInv, KnownInv
  <1>1. /\ UNCHANGED <<slots, pend, cb, worker, toCloud, fromCloud, up>>
    BY DEF Loop, Puback, Disconnected, ClearAllInflight, Reconnected
  <1>2. NewUnlisted' /\ Sent' = Sent /\ \A n \in Nodes : InCallback(n)' = InCallback(n) /\ Batched(n)' = Batched(n)
    BY <1>1 DEF StrandedInv, NewUnlisted, Sent, Elements, InCallback, Batched
  <1>3. CASE Puback
    <2>1. /\ loop = "idle" /\ events # <<>> /\ Head(events) \in {"ok", "fail"} /\ events' = Tail(events)
          /\ armed' = (Head(events) = "fail") /\ UNCHANGED <<loop, queue, inflight, deaf>>
          /\ stuck' = IF armed /\ Head(events) = "ok" THEN stuck \cup pend ELSE stuck
      BY <1>3 DEF Puback
    <2>2. Elements(events) = {Head(events)} \cup Elements(events') /\ ComesBack'
      BY <1>0, <1>1, <2>1, EventTaken DEF StrandedInv
    <2>3. OwnQueue' /\ Replies' = Replies /\ Wakers' = Wakers
      BY <1>1, <2>1 DEF StrandedInv, OwnQueue, Elements, InCallback, Replies, Wakers
    <2>4. Lost => Lost'
      BY <2>1, <2>2 DEF Lost
    <2>5. \A n \in Nodes : Travelling(n) => Travelling(n)'
      BY <1>1, <1>2, <2>3, <2>4, TravelKept
    <2>6. CASE armed /\ Head(events) = "ok"
      <3>1. \A n \in Nodes : ~Listed(n)'
        BY <1>1, <2>1, <2>6 DEF Listed
      <3> QED BY <1>2, <2>2, <2>3, <3>1, StrandedKept DEF Listing
    <2>7. CASE ~(armed /\ Head(events) = "ok")
      <3>1. Coming => Coming'
        BY <1>1, <2>1, <2>2, <2>3, <2>7 DEF Coming
      <3>2. Listing'
        BY <1>1, <2>1, <2>5, <2>7, <3>1, ListingKept DEF StrandedInv, Listed
      <3> QED BY <1>2, <2>2, <2>3, <3>2, StrandedKept
    <2> QED BY <2>6, <2>7
  <1>4. CASE Disconnected
    <2>1. /\ loop = "idle" /\ events # <<>> /\ Head(events) = "down" /\ events' = Tail(events)
          /\ loop' = "clear" /\ UNCHANGED <<queue, inflight, deaf, stuck, armed>>
      BY <1>4 DEF Disconnected
    <2>2. /\ Elements(events) = {Head(events)} \cup Elements(events') /\ ComesBack'
          /\ up => "up" \in Elements(events')
      BY <1>0, <1>1, <2>1, EventTaken DEF StrandedInv
    <2>3. OwnQueue' /\ Replies' = Replies
      BY <1>1, <2>1 DEF StrandedInv, OwnQueue, Elements, InCallback, Replies
    <2>4. Lost' /\ Coming'
      BY <1>1, <2>1, <2>2 DEF Lost, Coming
    <2>5. \A n \in Nodes : Travelling(n) => Travelling(n)'
      BY <1>1, <1>2, <2>3, <2>4, TravelKept
    <2>6. Listing'
      BY <1>1, <2>1, <2>4, <2>5, ListingKept DEF StrandedInv, Listed
    <2> QED BY <1>2, <2>2, <2>3, <2>6, StrandedKept
  <1>5. CASE ClearAllInflight
    <2>1. loop = "clear" /\ loop' = "idle" /\ inflight' = inflight \ Ready /\ UNCHANGED <<queue,
                                                                                          events, stuck>>
      BY <1>5 DEF ClearAllInflight
    <2>2. ComesBack' /\ Coming'
      BY <1>1, <2>1 DEF StrandedInv, ComesBack, Coming, Elements
    <2>3. OwnQueue'
      BY <1>1, <2>1 DEF StrandedInv, OwnQueue, Elements, InCallback
    <2>4. \A n \in Nodes : Listed(n)' => n \notin inflight'
      BY <1>1, <2>1 DEF Listed, Ready
    <2>5. Listing'
      BY <2>2, <2>4 DEF Listing, Seen
    <2> QED BY <1>2, <2>2, <2>3, <2>5, StrandedKept
  <1>6. CASE Reconnected
    <2> DEFINE t == [kind |-> "setup"]
    <2>1. /\ loop = "idle" /\ events # <<>> /\ Head(events) = "up" /\ events' = Tail(events)
          /\ UNCHANGED <<loop, inflight, stuck, armed>>
          /\ \/ queue' = Append(queue, t)
             \/ deaf' = TRUE /\ UNCHANGED queue
      BY <1>6 DEF Reconnected
    <2>2. Elements(events) = {Head(events)} \cup Elements(events') /\ ComesBack'
      BY <1>0, <1>1, <2>1, EventTaken DEF StrandedInv
    <2>3. t \in BridgeTasks /\ t.kind = "setup"
      BY WorkerReady
    <2> HIDE DEF t
    <2>4. Replies' = Replies /\ Coming' /\ \A d \in Elements(queue') : d \in Elements(queue) \/ d = t
      <3>1. CASE queue' = Append(queue, t)
        BY <1>0, <1>1, <2>3, <3>1, TaskQueued DEF Coming
      <3>2. CASE deaf' = TRUE /\ UNCHANGED queue
        BY <1>1, <3>2 DEF Coming, Replies, Elements
      <3> QED BY <2>1, <3>1, <3>2
    <2>5. OwnQueue'
      BY <1>1, <2>3, <2>4 DEF StrandedInv, OwnQueue, InCallback
    <2>6. Lost => Lost'
      BY <2>1, <2>2 DEF Lost
    <2>7. \A n \in Nodes : Travelling(n) => Travelling(n)'
      BY <1>1, <1>2, <2>4, <2>6, TravelKept
    <2>8. Listing'
      BY <1>1, <2>1, <2>4, <2>7, ListingKept DEF StrandedInv, Listed
    <2> QED BY <1>2, <2>2, <2>5, <2>8, StrandedKept
  <1> QED BY <1>3, <1>4, <1>5, <1>6 DEF Loop

(* The connection is lost, and comes back.                                 *)
LEMMA ConnectionStranded == ASSUME StrandedInv, KnownInv', Drop \/ Connect PROVE StrandedInv'
  <1> USE DEF poolVars, listVars, netVars, histVars, otherThreads
  <1>0. BridgeShape
    BY DEF StrandedInv, KnownInv
  <1>1. UNCHANGED <<slots, pend, inflight, cb, worker, queue, armed, stuck, loop, deaf>>
    BY DEF Drop, Connect
  <1>2. /\ NewUnlisted' /\ OwnQueue'
        /\ \A n \in Nodes : InCallback(n)' = InCallback(n) /\ Batched(n)' = Batched(n)
    BY <1>1 DEF StrandedInv, NewUnlisted, OwnQueue, Elements, InCallback, Batched
  <1>3. CASE Drop
    <2> DEFINE f == [i \in 1 .. Cardinality({j \in DOMAIN toCloud : toCloud[j].kind = "config"}) |-> "fail"]
    <2>1. /\ up' = FALSE
          /\ events' = (events \o f) \o <<"down">>
      BY <1>3 DEF Drop
    <2>2. ComesBack' /\ Coming'
      BY <2>1 DEF ComesBack, Coming
    <2>3. "down" \in Elements(events')
      <3>0. toCloud \in Seq(Upward) /\ DOMAIN toCloud = 1 .. Len(toCloud) /\ Len(toCloud) \in Nat
        BY <1>0 DEF BridgeShape
      <3>1. IsFiniteSet(DOMAIN toCloud)
        BY <3>0, FS_Interval
      <3>2. Cardinality({j \in DOMAIN toCloud : toCloud[j].kind = "config"}) \in Nat
        BY <3>1, FS_Subset, FS_CardinalityType
      <3>3. f \in Seq({"ok", "fail", "up", "down"})
        <4>1. \A k \in Nat : [i \in 1 .. k |-> "fail"] \in Seq({"ok", "fail", "up", "down"})
          OBVIOUS
        <4> DEFINE k == Cardinality({j \in DOMAIN toCloud : toCloud[j].kind = "config"})
        <4>2. k \in Nat /\ f = [i \in 1 .. k |-> "fail"]
          BY <3>2
        <4> HIDE DEF k, f
        <4> QED BY <4>1, <4>2
      <3> HIDE DEF f
      <3>4. events \o f \in Seq({"ok", "fail", "up", "down"})
        BY <1>0, <3>3 DEF BridgeShape
      <3> DEFINE g == events \o f
      <3> HIDE DEF g
      <3>5. g \in Seq({"ok", "fail", "up", "down"}) /\ events' = g \o <<"down">>
        BY <2>1, <3>4 DEF g
      <3>6. Len(g) + 1 \in DOMAIN events' /\ events'[Len(g) + 1] = "down"
        BY <3>5
      <3> QED BY <3>6 DEF Elements
    <2>4. \A n \in Nodes : Travelling(n)'
      BY <2>3 DEF Travelling, Lost
    <2>5. Listing'
      BY <1>1, <2>2, <2>4, ListingKept DEF StrandedInv, Listed
    <2> QED BY <1>2, <2>2, <2>5, StrandedKept
  <1>4. CASE Connect
    <2>1. UNCHANGED <<toCloud, fromCloud>> /\ events' = Append(events, "up") /\ up' = TRUE
      BY <1>4 DEF Connect
    <2>2. /\ Elements(events') = Elements(events) \cup {"up"} /\ ComesBack' /\ (Lost => Lost')
      BY <1>0, <1>1, <2>1, EventAdded DEF StrandedInv
    <2>3. Coming'
      BY <2>2 DEF Coming
    <2>4. Sent' = Sent /\ Replies' = Replies
      BY <1>1, <2>1 DEF Sent, Replies, Elements
    <2>5. \A n \in Nodes : Travelling(n) => Travelling(n)'
      BY <1>1, <1>2, <2>2, <2>4, TravelKept
    <2>6. Listing'
      BY <1>1, <2>3, <2>5, ListingKept DEF StrandedInv, Listed
    <2> QED BY <1>2, <2>2, <2>6, StrandedKept
  <1> QED BY <1>3, <1>4

(* The cloud answers, or gives the node up.                                *)
LEMMA CloudStranded == ASSUME StrandedInv, KnownInv', Cloud PROVE StrandedInv'
  <1> USE DEF poolVars, listVars, netVars, histVars, otherThreads
  <1>0. BridgeShape
    BY DEF StrandedInv, KnownInv
  <1> DEFINE m == Head(toCloud)
             gone == {n \in Nodes : /\ slots[n].st # "free" /\ m.kind = "config" /\ slots[n].id = m.hash[1]}
  <1>1. /\ UNCHANGED <<slots, pend, inflight, cb, worker, queue, armed, loop, deaf, up>>
        /\ toCloud # <<>> /\ toCloud' = Tail(toCloud) /\ toCloud \in Seq(Upward) /\ m \in Upward
        /\ \/ events' = Append(events, "ok")
           \/ events' = events
    BY <1>0, QueueFacts DEF Cloud, BridgeShape
  <1>2. /\ NewUnlisted' /\ OwnQueue'
        /\ \A n \in Nodes : InCallback(n)' = InCallback(n) /\ Batched(n)' = Batched(n)
    BY <1>1 DEF StrandedInv, NewUnlisted, OwnQueue, Elements, InCallback, Batched
  <1>3. Elements(events) \subseteq Elements(events') /\ ComesBack' /\ (Lost => Lost')
    <2>1. CASE events' = Append(events, "ok")
      BY <1>0, <1>1, <2>1, EventAdded DEF StrandedInv
    <2>2. CASE events' = events
      BY <1>1, <2>2 DEF StrandedInv, Elements, ComesBack, Lost
    <2> QED BY <1>1, <2>1, <2>2
  <1>4. Coming => Coming'
    BY <1>1, <1>3 DEF Coming, Wakers, Elements
  <1>5. Elements(toCloud) = {m} \cup Elements(toCloud')
    BY <1>1, TailElements
  <1>6. \A c \in Sent : c \in Sent' \/ c = m
    BY <1>5 DEF Sent
  <1>7. Reply(m, TRUE) \in Downward /\ Reply(m, FALSE) \in Downward /\ fromCloud \in Seq(Downward)
    BY <1>0, <1>1, ReplyType DEF BridgeShape
  <1>8. m.kind = "config" => \A ok \in BOOLEAN : Reply(m, ok).kind = "answer" /\ Reply(m, ok).hash = m.hash
    BY DEF Reply
  <1> HIDE DEF m
  <1>9. \/ \E ok \in BOOLEAN : fromCloud' = Append(fromCloud, Reply(m, ok)) /\ stuck' = stuck
        \/ m.kind = "add" /\ stuck' = stuck /\ fromCloud' = fromCloud \o <<Reply(m, TRUE),
                                                                           Reply(m, TRUE)>>
        \/ fromCloud' = fromCloud /\ stuck' = stuck \cup gone
    BY DEF Cloud, m
  <1>10. /\ stuck \subseteq stuck' /\ Elements(fromCloud) \subseteq Elements(fromCloud')
         /\ m.kind = "config" => \/ \E r \in Elements(fromCloud') : r.kind = "answer" /\ r.hash = m.hash
                                 \/ gone \subseteq stuck'
    <2>1. ASSUME NEW ok \in BOOLEAN, fromCloud' = Append(fromCloud, Reply(m, ok)) /\ stuck' = stuck
          PROVE  <1>10
      <3>1. \A a \in Downward : Elements(Append(fromCloud, a)) = Elements(fromCloud) \cup {a}
        BY <1>7, AppendElements
      <3>2. Reply(m, ok) \in Downward
        BY <1>7
      <3>3. Elements(fromCloud') = Elements(fromCloud) \cup {Reply(m, ok)}
        BY <2>1, <3>1, <3>2
      <3> QED BY <1>8, <2>1, <3>3
    <2>2. CASE m.kind = "add" /\ stuck' = stuck /\ fromCloud' = fromCloud \o <<Reply(m, TRUE),
                                                                               Reply(m, TRUE)>>
      <3> DEFINE a == Reply(m, TRUE)
      <3>1. a \in Downward /\ fromCloud' = fromCloud \o <<a, a>>
        BY <1>7, <2>2
      <3> HIDE DEF a
      <3>2. \A i \in DOMAIN fromCloud : i \in DOMAIN fromCloud' /\ fromCloud'[i] = fromCloud[i]
        BY <1>7, <3>1
      <3> QED BY <2>2, <3>2 DEF Elements
    <2>3. CASE fromCloud' = fromCloud /\ stuck' = stuck \cup gone
      BY <2>3 DEF Elements
    <2> QED BY <1>9, <2>1, <2>2, <2>3
  <1>12. Replies \subseteq Replies'
    BY <1>1, <1>10 DEF Replies, Elements
  <1>13. \A n \in Nodes : Listed(n)' => Listed(n) /\ slots[n].st = "ready" /\ n \notin stuck'
    BY <1>1, <1>10 DEF Listed
  <1>14. ASSUME NEW n \in Nodes, slots[n].st = "ready", n \notin stuck', Travelling(n) PROVE Travelling(n)'
    <2>1. CASE \A c \in Sent : c.hash[1] = slots[n].id => c \in Sent'
      BY <1>1, <1>2, <1>3, <1>12, <1>14, <2>1, TravelKept
    <2>2. CASE m.kind = "config" /\ m.hash[1] = slots[n].id
      <3>1. n \in gone
        BY <1>14, <2>2
      <3>2. PICK r \in Replies' : r.hash = m.hash
        BY <1>10, <1>14, <2>2, <3>1 DEF Replies
      <3>3. r.hash[1] = slots'[n].id
        BY <1>1, <2>2, <3>2
      <3>4. \A k \in Nodes : k = n => Travelling(k)'
        BY <3>2, <3>3 DEF Travelling
      <3> QED BY <3>4
    <2> QED BY <1>6, <2>1, <2>2 DEF Sent
  <1>15. Listing'
    BY <1>1, <1>4, <1>13, <1>14, ListingKept DEF StrandedInv
  <1> QED BY <1>2, <1>3, <1>15, StrandedKept

(* The invariant holds initially,                                          *)
LEMMA StrandedInit == Init => StrandedInv
  <1> SUFFICES ASSUME Init PROVE StrandedInv
    OBVIOUS
  <1>1. /\ queue = <<[kind |-> "setup"]>> /\ events = <<>> /\ cb = Idle /\ loop = "idle" /\ pend = {Self}
        /\ inflight = {}
    BY DEF Init
  <1>2. Elements(queue) = {[kind |-> "setup"]} /\ Elements(events) = {} /\ DOMAIN events = {}
    BY <1>1, EmptyElements, NoMessage DEF Elements
  <1>3. [kind |-> "setup"] \in Wakers
    BY <1>2 DEF Wakers
  <1>4. Listing
    BY <1>1, <1>3 DEF Listing, Seen, Coming
  <1>5. NewUnlisted /\ OwnQueue /\ ComesBack
    BY <1>1, <1>2, NodeFacts DEF NewUnlisted, OwnQueue, ComesBack, InCallback
  <1> QED BY <1>4, <1>5, KnownInit DEF StrandedInv

(* every step keeps it,                                                    *)
LEMMA StrandedNext == StrandedInv /\ [Next]_vars => StrandedInv'
  <1> SUFFICES ASSUME StrandedInv, [Next]_vars PROVE StrandedInv'
    OBVIOUS
  <1>0. KnownInv'
    BY KnownNext DEF StrandedInv
  <1>1. CASE AppCall
    BY <1>0, <1>1, AppCallStranded
  <1>2. CASE AppStep
    BY <1>0, <1>2, AppStepStranded
  <1>3. CASE Worker
    BY <1>0, <1>3, DrainStranded, ReportStranded, SetupStranded, BridgeAckStranded,
       CallbackStranded,
       SelfAnswerStranded DEF Worker
  <1>4. CASE RetryFires
    BY <1>0, <1>4, SetupStranded
  <1>5. CASE Client
    BY <1>0, <1>5, ChildAnswerStranded, ToWorkerStranded, CallbackStranded DEF Client
  <1>6. CASE Loop
    BY <1>0, <1>6, LoopStranded
  <1>7. CASE Drop \/ Connect
    BY <1>0, <1>7, ConnectionStranded
  <1>8. CASE Cloud
    BY <1>0, <1>8, CloudStranded
  <1>9. CASE UNCHANGED vars
    <2>1. UNCHANGED <<slots, pend, inflight, cb, worker, queue, armed, stuck, loop, deaf, up,
                      toCloud, fromCloud, events>>
      BY <1>9 DEF vars, poolVars, listVars, netVars, histVars
    <2>2. NewUnlisted' /\ OwnQueue' /\ ComesBack'
      BY <2>1 DEF StrandedInv, NewUnlisted, OwnQueue, Elements, ComesBack, InCallback
    <2>3. Listing'
      BY <2>1 DEF StrandedInv, Listing, Seen, Listed, Travelling, Coming, Sent, Replies, Wakers,
         Elements,
                  InCallback, Batched, Lost
    <2> QED BY <1>0, <2>2, <2>3, StrandedKept
  <1> QED BY <1>1, <1>2, <1>3, <1>4, <1>5, <1>6, <1>7, <1>8, <1>9 DEF Next

(* and nothing on the list is stranded.                                    *)
LEMMA StrandedImplies == StrandedInv => NothingStranded
  <1> SUFFICES ASSUME StrandedInv, NEW n \in (pend \cap Ready) \ stuck
               PROVE  \/ DrainComes \/ deaf
                      \/ n \in inflight /\ OnItsWay(n)
                      \/ worker.pc = "report" /\ n \in worker.batch
    BY DEF NothingStranded
  <1>1. n \in Nodes /\ Listed(n)
    BY DEF Listed, Ready
  <1>2. Coming => DrainComes \/ deaf
    BY DEF Coming, DrainComes, Wakers, Elements
  <1>3. Lost => Coming
    BY DEF StrandedInv, ComesBack, Lost, Coming
  <1>4. (\E m \in Sent \cup Replies : m.hash[1] = slots[n].id) \/ InCallback(n) => OnItsWay(n)
    BY DEF Sent, Replies, Elements, OnItsWay
  <1> QED BY <1>1, <1>2, <1>3, <1>4 DEF StrandedInv, Listing, Seen, Travelling, Batched

(* For any children, calls and faults, a configuration on the list has a   *)
(* retry, a drain, a publish, an answer or a setup that will see to it     *)
(* (node_config_pending.c, node_config.c, retry_manager.c): no order of    *)
(* drains, PUBACKs, answers, commits and lost connections leaves it in     *)
(* flight with nobody, apart from the cases the code gives up (stuck,      *)
(* deaf).                                                                  *)
THEOREM StrandedSafety == Spec => []NothingStranded
  BY StrandedInit, StrandedNext, StrandedImplies, PTL DEF Spec

-----------------------------------------------------------------------------
(* No configuration is forgotten.                                          *)

(* Between the two halves of a removal the slot is free and B is held.     *)
Freeing ==
    /\ app.pc = "reset" => lockB = "app" /\ slots[app.slot].st = "free"
    /\ worker.pc = "reset" => lockB = "worker" /\ slots[worker.slot].st = "free"

(* A slot without a READY child has nothing committed; one that was added  *)
(* has no checksum and no callback of an earlier owner, unless it is a     *)
(* hole.                                                                   *)
Unused == \A s \in Slots :
    /\ slots[s].st \in {"free", "add"} => want[s] = 0
    /\ slots[s].st = "add" => slots[s].cfg = 0
    /\ slots[s].st = "add" /\ s \notin holes => nvs[slots[s].id] = NoHash /\ ~InCallback(s)

(* A configuration of a child,                                             *)
IsConfig(m, id) == m.kind = "config" /\ m.hash[1] = id
(* and the answer to one.                                                  *)
IsAnswer(m, id) == m.kind = "answer" /\ m.hash[1] = id

(* A configuration that an earlier child of the id sent goes before the    *)
(* add that is in the table,                                               *)
Before ==
    \A e \in requests : e.kind = "add" =>
        \A i \in DOMAIN toCloud : IsConfig(toCloud[i], e.id) =>
            \E j \in DOMAIN toCloud : i < j /\ toCloud[j].kind # "config" /\ toCloud[j].req = e.req

(* and its answer goes before the bridgeAck of that add.                   *)
After ==
    \A e \in requests : e.kind = "add" =>
        \A i \in DOMAIN fromCloud : IsAnswer(fromCloud[i], e.id) =>
            /\ \A k \in DOMAIN fromCloud : fromCloud[k].kind = "ack" /\ fromCloud[k].req = e.req => i < k
            /\ \A t \in Elements(queue) : ~(t.kind = "ack" /\ t.req = e.req)

(* The node's own configuration never changes.                             *)
Own ==
    /\ slots[Self].cfg = 1 /\ want[Self] = 1 /\ inbox[Self] \in {NoHash, <<"self", 1>>}
    /\ \A m \in Replies \cup Sent : m.hash[1] = "self" => m.hash[2] = 1

(* Configuration c of a node is out: the cloud holds it or a later one,    *)
(* and no older one is on its way to take its place.                       *)
Accepted(n, c) ==
    /\ c <= slots[n].cfg /\ c <= cloudCfg[slots[n].id]
    /\ \A m \in Sent : m.hash[1] = slots[n].id => c <= m.hash[2]

(* The configurations of a READY node reach the cloud in their order.      *)
Rising ==
    \A n \in Ready :
        /\ \A m \in Sent : m.hash[1] = slots[n].id => m.hash[2] <= slots[n].cfg
        /\ \A i, j \in DOMAIN toCloud :
              IsConfig(toCloud[i], slots[n].id) /\ IsConfig(toCloud[j], slots[n].id) /\ i < j
                 => toCloud[i].hash[2] <= toCloud[j].hash[2]

(* What a node was promised by an answer on its way has been accepted,     *)
Granted(n) ==
    /\ want[n] <= slots[n].cfg
    /\ \A m \in Replies : m.hash[1] = slots[n].id /\ m.ok => Accepted(n, m.hash[2])

(* and so has what its stored checksum, its callback and the list say of   *)
(* it.                                                                     *)
Stored(n) ==
    /\ nvs[slots[n].id] # NoHash => /\ nvs[slots[n].id][1] = slots[n].id
                                    /\ Accepted(n, nvs[slots[n].id][2])
    /\ InCallback(n) => /\ cb.hash[1] = slots[n].id /\ Accepted(n, cb.hash[2])
                        /\ cb.pc = "persist" => want[n] <= cb.hash[2]
    /\ want[n] # 0 /\ n \notin pend => Accepted(n, want[n])

(* A hole has only the first.                                              *)
Kept(n) == Granted(n) /\ (n \notin holes => Stored(n))
(* All of this for the READY nodes.                                        *)
Live == \A n \in Ready : Kept(n)

(* The inductive invariant of ConfigNotForgotten.                          *)
ForgottenInv == KnownInv /\ OwnQueue /\ Freeing /\ Unused /\ Before /\ After /\ Own /\ Rising /\ Live

(* The types of checksums and configurations.                              *)
LEMMA DigestFacts ==
    ASSUME BridgeShape
    PROVE  /\ \A m \in Sent : m \in Upward /\ m.hash \in Digests /\ m.hash[1] \in Things /\ m.hash[2] \in Nat
           /\ \A m \in Replies : m \in Downward /\ m.hash \in Digests /\ m.hash[1] \in Things /\ m.hash[2] \in Nat
           /\ \A n \in Nodes : slots[n].cfg \in Nat /\ slots[n].id \in Things /\ want[n] \in Nat
           /\ \A t \in Things : cloudCfg[t] \in Nat /\ nvs[t][1] \in Things /\ nvs[t][2] \in Nat
           /\ \A n \in Nodes : inbox[n][1] \in Things /\ inbox[n][2] \in Nat
           /\ cb # Idle => /\ cb.hash[1] \in Things /\ cb.hash[2] \in Nat /\ cb.node \in Nodes
                           /\ cb.pc \in {"compare", "persist"}
                           /\ cb = [pc |-> cb.pc, node |-> cb.node, hash |-> cb.hash]
  <1>1. Elements(toCloud) \subseteq Upward /\ Elements(fromCloud) \subseteq Downward /\ Elements(queue) \subseteq BridgeTasks
    BY DEF BridgeShape, Elements
  <1>2. \A d \in Digests : d[1] \in Things /\ d[2] \in Nat
    BY DEF Digests
  <1>3. \A m \in Sent : m \in Upward /\ m.hash \in Digests
    BY <1>1, ReplyType DEF Sent
  <1>4. \A m \in Replies : m \in Downward /\ m.hash \in Digests
    BY <1>1, TaskFields, TaskKinds DEF Replies
  <1>5. \A n \in Nodes : slots[n].cfg \in Nat /\ slots[n].id \in Things /\ want[n] \in Nat
    BY DEF BridgeShape, Children
  <1>6. /\ \A t \in Things : cloudCfg[t] \in Nat /\ nvs[t] \in Digests
        /\ \A n \in Nodes : inbox[n] \in Digests
    BY DEF BridgeShape
  <1>7. cb # Idle => /\ cb.hash \in Digests /\ cb.node \in Nodes
                     /\ cb.pc \in {"compare", "persist"}
                     /\ cb = [pc |-> cb.pc, node |-> cb.node, hash |-> cb.hash]
    BY DEF BridgeShape, ClientStates
  <1> QED BY <1>2, <1>3, <1>4, <1>5, <1>6, <1>7

(* What is out covers everything older;                                    *)
LEMMA AcceptedLess ==
    ASSUME BridgeShape, NEW n \in Nodes, NEW c \in Nat, NEW d \in Nat, c <= d, Accepted(n, d)
    PROVE  Accepted(n, c)
  BY DigestFacts DEF Accepted

(* it stays out while nothing is sent or taken by the cloud.               *)
LEMMA AcceptedKept ==
    ASSUME BridgeShape, BridgeShape', NEW n \in Nodes, slots'[n].id = slots[n].id,
           slots[n].cfg <= slots'[n].cfg, cloudCfg' = cloudCfg, Sent' \subseteq Sent
    PROVE  \A c \in Nat : Accepted(n, c) => Accepted(n, c)'
  <1>1. slots[n].cfg \in Nat /\ slots'[n].cfg \in Nat
    BY DEF BridgeShape, Children
  <1> QED BY <1>1 DEF Accepted

(* A node nobody works on is kept.                                         *)
LEMMA LiveKept ==
    ASSUME BridgeShape, BridgeShape', NEW n \in Nodes, Kept(n),
           \A c \in Nat : Accepted(n, c) => Accepted(n, c)',
           slots'[n].id = slots[n].id, slots[n].cfg <= slots'[n].cfg, want'[n] = want[n],
           \A m \in Replies' : m.hash[1] = slots[n].id => m \in Replies,
           nvs'[slots[n].id] = nvs[slots[n].id],
           InCallback(n)' => InCallback(n) /\ cb' = cb,
           n \in pend => n \in pend' \/ n \in holes' \/ Accepted(n, want[n]), n \in holes => n \in holes'
    PROVE  Kept(n)'
  <1>1. /\ slots[n].cfg \in Nat /\ slots'[n].cfg \in Nat /\ want[n] \in Nat /\ slots[n].id \in Things
        /\ nvs[slots[n].id][2] \in Nat /\ (InCallback(n) => cb.hash[2] \in Nat)
        /\ \A m \in Replies : m.hash[2] \in Nat
    <2>1. slots'[n].cfg \in Nat
      BY DEF BridgeShape, Children
    <2> QED BY <2>1, DigestFacts DEF InCallback
  <1>2. Granted(n)'
    BY <1>1 DEF Kept, Granted
  <1>3. ASSUME n \notin holes' PROVE Stored(n)'
    <2>1. Stored(n)
      BY <1>3 DEF Kept
    <2>2. want[n] # 0 /\ n \notin pend' => Accepted(n, want[n])
      BY <1>3, <2>1 DEF Stored
    <2>3. want'[n] # 0 /\ n \notin pend' => Accepted(n, want[n])'
      BY <1>1, <2>2
    <2>4. nvs[slots[n].id] # NoHash => /\ nvs[slots[n].id][1] = slots[n].id
                                      /\ Accepted(n, nvs[slots[n].id][2])'
      BY <1>1, <2>1 DEF Stored
    <2> QED BY <1>1, <2>1, <2>3, <2>4 DEF Stored
  <1> QED BY <1>2, <1>3 DEF Kept

(* The orders of the messages are kept by steps that send nothing:         *)
LEMMA BeforeKept ==
    ASSUME BridgeShape, Before, requests' \subseteq requests,
           toCloud' = toCloud \/ toCloud' = <<>>
    PROVE  Before'
  <1>1. CASE toCloud' = toCloud
    BY <1>1 DEF Before
  <1>2. CASE toCloud' = <<>>
    BY <1>2, NoMessage DEF Before
  <1> QED BY <1>1, <1>2

(* that of the answers,                                                    *)
LEMMA AfterKept ==
    ASSUME BridgeShape, After, requests' \subseteq requests,
           \A t \in Elements(queue') : t.kind = "ack" => t \in Elements(queue),
           \/ fromCloud' = fromCloud
           \/ fromCloud' = <<>>
           \/ fromCloud # <<>> /\ fromCloud' = Tail(fromCloud)
    PROVE  After'
  <1>1. CASE fromCloud' = fromCloud
    BY <1>1 DEF After
  <1>2. CASE fromCloud' = <<>>
    BY <1>2, NoMessage DEF After
  <1>3. CASE fromCloud # <<>> /\ fromCloud' = Tail(fromCloud)
    <2>1. \A i \in DOMAIN fromCloud' : i \in Nat /\ i + 1 \in DOMAIN fromCloud /\ fromCloud'[i] = fromCloud[i + 1]
      BY <1>3, QueueFacts DEF BridgeShape
    <2> QED BY <2>1 DEF After
  <1> QED BY <1>1, <1>2, <1>3

(* that of the configurations,                                             *)
LEMMA RisingKept ==
    ASSUME BridgeShape, BridgeShape', Rising, toCloud' = toCloud \/ toCloud' = <<>>,
           \A n \in Nodes : slots'[n].st = "ready"
              => slots[n].st = "ready" /\ slots'[n].id = slots[n].id /\ slots[n].cfg <= slots'[n].cfg
    PROVE  Rising'
  <1>1. CASE toCloud' = <<>>
    BY <1>1, EmptyElements, NoMessage DEF Rising, Sent
  <1>2. CASE toCloud' = toCloud
    <2>1. Sent' = Sent /\ \A m \in Sent : m.hash[2] \in Nat
      BY <1>2, DigestFacts DEF Sent, Elements
    <2>2. \A n \in Nodes : slots[n].cfg \in Nat /\ slots'[n].cfg \in Nat
      BY DEF BridgeShape, Children
    <2>3. ASSUME NEW n \in Nodes, slots'[n].st = "ready"
          PROVE  /\ \A m \in Sent : m.hash[1] = slots'[n].id => m.hash[2] <= slots'[n].cfg
                 /\ \A i, j \in DOMAIN toCloud :
                       IsConfig(toCloud[i], slots'[n].id) /\ IsConfig(toCloud[j], slots'[n].id) /\ i < j
                          => toCloud[i].hash[2] <= toCloud[j].hash[2]
      <3>1. n \in Ready /\ slots'[n].id = slots[n].id /\ slots[n].cfg <= slots'[n].cfg
        BY <2>3 DEF Ready
      <3> QED BY <2>1, <2>2, <3>1 DEF Rising
    <2> QED BY <1>2, <2>1, <2>3 DEF Rising, Ready
  <1> QED BY <1>1, <1>2

(* and what is said of the node itself,                                    *)
LEMMA OwnKept ==
    ASSUME Own, UNCHANGED slots, want'[Self] = want[Self], inbox'[Self] \in {inbox[Self], NoHash},
           Sent' \subseteq Sent, Replies' \subseteq Replies
    PROVE  Own'
  BY DEF Own

(* and of the free slots.                                                  *)
LEMMA UnusedKept ==
    ASSUME BridgeShape, Unused, UNCHANGED <<slots, want, nvs, holes>>,
           \A s \in Slots : InCallback(s)' => InCallback(s)
    PROVE  Unused'
  BY DEF Unused

(* The parts make the invariant.                                           *)
LEMMA ForgottenKept ==
    ASSUME KnownInv', OwnQueue', Freeing', Unused', Before', After', Own', Rising', Live'
    PROVE  ForgottenInv'
  BY DEF ForgottenInv

(* A step that only takes messages, and puts nodes on the list.            *)
LEMMA QuietForgotten ==
    ASSUME ForgottenInv, KnownInv', OwnQueue', Freeing',
           UNCHANGED <<slots, want, nvs, holes, cloudCfg>>, requests' \subseteq requests,
           inbox'[Self] \in {inbox[Self], NoHash},
           toCloud' = toCloud \/ toCloud' = <<>>,
           \/ fromCloud' = fromCloud
           \/ fromCloud' = <<>>
           \/ fromCloud # <<>> /\ fromCloud' = Tail(fromCloud),
           \A t \in Elements(queue') : t \in Elements(queue) \/ t.kind \in {"drain", "setup"},
           \A n \in Ready : n \in pend => n \in pend',
           cb' = cb \/ cb' = Idle
    PROVE  ForgottenInv'
  <1>1. BridgeShape /\ BridgeShape'
    BY DEF ForgottenInv, KnownInv
  <1>2. Before' /\ After'
    BY <1>1, BeforeKept, AfterKept DEF ForgottenInv
  <1>3. Rising'
    <2>1. \A n \in Nodes : slots[n].cfg <= slots[n].cfg
      BY <1>1, DigestFacts
    <2> QED BY <1>1, <2>1, RisingKept DEF ForgottenInv
  <1>4. Sent' \subseteq Sent
    BY EmptyElements DEF Sent, Elements
  <1>5. Replies' \subseteq Replies
    <2>1. Elements(fromCloud') \subseteq Elements(fromCloud)
      <3>1. fromCloud \in Seq(Downward)
        BY <1>1 DEF BridgeShape
      <3> QED BY <3>1, EmptyElements, TailElements
    <2> QED BY <2>1 DEF Replies
  <1>6. Own'
    BY <1>4, <1>5, OwnKept DEF ForgottenInv, BridgeShape
  <1>7. \A n \in Nodes : InCallback(n)' => InCallback(n) /\ cb' = cb
    BY DEF InCallback
  <1>8. Unused'
    BY <1>1, <1>7, NodeFacts, UnusedKept DEF ForgottenInv
  <1>9. Live'
    <2> SUFFICES ASSUME NEW n \in Nodes, n \in Ready PROVE Kept(n)'
      BY DEF Live, Ready
    <2>1. slots[n].cfg <= slots[n].cfg
      BY <1>1, DigestFacts
    <2>2. \A c \in Nat : Accepted(n, c) => Accepted(n, c)'
      BY <1>1, <1>4, <2>1, AcceptedKept
    <2>3. Kept(n)
      BY DEF ForgottenInv, Live
    <2> QED BY <1>1, <1>5, <1>7, <2>1, <2>2, <2>3, LiveKept
  <1> QED BY <1>2, <1>3, <1>6, <1>8, <1>9, ForgottenKept

(* The worker's queue gets no answer from a drain or a setup.              *)
LEMMA OwnQueueKept ==
    ASSUME OwnQueue, \A t \in Elements(queue') : t \in Elements(queue) \/ t.kind \in {"drain", "setup"},
           cb' = cb \/ cb' = Idle
    PROVE  OwnQueue'
  BY DEF OwnQueue, InCallback

(* What the queue may hold after one task more or less.                    *)
LEMMA QueueElements ==
    ASSUME BridgeShape, NEW t \in BridgeTasks, t.kind \in {"drain", "setup"},
           \/ queue' = queue
           \/ queue' = Append(queue, t)
           \/ queue # <<>> /\ queue' = Tail(queue)
           \/ queue # <<>> /\ queue' = Append(Tail(queue), t)
    PROVE  \A d \in Elements(queue') : d \in Elements(queue) \/ d.kind \in {"drain", "setup"}
  <1>1. queue \in Seq(BridgeTasks)
    BY DEF BridgeShape
  <1>2. queue # <<>> => Tail(queue) \in Seq(BridgeTasks) /\ Elements(Tail(queue)) \subseteq Elements(queue)
    BY <1>1, QueueFacts, TailElements
  <1>3. \A s \in Seq(BridgeTasks) : Elements(Append(s, t)) = Elements(s) \cup {t}
    BY AppendElements
  <1> QED BY <1>1, <1>2, <1>3

(* The steps that are quiet in this sense.                                 *)
LEMMA QuietSteps ==
    ASSUME ForgottenInv, KnownInv',
           \/ DrainBegin \/ DrainCollect \/ ReportFailed \/ DrainEnd \/ SetupDone \/ RetryFires
           \/ FreeReset \/ WorkerReset \/ Loop \/ Drop \/ Connect \/ UNCHANGED vars
    PROVE  ForgottenInv'
  <1> USE DEF poolVars, listVars, netVars, histVars, otherThreads
  <1>0. BridgeShape
    BY DEF ForgottenInv, KnownInv
  <1>1. /\ UNCHANGED <<slots, want, nvs, holes, cloudCfg, requests, cb>>
        /\ toCloud' = toCloud \/ toCloud' = <<>>
        /\ fromCloud' = fromCloud \/ fromCloud' = <<>>
    BY DEF DrainBegin, DrainCollect, ReportFailed, DrainEnd, SetupDone, RetryFires, FreeReset,
       WorkerReset,
           Loop, Puback, Disconnected, ClearAllInflight, Reconnected, Drop, Connect, Refused, vars
  <1>2. inbox'[Self] \in {inbox[Self], NoHash}
    <2>1. inbox' = inbox \/ \E n \in Nodes : inbox' = [inbox EXCEPT ![n] = NoHash]
      <3>1. ReportFailed => Next1 \in Nodes
        BY <1>0, BatchFacts DEF ReportFailed
      <3> QED BY <3>1 DEF DrainBegin, DrainCollect, ReportFailed, DrainEnd, SetupDone, RetryFires, FreeReset, WorkerReset,
           Loop, Puback, Disconnected, ClearAllInflight, Reconnected, Drop, Connect, Refused, vars
    <2> QED BY <1>0, <2>1, NodeFacts DEF BridgeShape
  <1>3. \A d \in Elements(queue') : d \in Elements(queue) \/ d.kind \in {"drain", "setup"}
    <2>1. /\ [kind |-> "drain"] \in BridgeTasks /\ [kind |-> "setup"] \in BridgeTasks
          /\ [kind |-> "drain"].kind = "drain" /\ [kind |-> "setup"].kind = "setup"
      BY WorkerReady
    <2>2. \/ queue' = queue
          \/ queue' = Append(queue, [kind |-> "drain"]) \/ queue' = Append(queue, [kind |-> "setup"])
          \/ queue # <<>> /\ queue' = Tail(queue)
          \/ queue # <<>> /\ queue' = Append(Tail(queue), [kind |-> "drain"])
      BY DEF DrainBegin, DrainCollect, ReportFailed, DrainEnd, SetupDone, RetryFires, FreeReset,
         WorkerReset,
           Loop, Puback, Disconnected, ClearAllInflight, Reconnected, Drop, Connect, vars, TakeTask
    <2>3. CASE queue' = Append(queue, [kind |-> "setup"])
      BY <1>0, <2>1, <2>3, QueueElements
    <2>4. CASE queue' # Append(queue, [kind |-> "setup"])
      BY <1>0, <2>1, <2>2, <2>4, QueueElements
    <2> QED BY <2>3, <2>4
  <1>4. \A n \in Ready : n \in pend => n \in pend'
    <2>1. CASE pend' = pend
      BY <2>1
    <2>2. CASE FreeReset
      BY <2>2 DEF FreeReset, ResetNode, PendingRemove, ForgottenInv, Freeing, Ready
    <2>3. CASE WorkerReset
      BY <2>3 DEF WorkerReset, ResetNode, PendingRemove, ForgottenInv, Freeing, Ready
    <2> QED BY <2>1, <2>2, <2>3 DEF DrainBegin, DrainCollect, ReportFailed, DrainEnd, SetupDone, RetryFires,
           Loop, Puback, Disconnected, ClearAllInflight, Reconnected, Drop, Connect, vars, ClearInflight
  <1>5. Freeing'
    <2>1. CASE FreeReset
      <3>1. app' = Idle /\ lockB = "app" /\ UNCHANGED <<worker, slots>>
        BY <2>1 DEF FreeReset, ResetNode
      <3> QED BY <3>1 DEF ForgottenInv, Freeing, Idle
    <2>2. CASE WorkerReset
      <3>1. worker' = Idle /\ lockB = "worker" /\ UNCHANGED <<app, slots>>
        BY <2>2 DEF WorkerReset, ResetNode
      <3> QED BY <3>1 DEF ForgottenInv, Freeing, Idle
    <2>3. CASE ~FreeReset /\ ~WorkerReset
      <3>1. UNCHANGED <<app, lockB>>
        BY <2>3 DEF DrainBegin, DrainCollect, ReportFailed, DrainEnd, SetupDone, RetryFires,
           Loop, Puback, Disconnected, ClearAllInflight, Reconnected, Drop, Connect, vars
      <3>2. worker' = worker \/ worker'.pc # "reset"
        <4>1. ReportFailed => worker'.pc = "report"
          BY <1>0, ReportedFacts DEF ReportFailed
        <4> QED BY <2>3, <4>1 DEF DrainBegin, DrainCollect, DrainEnd, SetupDone, RetryFires, Idle,
           Loop, Puback, Disconnected, ClearAllInflight, Reconnected, Drop, Connect, vars
      <3> QED BY <1>1, <3>1, <3>2 DEF ForgottenInv, Freeing
    <2> QED BY <2>1, <2>2, <2>3
  <1>6. OwnQueue'
    BY <1>1, <1>3, OwnQueueKept DEF ForgottenInv
  <1> QED BY <1>1, <1>2, <1>3, <1>4, <1>5, <1>6, QuietForgotten

(* A step in the pool that promotes nobody.                                *)
LEMMA PoolForgotten ==
    ASSUME ForgottenInv, KnownInv', Freeing', Unused', requests' \subseteq requests,
           UNCHANGED <<nvs, inbox, cb, cloudCfg, toCloud, fromCloud>>,
           \A t \in Elements(queue') : t \in Elements(queue) \/ t.kind \in {"drain", "setup"},
           slots'[Self] = slots[Self], want'[Self] = want[Self],
           \A n \in Nodes : slots'[n].st = "ready"
              => /\ slots[n].st = "ready" /\ slots'[n].id = slots[n].id /\ slots[n].cfg <= slots'[n].cfg
                 /\ want'[n] = want[n]
                 /\ n \in holes => n \in holes'
                 /\ n \in pend => n \in pend'
    PROVE  ForgottenInv'
  <1>1. BridgeShape /\ BridgeShape'
    BY DEF ForgottenInv, KnownInv
  <1>2. Before' /\ After'
    BY <1>1, BeforeKept, AfterKept DEF ForgottenInv
  <1>3. Rising'
    BY <1>1, RisingKept DEF ForgottenInv
  <1>4. Sent' = Sent /\ Replies' \subseteq Replies /\ OwnQueue'
    BY OwnQueueKept DEF Sent, Replies, Elements, ForgottenInv
  <1>5. Own'
    BY <1>4 DEF ForgottenInv, Own
  <1>6. Live'
    <2> SUFFICES ASSUME NEW n \in Nodes, slots'[n].st = "ready" PROVE Kept(n)'
      BY DEF Live, Ready
    <2>1. Kept(n)
      BY DEF ForgottenInv, Live, Ready
    <2>2. \A c \in Nat : Accepted(n, c) => Accepted(n, c)'
      BY <1>1, <1>4, AcceptedKept
    <2>3. InCallback(n)' => InCallback(n) /\ cb' = cb
      BY DEF InCallback
    <2> QED BY <1>1, <1>4, <2>1, <2>2, <2>3, LiveKept
  <1> QED BY <1>2, <1>3, <1>4, <1>5, <1>6, ForgottenKept

(* A child is added, removed, or gets a device.                            *)
LEMMA AppCallForgotten ==
    ASSUME ForgottenInv, KnownInv',
           \/ \E id \in Ids : AddChild(id)
           \/ \E s \in Slots : RemoveChild(s) \/ ChangeNode(s)
    PROVE  ForgottenInv'
  <1> USE DEF poolVars, listVars, netVars, histVars, otherThreads
  <1>0. BridgeShape /\ BridgeShape'
    BY DEF ForgottenInv, KnownInv
  <1>1. CASE \E id \in Ids : AddChild(id)
    <2>1. PICK id \in Ids : AddChild(id)
      BY <1>1
    <2> DEFINE s == Min(FreeSlots)
    <2>2. FreeSlots \subseteq Nat /\ FreeSlots # {}
      BY <2>1, NodeFacts DEF AddChild, FreeSlots
    <2>3. s \in Slots /\ slots[s].st = "free"
      BY <2>2, LeastOf DEF FreeSlots
    <2> HIDE DEF s
    <2>4. /\ slots' = [slots EXCEPT ![s] = [st |-> "add", id |-> id, cfg |-> 0]]
          /\ pend' = pend \ {s} /\ lockB = "none" /\ app = Idle
          /\ holes' = IF nvs[id] # NoHash \/ InCallback(s) THEN holes \cup {s} ELSE holes
          /\ app' = [pc |-> "request", kind |-> "add", slot |-> s]
          /\ UNCHANGED <<queue, requests, nvs, inbox, cb, worker, cloudCfg, toCloud, fromCloud,
                         want, lockB>>
      BY <2>1 DEF AddChild, s, BFree
    <2>5. /\ slots'[s].st = "add" /\ slots'[s].cfg = 0 /\ slots'[s].id = id
          /\ \A n \in Nodes : n # s => slots'[n] = slots[n] /\ (n \in holes' <=> n \in holes)
      BY <1>0, <2>3, <2>4, NodeFacts DEF BridgeShape
    <2>6. Freeing'
      BY <2>4 DEF ForgottenInv, Freeing
    <2>7. Unused'
      BY <2>3, <2>4, <2>5, NodeFacts DEF ForgottenInv, Unused, InCallback
    <2>8. \A n \in Nodes : slots[n].cfg <= slots[n].cfg
      BY <1>0, DigestFacts
    <2>9. \A n \in Nodes : slots'[n].st = "ready" => n # s
      BY <2>5
    <2>10. Self # s
      BY <2>3, NodeFacts
    <2> QED BY <2>4, <2>5, <2>6, <2>7, <2>8, <2>9, <2>10, NodeFacts, PoolForgotten
  <1>2. CASE \E s \in Slots : RemoveChild(s) \/ ChangeNode(s)
    <2>1. PICK s \in Slots : RemoveChild(s) \/ ChangeNode(s)
      BY <1>2
    <2>2. /\ slots[s].st = "ready" /\ app = Idle
          /\ slots' = [slots EXCEPT ![s].st = "remove"] \/ slots' = [slots EXCEPT ![s].cfg = @ + 1]
          /\ UNCHANGED <<queue, requests, pend, nvs, inbox, cb, worker, cloudCfg, toCloud,
                         fromCloud, want, holes, lockB>>
          /\ app'.pc # "reset"
      BY <2>1 DEF RemoveChild, ChangeNode, Idle
    <2>3. \A n \in Nodes : slots[n].cfg \in Nat
      BY <1>0, DigestFacts
    <2>4. /\ \A n \in Nodes : n # s => slots'[n] = slots[n]
          /\ slots'[s].id = slots[s].id /\ slots[s].cfg <= slots'[s].cfg /\ slots'[s].st \in {"ready", "remove"}
      <3>1. CASE slots' = [slots EXCEPT ![s].st = "remove"]
        BY <1>0, <2>3, <3>1, NodeFacts DEF BridgeShape, Children
      <3>2. CASE slots' = [slots EXCEPT ![s].cfg = @ + 1]
        <4>1. slots \in [Nodes -> Children] /\ s \in Nodes /\ slots[s] \in Children /\ slots[s].cfg \in Nat
          BY <1>0, <2>3, NodeFacts DEF BridgeShape
        <4>2. /\ slots'[s] = [slots[s] EXCEPT !.cfg = @ + 1]
              /\ \A n \in Nodes : n # s => slots'[n] = slots[n]
          BY <3>2, <4>1
        <4>3. slots'[s].cfg = slots[s].cfg + 1 /\ slots'[s].id = slots[s].id /\ slots'[s].st = slots[s].st
          BY <4>1, <4>2 DEF Children
        <4> QED BY <2>2, <4>1, <4>2, <4>3
      <3> QED BY <2>2, <3>1, <3>2
    <2>5. Freeing'
      <3>1. worker.pc = "reset" => worker.slot \in Slots /\ worker.slot # s
        BY <1>0, <2>2, WorkerPlace DEF ForgottenInv, Freeing
      <3> QED BY <2>2, <2>4, <3>1, NodeFacts DEF ForgottenInv, Freeing
    <2>6. Unused'
      BY <2>2, <2>4, NodeFacts DEF ForgottenInv, Unused, InCallback
    <2>7. \A n \in Nodes : slots'[n].st = "ready" =>
             slots[n].st = "ready" /\ slots'[n].id = slots[n].id /\ slots[n].cfg <= slots'[n].cfg
      BY <2>2, <2>3, <2>4
    <2>8. slots'[Self] = slots[Self]
      BY <2>4, NodeFacts
    <2> QED BY <2>2, <2>5, <2>6, <2>7, <2>8, PoolForgotten
  <1> QED BY <1>1, <1>2

(* Its configuration is committed: it is on the list.                      *)
LEMMA CommitForgotten == ASSUME ForgottenInv, KnownInv', NEW s \in Slots, CommitDevices(s) PROVE ForgottenInv'
  <1> USE DEF poolVars, listVars, netVars, histVars, otherThreads
  <1>0. BridgeShape /\ BridgeShape'
    BY DEF ForgottenInv, KnownInv
  <1>1. /\ slots[s].st = "ready" /\ pend' = pend \cup {s} /\ Kick
        /\ want' = [want EXCEPT ![s] = slots[s].cfg]
        /\ holes' = IF cb.pc = "persist" /\ cb.node = s THEN holes \cup {s} ELSE holes
        /\ UNCHANGED <<slots, requests, nvs, inbox, cb, worker, app, cloudCfg, toCloud,
                       fromCloud, lockB>>
    BY DEF CommitDevices
  <1>2. /\ Replies' = Replies /\ Sent' = Sent
        /\ \A t \in Elements(queue') : t \in Elements(queue) \/ t.kind \in {"drain", "setup"}
    BY <1>0, <1>1, Wakened DEF Sent, Elements
  <1>3. Before' /\ After' /\ OwnQueue'
    BY <1>0, <1>1, <1>2, BeforeKept, AfterKept, OwnQueueKept DEF ForgottenInv
  <1>4. /\ want'[s] = slots[s].cfg /\ \A n \in Nodes : n # s => want'[n] = want[n]
        /\ \A n \in Nodes : slots[n].cfg \in Nat /\ slots[n].cfg <= slots[n].cfg
    <2>1. \A n \in Nodes : slots[n].cfg \in Nat
      BY <1>0, DigestFacts
    <2>2. want \in [Nodes -> Nat] /\ s \in Nodes
      BY <1>0, NodeFacts DEF BridgeShape
    <2> QED BY <1>1, <2>1, <2>2
  <1>5. Freeing' /\ Unused'
    BY <1>1, <1>4, NodeFacts DEF ForgottenInv, Freeing, Unused, InCallback
  <1>6. Own'
    BY <1>1, <1>2, <1>4, NodeFacts DEF ForgottenInv, Own
  <1>7. Rising'
    BY <1>0, <1>1, <1>4, RisingKept DEF ForgottenInv
  <1>8. \A n \in Nodes : n \in Ready => Kept(n)
    BY DEF ForgottenInv, Live
  <1>9. \A n \in Nodes, c \in Nat : Accepted(n, c)' <=> Accepted(n, c)
    BY <1>1, <1>2 DEF Accepted
  <1>10. ASSUME NEW n \in Nodes, n \in Ready, n # s PROVE Kept(n)'
    <2>1. InCallback(n)' => InCallback(n) /\ cb' = cb
      BY <1>1 DEF InCallback
    <2> QED BY <1>0, <1>1, <1>2, <1>4, <1>8, <1>9, <1>10, <2>1, LiveKept
  <1>11. ASSUME NEW n \in Nodes, n = s PROVE Kept(n)'
    <2>1. Kept(n) /\ n \in Ready
      BY <1>1, <1>8, <1>11 DEF Ready
    <2>2. Granted(n)'
      <3>1. \A m \in Replies : m.hash[2] \in Nat
        BY <1>0, DigestFacts
      <3> QED BY <1>1, <1>2, <1>4, <1>9, <1>11, <2>1, <3>1 DEF Kept, Granted
    <2>3. ASSUME n \notin holes' PROVE Stored(n)'
      <3>1. Stored(n) /\ n \in pend' /\ ~(cb.pc = "persist" /\ cb.node = n)
        BY <1>1, <1>11, <2>1, <2>3 DEF Kept
      <3>2. nvs[slots[n].id][2] \in Nat /\ (InCallback(n) => cb.hash[2] \in Nat /\ cb.node = n)
        BY <1>0, DigestFacts DEF InCallback
      <3>3. InCallback(n)' <=> InCallback(n)
        BY <1>1 DEF InCallback
      <3> QED BY <1>1, <1>9, <3>1, <3>2, <3>3 DEF Stored
    <2> QED BY <2>2, <2>3 DEF Kept
  <1>12. Live'
    BY <1>1, <1>10, <1>11 DEF Live, Ready
  <1> QED BY <1>3, <1>5, <1>6, <1>7, <1>12, ForgottenKept

(* The newest configuration is sent last,                                  *)
LEMMA RisingAppend ==
    ASSUME BridgeShape, Rising, NEW m \in Upward, toCloud' = Append(toCloud, m), UNCHANGED slots,
           \A n \in Ready : IsConfig(m, slots[n].id) => m.hash[2] = slots[n].cfg
    PROVE  Rising'
  <1>1. toCloud \in Seq(Upward)
    BY DEF BridgeShape
  <1>2. Elements(toCloud') = Elements(toCloud) \cup {m}
    BY <1>1, AppendElements
  <1>3. \A x \in Sent' : x \in Sent \/ (x = m /\ m.kind = "config")
    BY <1>2 DEF Sent
  <1>4. \A n \in Nodes : slots[n].cfg \in Nat
    BY DigestFacts
  <1>5. /\ \A i \in DOMAIN toCloud' : i \in Nat /\ ((i \in DOMAIN toCloud /\ toCloud'[i] = toCloud[i] /\ i < Len(toCloud) + 1)
                                        \/ (toCloud'[i] = m /\ i = Len(toCloud) + 1))
        /\ Len(toCloud) \in Nat
    BY <1>1, AppendFacts
  <1>6. ASSUME NEW n \in Ready
        PROVE  /\ \A x \in Sent' : x.hash[1] = slots[n].id => x.hash[2] <= slots[n].cfg
               /\ \A i, j \in DOMAIN toCloud' :
                     IsConfig(toCloud'[i], slots[n].id) /\ IsConfig(toCloud'[j], slots[n].id) /\ i < j
                       => toCloud'[i].hash[2] <= toCloud'[j].hash[2]
    <2>1. \A x \in Sent' : x.hash[1] = slots[n].id => x.hash[2] <= slots[n].cfg
      BY <1>3, <1>4 DEF Rising, IsConfig, Ready
    <2>2. \A i \in DOMAIN toCloud : IsConfig(toCloud[i], slots[n].id) => toCloud[i].hash[2] <= slots[n].cfg
      BY DEF Rising, IsConfig, Sent, Elements
    <2>3. ASSUME NEW i \in DOMAIN toCloud', NEW j \in DOMAIN toCloud', i < j,
                 IsConfig(toCloud'[i], slots[n].id), IsConfig(toCloud'[j], slots[n].id)
          PROVE  toCloud'[i].hash[2] <= toCloud'[j].hash[2]
      <3>1. i \in DOMAIN toCloud /\ toCloud'[i] = toCloud[i]
        BY <1>5, <2>3
      <3>2. CASE j \in DOMAIN toCloud /\ toCloud'[j] = toCloud[j]
        BY <2>3, <3>1, <3>2 DEF Rising
      <3>3. CASE toCloud'[j] = m
        BY <2>2, <2>3, <3>1, <3>3
      <3> QED BY <1>5, <3>2, <3>3
    <2> QED BY <2>1, <2>3
  <1>7. Ready' = Ready
    BY DEF Ready
  <1> QED BY <1>6, <1>7 DEF Rising

(* and no child that waits for its bridgeAck sends one.                    *)
LEMMA BeforeAppend ==
    ASSUME BridgeShape, Before, NEW m \in Upward, toCloud' = Append(toCloud, m),
           \A e \in requests' : e.kind = "add" => \/ e \in requests /\ ~IsConfig(m, e.id)
                                                  \/ m.kind # "config" /\ m.req = e.req
    PROVE  Before'
  <1>1. toCloud \in Seq(Upward)
    BY DEF BridgeShape
  <1>2. /\ \A i \in DOMAIN toCloud' : i \in Nat /\ ((i \in DOMAIN toCloud /\ toCloud'[i] = toCloud[i] /\ i < Len(toCloud) + 1)
                                        \/ (toCloud'[i] = m /\ i = Len(toCloud) + 1))
        /\ Len(toCloud) + 1 \in DOMAIN toCloud' /\ toCloud'[Len(toCloud) + 1] = m
        /\ \A i \in DOMAIN toCloud : i \in DOMAIN toCloud' /\ toCloud'[i] = toCloud[i]
    BY <1>1, AppendFacts
  <1>3. ASSUME NEW e \in requests', e.kind = "add", NEW i \in DOMAIN toCloud', IsConfig(toCloud'[i], e.id)
        PROVE  \E j \in DOMAIN toCloud' : i < j /\ toCloud'[j].kind # "config" /\ toCloud'[j].req = e.req
    <2>1. CASE m.kind # "config" /\ m.req = e.req
      <3>1. i < Len(toCloud) + 1
        BY <1>2, <1>3, <2>1 DEF IsConfig
      <3> QED BY <1>2, <2>1, <3>1
    <2>2. CASE e \in requests /\ ~IsConfig(m, e.id)
      <3>1. i \in DOMAIN toCloud /\ toCloud'[i] = toCloud[i]
        BY <1>2, <1>3, <2>2
      <3>2. PICK j \in DOMAIN toCloud : i < j /\ toCloud[j].kind # "config" /\ toCloud[j].req = e.req
        BY <1>3, <2>2, <3>1 DEF Before
      <3> QED BY <1>2, <3>2
    <2> QED BY <1>3, <2>1, <2>2
  <1> QED BY <1>3 DEF Before

(* A request for the cloud,                                                *)
LEMMA RequestForgotten == ASSUME ForgottenInv, KnownInv', RequestSent \/ RequestFailed PROVE ForgottenInv'
  <1> USE DEF poolVars, listVars, netVars, histVars, otherThreads
  <1>0. BridgeShape /\ BridgeShape'
    BY DEF ForgottenInv, KnownInv
  <1>1. /\ UNCHANGED <<slots, queue, want, nvs, inbox, holes, pend, cb, cloudCfg, fromCloud,
                       worker, lockB>>
        /\ app'.pc # "reset"
    BY DEF RequestSent, RequestFailed, Published, Refused, Idle
  <1>2. Freeing'
    BY <1>1 DEF ForgottenInv, Freeing
  <1>3. CASE RequestFailed
    <2>1. requests' \subseteq requests /\ UNCHANGED toCloud
      BY <1>3 DEF RequestFailed, Refused, Swept
    <2>2. OwnQueue' /\ inbox'[Self] \in {inbox[Self], NoHash} /\ \A t \in Elements(queue') : t \in Elements(queue)
      BY <1>1 DEF ForgottenInv, OwnQueue, Elements, InCallback
    <2> QED BY <1>1, <1>2, <2>1, <2>2, QuietForgotten
  <1>4. CASE RequestSent
    <2> DEFINE id == slots[app.slot].id
               m == [kind |-> app.kind, req |-> nreq + 1, id |-> id]
               e == [req |-> nreq + 1, kind |-> app.kind, id |-> id]
    <2>1. /\ app.pc = "request" /\ app.slot \in Slots /\ app.kind \in {"add", "remove"}
          /\ slots[app.slot].st = app.kind /\ id \in Ids
      BY <1>0, <1>4, AppPlace DEF RequestSent, ForgottenInv, KnownInv, Requested, BridgeShape
    <2>2. m \in Upward /\ nreq \in Nat
      BY <1>0, <2>1 DEF Upward, BridgeShape
    <2>3. Register(app.kind, id) /\ Published(m)
      BY <1>4 DEF RequestSent
    <2>4. m.req = nreq + 1 /\ m.kind # "config" /\ e.req = nreq + 1
      BY <2>1
    <2>5. requests' \subseteq requests \cup {e}
      BY <1>0, <2>1, <2>3, RegisterFacts
    <2>6. toCloud' = Append(toCloud, m)
      BY <2>3 DEF Published
    <2> HIDE DEF m, e, id
    <2>7. Sent' = Sent /\ Replies' = Replies
      <3>1. Elements(toCloud') = Elements(toCloud) \cup {m}
        BY <1>0, <2>2, <2>6, AppendElements DEF BridgeShape
      <3> QED BY <1>1, <2>4, <3>1 DEF Sent, Replies, Elements
    <2>8. Rising'
      BY <1>0, <1>1, <2>2, <2>4, <2>6, RisingAppend DEF ForgottenInv, IsConfig
    <2>9. Before'
      BY <1>0, <2>2, <2>4, <2>5, <2>6, BeforeAppend DEF ForgottenInv, IsConfig
    <2>10. After'
      <3>1. ASSUME NEW a \in Acks PROVE a.req # e.req
        <4>1. a.req <= nreq /\ a.req \in Nat
          BY <1>0, MessageFacts DEF ForgottenInv, KnownInv, Answered
        <4> QED BY <2>2, <2>4, <4>1
      <3>2. /\ \A k \in DOMAIN fromCloud : ~(fromCloud[k].kind = "ack" /\ fromCloud[k].req = e.req)
            /\ \A t \in Elements(queue) : ~(t.kind = "ack" /\ t.req = e.req)
        BY <3>1 DEF Acks, Elements
      <3>3. After
        BY DEF ForgottenInv
      <3> QED BY <1>1, <2>5, <3>2, <3>3 DEF After
    <2>11. OwnQueue' /\ Unused' /\ Own'
      BY <1>1, <2>7 DEF ForgottenInv, OwnQueue, Elements, InCallback, Unused, Own
    <2>12. Live'
      <3> SUFFICES ASSUME NEW n \in Nodes, n \in Ready PROVE Kept(n)'
        BY <1>1 DEF Live, Ready
      <3>1. slots[n].cfg <= slots[n].cfg
        BY <1>0, DigestFacts
      <3>2. \A c \in Nat : Accepted(n, c) => Accepted(n, c)'
        BY <1>0, <1>1, <2>7, <3>1, AcceptedKept
      <3>3. Kept(n) /\ (InCallback(n)' => InCallback(n) /\ cb' = cb)
        BY <1>1 DEF ForgottenInv, Live, InCallback
      <3> QED BY <1>0, <1>1, <2>7, <3>1, <3>2, <3>3, LiveKept
    <2> QED BY <1>2, <2>8, <2>9, <2>10, <2>11, <2>12, ForgottenKept
  <1> QED BY <1>3, <1>4

(* and the slot given back.                                                *)
LEMMA FreeChildForgotten == ASSUME ForgottenInv, KnownInv', FreeChild PROVE ForgottenInv'
  <1> USE DEF poolVars, listVars, netVars, histVars, otherThreads
  <1>0. BridgeShape /\ BridgeShape'
    BY DEF ForgottenInv, KnownInv
  <1> DEFINE s == app.slot
  <1>1. /\ app.pc = "free" /\ s \in Slots /\ app = [pc |-> "free", slot |-> s]
    BY <1>0, AppPlace DEF FreeChild
  <1>2. /\ slots' = [slots EXCEPT ![s] = FreeSlot] /\ want' = [want EXCEPT ![s] = 0]
        /\ lockB = "none" /\ lockB' = "app" /\ holes' = holes \ {s}
        /\ app' = [app EXCEPT !.pc = "reset"]
        /\ UNCHANGED <<requests, pend, nvs, inbox, cb, worker, cloudCfg, toCloud, fromCloud, queue>>
    BY DEF FreeChild, TakeBAndFree, BFree
  <1>3. app'.pc = "reset" /\ app'.slot = s
    BY <1>1, <1>2
  <1> HIDE DEF s
  <1>4. /\ slots'[s].st = "free" /\ want'[s] = 0
        /\ \A n \in Nodes : n # s => slots'[n] = slots[n] /\ want'[n] = want[n] /\ (n \in holes' <=> n \in holes)
        /\ \A n \in Nodes : slots[n].cfg <= slots[n].cfg
    <2>1. \A n \in Nodes : slots[n].cfg \in Nat
      BY <1>0, DigestFacts
    <2>2. want \in [Nodes -> Nat] /\ slots \in [Nodes -> Children] /\ s \in Nodes
      BY <1>0, <1>1, NodeFacts DEF BridgeShape
    <2> QED BY <1>2, <2>1, <2>2 DEF FreeSlot
  <1>5. Freeing'
    BY <1>2, <1>3, <1>4 DEF ForgottenInv, Freeing
  <1>6. Unused'
    BY <1>2, <1>4, NodeFacts DEF ForgottenInv, Unused, InCallback
  <1>7. Self # s
    BY <1>1, NodeFacts
  <1> QED BY <1>2, <1>4, <1>5, <1>6, <1>7, NodeFacts, PoolForgotten

(* A step that only touches the list and the checksums.                    *)
LEMMA SameForgotten ==
    ASSUME ForgottenInv, KnownInv', OwnQueue',
           UNCHANGED <<slots, want, requests, inbox, cloudCfg, toCloud, fromCloud, queue,
                       app, worker, lockB>>,
           Unused', Live'
    PROVE  ForgottenInv'
  <1>1. BridgeShape /\ BridgeShape'
    BY DEF ForgottenInv, KnownInv
  <1>2. Sent' = Sent /\ Replies' = Replies /\ Elements(queue') = Elements(queue)
    BY DEF Sent, Replies, Elements
  <1>3. Before' /\ After' /\ Own' /\ Freeing'
    BY <1>1, <1>2, BeforeKept, AfterKept DEF ForgottenInv, Own, Freeing
  <1>4. \A n \in Nodes : slots[n].cfg <= slots[n].cfg
    BY <1>1, DigestFacts
  <1>5. Rising'
    BY <1>1, <1>4, RisingKept DEF ForgottenInv
  <1> QED BY <1>3, <1>5, ForgottenKept

(* What is out is the same when nothing moves.                             *)
LEMMA AcceptedSame ==
    ASSUME UNCHANGED <<slots, cloudCfg, toCloud>>
    PROVE  Sent' = Sent /\ \A n \in Nodes, c \in Nat : Accepted(n, c)' <=> Accepted(n, c)
  BY DEF Accepted, Sent, Elements

(* A node whose checksum is the stored one leaves the list: it is out.     *)
LEMMA ReportUnchangedForgotten == ASSUME ForgottenInv, KnownInv', OwnQueue', ReportUnchanged PROVE ForgottenInv'
  <1> USE DEF poolVars, listVars, netVars, histVars, otherThreads
  <1>0. BridgeShape /\ BridgeShape'
    BY DEF ForgottenInv, KnownInv
  <1>1. /\ UNCHANGED <<slots, want, nvs, requests, inbox, cloudCfg, toCloud, fromCloud, queue,
                       app, lockB, cb>>
        /\ worker.pc = "report" /\ worker.batch # {} /\ Reported(Next1, FALSE)
        /\ Reportable(Next1) /\ Unchanged(Next1) /\ pend' = pend \ {Next1}
        /\ holes' = IF Mistaken(nvs[slots[Next1].id], Hash(Next1)) THEN holes \cup {Next1} ELSE holes
    BY DEF ReportUnchanged, PendingRemove
  <1>2. Next1 \in Nodes /\ worker'.pc = "report"
    BY <1>0, <1>1, BatchFacts, ReportedFacts
  <1>3. Sent' = Sent /\ Replies' = Replies /\ Elements(queue') = Elements(queue)
    BY <1>1 DEF Sent, Replies, Elements
  <1>4. Before' /\ After' /\ Own' /\ Freeing' /\ Unused'
    BY <1>0, <1>1, <1>2, <1>3, BeforeKept, AfterKept DEF ForgottenInv, Own, Freeing, Unused,
       InCallback
  <1>5. \A n \in Nodes : slots[n].cfg \in Nat /\ slots[n].cfg <= slots[n].cfg /\ want[n] \in Nat
    BY <1>0, DigestFacts
  <1>6. Rising'
    BY <1>0, <1>1, <1>5, RisingKept DEF ForgottenInv
  <1>7. ASSUME NEW n \in Nodes, n \in Ready PROVE Kept(n)'
    <2>1. Kept(n) /\ (InCallback(n)' => InCallback(n) /\ cb' = cb)
      BY <1>1, <1>7 DEF ForgottenInv, Live, InCallback
    <2>2. \A c \in Nat : Accepted(n, c) => Accepted(n, c)'
      BY <1>0, <1>1, <1>3, <1>5, AcceptedKept
    <2>3. n = Next1 /\ n \notin holes' => Accepted(n, want[n])
      <3> SUFFICES ASSUME n = Next1, n \notin holes' PROVE Accepted(n, want[n])
        OBVIOUS
      <3>1. n \notin holes /\ nvs[slots[n].id] = Hash(n) /\ Hash(n) # NoHash /\ Hash(n)[2] = slots[n].cfg
        BY <1>1 DEF Reportable, Unchanged, Mistaken, Hash, NoHash
      <3>2. Stored(n) /\ want[n] <= slots[n].cfg
        BY <2>1, <3>1 DEF Kept, Granted
      <3>3. Accepted(n, slots[n].cfg)
        BY <1>1, <3>1, <3>2 DEF Stored
      <3> QED BY <1>0, <1>5, <3>2, <3>3, AcceptedLess
    <2>4. (n \in pend => n \in pend' \/ n \in holes' \/ Accepted(n, want[n])) /\ (n \in holes => n \in holes')
      BY <1>1, <2>3
    <2> QED BY <1>0, <1>1, <1>3, <1>5, <2>1, <2>2, <2>4, LiveKept
  <1>8. Live'
    BY <1>1, <1>7 DEF Live, Ready
  <1> QED BY <1>4, <1>6, <1>8, ForgottenKept

(* The configuration of a node is sent.                                    *)
LEMMA ReportSentForgotten == ASSUME ForgottenInv, KnownInv', OwnQueue', ReportSent PROVE ForgottenInv'
  <1> USE DEF poolVars, listVars, netVars, histVars, otherThreads
  <1>0. BridgeShape /\ BridgeShape'
    BY DEF ForgottenInv, KnownInv
  <1> DEFINE m == [kind |-> "config", hash |-> Hash(Next1)]
  <1>1. /\ UNCHANGED <<slots, want, nvs, requests, pend, queue, holes, app, lockB, cb>>
        /\ worker.pc = "report" /\ worker.batch # {} /\ Reported(Next1, FALSE) /\ Published(m)
        /\ Reportable(Next1) /\ inbox' = [inbox EXCEPT ![Next1] = Hash(Next1)]
    BY DEF ReportSent
  <1>2. Next1 \in Nodes /\ worker'.pc = "report"
    BY <1>0, <1>1, BatchFacts, ReportedFacts
  <1>3. m \in Upward /\ m.kind = "config" /\ m.hash = <<slots[Next1].id, slots[Next1].cfg>>
    BY <1>0, <1>2, HashType DEF Upward, Hash
  <1>4. toCloud' = Append(toCloud, m) /\ UNCHANGED <<fromCloud, cloudCfg>>
    BY <1>1 DEF Published
  <1> HIDE DEF m
  <1>5. Sent' = Sent \cup {m} /\ Replies' = Replies
    <2>1. Elements(toCloud') = Elements(toCloud) \cup {m}
      BY <1>0, <1>3, <1>4, AppendElements DEF BridgeShape
    <2> QED BY <1>1, <1>3, <1>4, <2>1 DEF Sent, Replies, Elements
  <1>6. \A n \in Nodes : slots[n].st # "free" /\ slots[n].id = slots[Next1].id => n = Next1
    <2>1. slots[Next1].st # "free"
      BY <1>1 DEF Reportable
    <2>2. \A s, r \in Slots : slots[s].st # "free" /\ slots[r].st # "free" /\ slots[s].id = slots[r].id => s = r
      BY DEF ForgottenInv, KnownInv, Apart
    <2>3. slots[Self].id = "self" /\ \A s \in Slots : slots[s].st # "free" => slots[s].id # "self"
      BY <1>0, IdsAssumption DEF BridgeShape
    <2> QED BY <1>2, <2>1, <2>2, <2>3, NodeFacts
  <1>7. Rising'
    <2>1. \A n \in Ready : IsConfig(m, slots[n].id) => m.hash[2] = slots[n].cfg
      BY <1>3, <1>6 DEF IsConfig, Ready
    <2> QED BY <1>0, <1>1, <1>3, <1>4, <2>1, RisingAppend DEF ForgottenInv
  <1>8. Before'
    <2>1. ASSUME NEW e \in requests, e.kind = "add", IsConfig(m, e.id) PROVE FALSE
      <3>1. PICK s \in Slots : slots[s].st = "add" /\ slots[s].id = e.id
        BY <2>1 DEF ForgottenInv, KnownInv, Tables, Granting
      <3>2. s = Next1
        BY <1>3, <1>6, <2>1, <3>1, NodeFacts DEF IsConfig
      <3>3. slots[s].cfg = 0
        BY <3>1 DEF ForgottenInv, Unused
      <3> QED BY <1>1, <3>2, <3>3 DEF Reportable
    <2> QED BY <1>0, <1>1, <1>3, <1>4, <2>1, BeforeAppend DEF ForgottenInv
  <1>9. After' /\ Freeing' /\ Unused'
    BY <1>0, <1>1, <1>2, <1>4, AfterKept DEF ForgottenInv, Freeing, Unused, InCallback, Elements
  <1>10. Own'
    <2>1. slots[Self].id = "self" /\ slots[Self].st = "ready"
      BY <1>0 DEF BridgeShape
    <2>2. m.hash[1] = "self" => m.hash[2] = 1
      BY <1>3, <1>6, <2>1, NodeFacts DEF ForgottenInv, Own
    <2>3. inbox'[Self] = IF Next1 = Self THEN <<"self", 1>> ELSE inbox[Self]
      BY <1>0, <1>1, <2>1, NodeFacts DEF BridgeShape, Hash, ForgottenInv, Own
    <2> QED BY <1>1, <1>5, <2>2, <2>3 DEF ForgottenInv, Own
  <1>11. ASSUME NEW n \in Nodes, n \in Ready PROVE Kept(n)'
    <2>1. Kept(n) /\ (InCallback(n)' => InCallback(n) /\ cb' = cb)
      BY <1>1, <1>11 DEF ForgottenInv, Live, InCallback
    <2>2. slots[n].cfg \in Nat /\ slots[n].cfg <= slots[n].cfg
      BY <1>0, DigestFacts
    <2>3. \A c \in Nat : Accepted(n, c) => Accepted(n, c)'
      <3>1. m.hash[1] = slots[n].id => m.hash[2] = slots[n].cfg
        BY <1>3, <1>6, <1>11 DEF Ready
      <3> QED BY <1>1, <1>4, <1>5, <3>1 DEF Accepted
    <2> QED BY <1>0, <1>1, <1>5, <2>1, <2>2, <2>3, LiveKept
  <1>12. Live'
    BY <1>1, <1>11 DEF Live, Ready
  <1> QED BY <1>7, <1>8, <1>9, <1>10, <1>12, ForgottenKept

(* The callback compares its checksum with the one of now,                 *)
LEMMA CompareForgotten == ASSUME ForgottenInv, KnownInv', OwnQueue', CbCompare PROVE ForgottenInv'
  <1> USE DEF poolVars, listVars, netVars, histVars, otherThreads
  <1>0. BridgeShape /\ BridgeShape'
    BY DEF ForgottenInv, KnownInv
  <1>1. /\ UNCHANGED <<slots, want, nvs, requests, inbox, cloudCfg, toCloud, fromCloud, queue,
                       app, worker, lockB, pend>>
        /\ cb.pc = "compare"
        /\ \/ cb' = Idle /\ holes' = holes
           \/ /\ ~Stale(cb.node, cb.hash) /\ cb' = [cb EXCEPT !.pc = "persist"]
              /\ holes' = IF Mistaken(cb.hash, Hash(cb.node)) THEN holes \cup {cb.node} ELSE holes
    BY DEF CbCompare, ClearInflight
  <1>2. CASE cb' = Idle /\ holes' = holes
    <2>1. Freeing' /\ inbox'[Self] \in {inbox[Self], NoHash} /\ \A t \in Elements(queue') : t \in Elements(queue)
      BY <1>1 DEF ForgottenInv, Freeing, Elements
    <2> QED BY <1>1, <1>2, <2>1, QuietForgotten
  <1>3. CASE /\ ~Stale(cb.node, cb.hash) /\ cb' = [cb EXCEPT !.pc = "persist"]
             /\ holes' = IF Mistaken(cb.hash, Hash(cb.node)) THEN holes \cup {cb.node} ELSE holes
    <2>1. cb # Idle /\ cb = [pc |-> cb.pc, node |-> cb.node, hash |-> cb.hash] /\ cb.node \in Nodes /\ cb.hash[2] \in Nat
      BY <1>0, <1>1, DigestFacts DEF Idle
    <2>2. cb' # Idle /\ cb'.pc = "persist" /\ cb'.node = cb.node /\ cb'.hash = cb.hash
      BY <1>3, <2>1 DEF Idle
    <2>3. \A n \in Nodes : InCallback(n)' <=> InCallback(n)
      BY <2>1, <2>2 DEF InCallback
    <2>4. Unused'
      BY <1>1, <1>3, <2>3, NodeFacts DEF ForgottenInv, Unused
    <2>5. Replies' = Replies /\ Sent' = Sent /\ \A n \in Nodes, c \in Nat : Accepted(n, c)' <=> Accepted(n, c)
      BY <1>1, AcceptedSame DEF Replies, Elements
    <2>6. ASSUME NEW n \in Nodes, n \in Ready PROVE Kept(n)'
      <3>1. Kept(n)
        BY <2>6 DEF ForgottenInv, Live
      <3>2. /\ slots[n].cfg \in Nat /\ want[n] \in Nat /\ nvs[slots[n].id][2] \in Nat
            /\ \A m \in Replies : m.hash[2] \in Nat
        BY <1>0, DigestFacts
      <3>3. Granted(n)'
        BY <1>1, <2>5, <3>1, <3>2 DEF Kept, Granted
      <3>4. InCallback(n) /\ n \notin holes' => want[n] <= cb.hash[2]
        <4> SUFFICES ASSUME InCallback(n), n \notin holes' PROVE want[n] <= cb.hash[2]
          OBVIOUS
        <4>1. want[n] <= slots[n].cfg /\ cb.node = n
          BY <3>1 DEF Kept, Granted, InCallback
        <4>2. CASE Reportable(n)
          <5>1. Hash(n) = cb.hash
            BY <1>3, <4>1, <4>2 DEF Stale, Mistaken, SameSum
          <5> QED BY <4>1, <5>1 DEF Hash
        <4>3. CASE ~Reportable(n)
          BY <2>1, <2>6, <3>2, <4>1, <4>3 DEF Reportable, Ready
        <4> QED BY <4>2, <4>3
      <3>5. ASSUME n \notin holes' PROVE Stored(n)'
        <4>1. Stored(n)
          BY <1>3, <3>1, <3>5 DEF Kept
        <4> QED BY <1>1, <2>1, <2>2, <2>3, <2>5, <3>2, <3>4, <3>5, <4>1 DEF Stored
      <3> QED BY <3>3, <3>5 DEF Kept
    <2>7. Live'
      BY <1>1, <2>6 DEF Live, Ready
    <2> QED BY <1>1, <2>4, <2>7, SameForgotten
  <1> QED BY <1>1, <1>2, <1>3

(* stores it and takes the node off the list.                              *)
LEMMA PersistForgotten == ASSUME ForgottenInv, KnownInv', OwnQueue', CbPersist PROVE ForgottenInv'
  <1> USE DEF poolVars, listVars, netVars, histVars, otherThreads
  <1>0. BridgeShape /\ BridgeShape'
    BY DEF ForgottenInv, KnownInv
  <1> DEFINE k == cb.node
  <1>1. /\ UNCHANGED <<slots, want, requests, inbox, cloudCfg, toCloud, fromCloud, queue, holes,
                       app, worker, lockB>>
        /\ cb.pc = "persist" /\ cb' = Idle /\ pend' = pend \ {k}
        /\ \/ nvs' = nvs
           \/ slots[k].st # "free" /\ nvs' = [nvs EXCEPT ![slots[k].id] = cb.hash]
    <2>1. CASE slots[k].st = "free"
      BY <2>1 DEF CbPersist, PendingRemove
    <2>2. CASE slots[k].st # "free" /\ Stores(slots[k].id, cb.hash)
      BY <2>2 DEF CbPersist, Stores, PendingRemove
    <2> QED BY <2>1, <2>2 DEF CbPersist
  <1>2. cb # Idle /\ k \in Nodes /\ cb.hash[2] \in Nat /\ InCallback(k)
    BY <1>0, <1>1, DigestFacts DEF Idle, InCallback
  <1> HIDE DEF k
  <1>3. k # Self /\ k \in Slots
    BY <1>2, NodeFacts DEF ForgottenInv, OwnQueue
  <1>4. /\ \A n \in Nodes : slots[n].st # "free" /\ n # k => nvs'[slots[n].id] = nvs[slots[n].id]
        /\ slots[k].st # "free" => nvs'[slots[k].id] \in {cb.hash, nvs[slots[k].id]}
    <2>1. \A n \in Nodes : slots[n].st # "free" /\ n # k /\ slots[k].st # "free" => slots[n].id # slots[k].id
      BY <1>0, <1>3, IdsAssumption, NodeFacts DEF ForgottenInv, KnownInv, Apart, BridgeShape
    <2>2. nvs \in [Things -> Digests] /\ slots[k].id \in Things
      BY <1>0, <1>2, DigestFacts DEF BridgeShape
    <2>3. CASE nvs' = nvs
      BY <1>1, <2>3
    <2>4. CASE slots[k].st # "free" /\ nvs' = [nvs EXCEPT ![slots[k].id] = cb.hash]
      <3>1. nvs'[slots[k].id] = cb.hash /\ \A t \in Things : t # slots[k].id => nvs'[t] = nvs[t]
        BY <2>2, <2>4
      <3>2. \A n \in Nodes : slots[n].id \in Things /\ slots'[n].id = slots[n].id
        BY <1>0, <1>1, DigestFacts
      <3> QED BY <2>1, <2>4, <3>1, <3>2
    <2> QED BY <1>1, <2>3, <2>4
  <1>5. \A n \in Nodes : ~InCallback(n)'
    BY <1>1 DEF InCallback
  <1>6. Unused'
    <2>1. \A s \in Slots : slots[s].st = "add" /\ s \notin holes => s # k
      BY <1>2 DEF ForgottenInv, Unused
    <2> QED BY <1>1, <1>4, <1>5, <2>1, NodeFacts DEF ForgottenInv, Unused
  <1>7. Replies' = Replies /\ Sent' = Sent /\ \A n \in Nodes, c \in Nat : Accepted(n, c)' <=> Accepted(n, c)
    BY <1>1, AcceptedSame DEF Replies, Elements
  <1>8. ASSUME NEW n \in Nodes, n \in Ready PROVE Kept(n)'
    <2>1. Kept(n) /\ slots[n].st = "ready"
      BY <1>8 DEF ForgottenInv, Live, Ready
    <2>2. /\ slots[n].cfg \in Nat /\ want[n] \in Nat /\ nvs[slots[n].id][2] \in Nat
          /\ \A m \in Replies : m.hash[2] \in Nat
      BY <1>0, DigestFacts
    <2>3. Granted(n)'
      BY <1>1, <1>7, <2>1, <2>2 DEF Kept, Granted
    <2>4. ASSUME n \notin holes' PROVE Stored(n)'
      <3>1. Stored(n)
        BY <1>1, <2>1, <2>4 DEF Kept
      <3>2. CASE n # k
        BY <1>1, <1>4, <1>5, <1>7, <2>1, <2>2, <3>1, <3>2 DEF Stored
      <3>3. CASE n = k
        <4>1. cb.hash[1] = slots[n].id /\ Accepted(n, cb.hash[2]) /\ want[n] <= cb.hash[2]
          BY <1>1, <1>2, <3>1, <3>3 DEF Stored
        <4>2. Accepted(n, want[n])
          BY <1>0, <1>2, <2>2, <4>1, AcceptedLess
        <4>3. /\ nvs'[slots'[n].id] \in {cb.hash, nvs[slots[n].id]} /\ slots'[n].id = slots[n].id
              /\ want'[n] = want[n]
          BY <1>1, <1>4, <2>1, <3>3
        <4> QED BY <1>2, <1>5, <1>7, <2>2, <3>1, <4>1, <4>2, <4>3 DEF Stored
      <3> QED BY <3>2, <3>3
    <2> QED BY <2>3, <2>4 DEF Kept
  <1>9. Live'
    BY <1>1, <1>8 DEF Live, Ready
  <1> QED BY <1>1, <1>6, <1>9, SameForgotten

(* An answer is taken.                                                     *)
LEMMA TailReplies ==
    ASSUME BridgeShape, fromCloud # <<>>, fromCloud' = Tail(fromCloud), UNCHANGED queue
    PROVE  Replies' \subseteq Replies /\ (Head(fromCloud).kind = "answer" => Head(fromCloud) \in Replies)
  <1>1. fromCloud \in Seq(Downward)
    BY DEF BridgeShape
  <1>2. Elements(fromCloud) = {Head(fromCloud)} \cup Elements(fromCloud') /\ Elements(queue') = Elements(queue)
    BY <1>1, TailElements
  <1> QED BY <1>2 DEF Replies

(* The node's own answer.                                                  *)
LEMMA SelfAnswerForgotten == ASSUME ForgottenInv, KnownInv', OwnQueue', SelfAnswer PROVE ForgottenInv'
  <1> USE DEF poolVars, listVars, netVars, histVars, otherThreads
  <1>0. BridgeShape /\ BridgeShape'
    BY DEF ForgottenInv, KnownInv
  <1> DEFINE m == Head(queue)
  <1>1. /\ UNCHANGED <<slots, want, requests, cloudCfg, toCloud, fromCloud, holes, app, worker,
                       lockB, cb>>
        /\ inbox' = [inbox EXCEPT ![Self] = NoHash]
        /\ TakeTask("answer") /\ queue' = Tail(queue)
    BY DEF SelfAnswer
  <1>2. /\ queue # <<>> /\ m.kind = "answer" /\ queue \in Seq(BridgeTasks)
        /\ Elements(queue) = {m} \cup Elements(queue')
    <2>1. queue # <<>> /\ m.kind = "answer" /\ queue \in Seq(BridgeTasks)
      BY <1>0, <1>1, TaskTaken
    <2> QED BY <1>1, <2>1, TailElements
  <1> HIDE DEF m
  <1>3. inbox'[Self] = NoHash /\ Freeing'
    BY <1>0, <1>1, NodeFacts DEF BridgeShape, ForgottenInv, Freeing
  <1>4. Replies' \subseteq Replies /\ m \in Replies /\ m.hash[1] = "self"
    BY <1>1, <1>2 DEF Replies, Elements, ForgottenInv, OwnQueue
  <1>5. CASE UNCHANGED <<pend, nvs>>
    BY <1>1, <1>2, <1>3, <1>5, QuietForgotten
  <1>6. CASE /\ inbox[Self] # NoHash /\ m.ok /\ nvs' \in {nvs, [nvs EXCEPT !["self"] = inbox[Self]]}
             /\ pend' = pend \ {Self}
    <2>1. nvs'["self"] \in {nvs["self"], <<"self", 1>>} /\ \A t \in Things : t # "self" => nvs'[t] = nvs[t]
      BY <1>0, <1>6, NodeFacts DEF ForgottenInv, Own, BridgeShape
    <2>2. /\ slots[Self].id = "self" /\ slots[Self].st = "ready" /\ Self \in Nodes
          /\ \A s \in Slots : slots[s].st # "free" => slots[s].id \in Things /\ slots[s].id # "self"
      BY <1>0, IdsAssumption, NodeFacts DEF BridgeShape
    <2>3. Before' /\ After'
      BY <1>0, <1>1, <1>2, BeforeKept, AfterKept DEF ForgottenInv
    <2>4. Own'
      <3>1. Sent' = Sent
        BY <1>1 DEF Sent, Elements
      <3> QED BY <1>1, <1>3, <1>4, <3>1, OwnKept DEF ForgottenInv
    <2>5. Unused'
      BY <1>1, <2>1, <2>2 DEF ForgottenInv, Unused, InCallback
    <2>6. \A n \in Nodes : slots[n].cfg \in Nat /\ slots[n].cfg <= slots[n].cfg
      BY <1>0, DigestFacts
    <2>7. Rising'
      BY <1>0, <1>1, <2>6, RisingKept DEF ForgottenInv
    <2>8. Sent' = Sent /\ \A n \in Nodes, c \in Nat : Accepted(n, c)' <=> Accepted(n, c)
      BY <1>1, AcceptedSame
    <2>9. ASSUME NEW n \in Nodes, n \in Ready, n # Self PROVE Kept(n)'
      <3>1. Kept(n) /\ (InCallback(n)' => InCallback(n) /\ cb' = cb)
        BY <1>1, <2>9 DEF ForgottenInv, Live, InCallback
      <3>2. nvs'[slots[n].id] = nvs[slots[n].id] /\ (n \in pend => n \in pend')
        BY <1>6, <2>1, <2>2, <2>9, NodeFacts DEF Ready
      <3> QED BY <1>0, <1>1, <1>4, <2>6, <2>8, <3>1, <3>2, LiveKept
    <2>10. ASSUME NEW n \in Nodes, n = Self PROVE Kept(n)'
      <3>1. Kept(n) /\ want[n] = 1 /\ m.hash[2] = 1
        BY <1>4, <2>2, <2>10 DEF ForgottenInv, Live, Ready, Own
      <3>2. Accepted(n, 1) /\ want[n] <= slots[n].cfg
        BY <1>4, <1>6, <2>2, <2>10, <3>1 DEF Kept, Granted
      <3>3. \A r \in Replies : r.hash[2] \in Nat
        BY <1>0, DigestFacts
      <3>4. Granted(n)'
        BY <1>1, <1>4, <2>8, <3>1, <3>3 DEF Kept, Granted
      <3>5. ~InCallback(n)'
        BY <2>10 DEF OwnQueue
      <3>6. Accepted(n, 1)'
        BY <2>8, <3>2
      <3>7. /\ nvs'[slots'[n].id] \in {nvs[slots[n].id], <<"self", 1>>}
            /\ slots'[n].id = slots[n].id /\ slots[n].id = "self" /\ want'[n] = 1
        BY <1>1, <2>1, <2>2, <2>10, <3>1
      <3>8. ASSUME n \notin holes' PROVE Stored(n)'
        <4>1. Stored(n) /\ nvs[slots[n].id][2] \in Nat
          BY <1>0, <1>1, <3>1, <3>8, DigestFacts DEF Kept
        <4> QED BY <2>8, <3>5, <3>6, <3>7, <4>1 DEF Stored
      <3> QED BY <3>4, <3>8 DEF Kept
    <2>11. Live'
      BY <1>1, <2>9, <2>10 DEF Live, Ready
    <2> QED BY <1>3, <2>3, <2>4, <2>5, <2>7, <2>11, ForgottenKept
  <1> QED BY <1>5, <1>6 DEF SelfAnswer, Stores, NotAccepted, PendingRemove, ClearInflight, m

(* An answer for a child starts the callback with what was accepted,       *)
(* unless the inbox holds a later one: a hole.                             *)
LEMMA ChildAnswerForgotten == ASSUME ForgottenInv, KnownInv', OwnQueue', ChildAnswer PROVE ForgottenInv'
  <1> USE DEF poolVars, listVars, netVars, histVars, otherThreads
  <1>0. BridgeShape /\ BridgeShape'
    BY DEF ForgottenInv, KnownInv
  <1> DEFINE m == Head(fromCloud)
  <1>1. /\ UNCHANGED <<slots, want, requests, cloudCfg, toCloud, queue, nvs, pend, app, worker,
                       lockB>>
        /\ cb = Idle /\ fromCloud # <<>> /\ m.kind = "answer" /\ fromCloud' = Tail(fromCloud)
    BY DEF ChildAnswer, NotAccepted, ClearInflight
  <1>2. Freeing' /\ \A t \in Elements(queue') : t \in Elements(queue)
    BY <1>1 DEF ForgottenInv, Freeing, Elements
  <1>3. Replies' \subseteq Replies /\ m \in Replies
    BY <1>0, <1>1, TailReplies
  <1> HIDE DEF m
  <1>4. CASE UNCHANGED <<inbox, cb, holes>>
    BY <1>1, <1>2, <1>4, QuietForgotten
  <1>5. ASSUME NEW s \in SlotOf(m.hash[1]) \cap Ready, inbox' = [inbox EXCEPT ![s] = NoHash]
        PROVE  s \in Slots /\ slots[s].st = "ready" /\ slots[s].id = m.hash[1] /\ inbox'[Self] = inbox[Self]
    BY <1>0, <1>5, NodeFacts DEF SlotOf, Ready, BridgeShape
  <1>6. ASSUME NEW s \in SlotOf(m.hash[1]) \cap Ready, inbox' = [inbox EXCEPT ![s] = NoHash],
               UNCHANGED <<cb, holes>>
        PROVE  ForgottenInv'
    BY <1>1, <1>2, <1>5, <1>6, QuietForgotten
  <1>7. ASSUME NEW s \in SlotOf(m.hash[1]) \cap Ready, inbox' = [inbox EXCEPT ![s] = NoHash],
               m.ok, cb' = [pc |-> "compare", node |-> s, hash |-> inbox[s]],
               holes' = IF inbox[s] = m.hash THEN holes ELSE holes \cup {s}
        PROVE  ForgottenInv'
    <2>1. s \in Slots /\ slots[s].st = "ready" /\ slots[s].id = m.hash[1] /\ inbox'[Self] = inbox[Self]
      BY <1>5, <1>7
    <2>2. /\ cb' # Idle /\ cb'.pc = "compare" /\ cb'.node = s /\ cb'.hash = inbox[s]
          /\ \A n \in Nodes : InCallback(n)' => n = s
      BY <1>7 DEF InCallback, Idle
    <2>3. Before' /\ After'
      BY <1>0, <1>1, <1>2, BeforeKept, AfterKept DEF ForgottenInv
    <2>4. Own'
      <3>1. Sent' = Sent
        BY <1>1 DEF Sent, Elements
      <3> QED BY <1>1, <1>3, <2>1, <3>1, OwnKept DEF ForgottenInv
    <2>5. Unused'
      BY <1>1, <1>7, <2>1, <2>2, NodeFacts DEF ForgottenInv, Unused
    <2>6. \A n \in Nodes : slots[n].cfg \in Nat /\ slots[n].cfg <= slots[n].cfg
      BY <1>0, DigestFacts
    <2>7. Rising'
      BY <1>0, <1>1, <2>6, RisingKept DEF ForgottenInv
    <2>8. Sent' = Sent /\ \A n \in Nodes, c \in Nat : Accepted(n, c)' <=> Accepted(n, c)
      BY <1>1, AcceptedSame
    <2>9. ASSUME NEW n \in Nodes, n \in Ready, n # s PROVE Kept(n)'
      <3>1. Kept(n) /\ ~InCallback(n)' /\ (n \in holes => n \in holes')
        BY <1>7, <2>2, <2>9 DEF ForgottenInv, Live
      <3> QED BY <1>0, <1>1, <1>3, <2>6, <2>8, <3>1, LiveKept
    <2>10. ASSUME NEW n \in Nodes, n = s PROVE Kept(n)'
      <3>1. Kept(n)
        BY <2>1, <2>10 DEF ForgottenInv, Live, Ready
      <3>2. /\ \A r \in Replies : r.hash[2] \in Nat
            /\ nvs[slots[n].id][2] \in Nat /\ want[n] \in Nat
        BY <1>0, DigestFacts
      <3>3. Granted(n)'
        BY <1>1, <1>3, <2>8, <3>1, <3>2 DEF Kept, Granted
      <3>4. ASSUME n \notin holes' PROVE Stored(n)'
        <4>1. n \notin holes /\ inbox[s] = m.hash
          BY <1>7, <2>10, <3>4
        <4>2. Stored(n) /\ Accepted(n, m.hash[2])
          BY <1>3, <1>7, <2>1, <2>10, <3>1, <4>1 DEF Kept, Granted
        <4>3. cb'.hash = m.hash /\ cb'.hash[1] = slots[n].id /\ cb'.pc # "persist"
          <5>1. cb'.hash = m.hash
            BY <2>2, <4>1
          <5>2. m.hash[1] = slots[n].id /\ cb'.pc = "compare"
            BY <2>1, <2>2, <2>10
          <5> QED BY <5>1, <5>2
        <4>4. InCallback(n)' => /\ cb'.hash[1] = slots'[n].id /\ Accepted(n, cb.hash[2])'
                                /\ cb'.pc = "persist" => want'[n] <= cb'.hash[2]
          <5>1. \A c \in Nat : c = m.hash[2] => Accepted(n, c)'
            BY <1>3, <2>8, <3>2, <4>2
          <5>2. cb'.hash[2] = m.hash[2] /\ m.hash[2] \in Nat
            BY <1>3, <3>2, <4>3
          <5> QED BY <1>1, <4>3, <5>1, <5>2
        <4> QED BY <1>1, <2>8, <3>2, <4>2, <4>4 DEF Stored
      <3> QED BY <3>3, <3>4 DEF Kept
    <2>11. Live'
      BY <1>1, <2>9, <2>10 DEF Live, Ready
    <2> QED BY <1>2, <2>3, <2>4, <2>5, <2>7, <2>11, ForgottenKept
  <1>8. \/ UNCHANGED <<inbox, cb, holes>>
        \/ \E s \in SlotOf(m.hash[1]) \cap Ready :
              /\ inbox' = [inbox EXCEPT ![s] = NoHash]
              /\ \/ UNCHANGED <<cb, holes>>
                 \/ /\ m.ok /\ cb' = [pc |-> "compare", node |-> s, hash |-> inbox[s]]
                    /\ holes' = IF inbox[s] = m.hash THEN holes ELSE holes \cup {s}
    BY DEF ChildAnswer, m
  <1> QED BY <1>4, <1>6, <1>7, <1>8

(* Any other message goes to the worker.                                   *)
LEMMA ToWorkerForgotten == ASSUME ForgottenInv, KnownInv', OwnQueue', ToWorker PROVE ForgottenInv'
  <1> USE DEF poolVars, listVars, netVars, histVars, otherThreads
  <1>0. BridgeShape /\ BridgeShape'
    BY DEF ForgottenInv, KnownInv
  <1> DEFINE m == Head(fromCloud)
  <1>1. /\ UNCHANGED <<slots, want, requests, inbox, cloudCfg, toCloud, nvs, pend, holes, cb,
                       app, worker, lockB>>
        /\ fromCloud # <<>> /\ fromCloud' = Tail(fromCloud) /\ fromCloud \in Seq(Downward) /\ m \in Downward
        /\ \/ queue' = Append(queue, m)
           \/ queue' = queue
    BY <1>0, QueueFacts DEF ToWorker, BridgeShape
  <1>2. Elements(fromCloud) = {m} \cup Elements(fromCloud')
    BY <1>1, TailElements
  <1>3. Elements(queue') \subseteq Elements(queue) \cup {m}
    <2>1. m \in BridgeTasks /\ queue \in Seq(BridgeTasks)
      BY <1>0, <1>1, TaskKinds DEF BridgeShape
    <2>2. Elements(Append(queue, m)) = Elements(queue) \cup {m}
      BY <2>1, AppendElements
    <2> QED BY <1>1, <2>2
  <1>4. CASE queue' = queue
    <2>1. Freeing' /\ inbox'[Self] \in {inbox[Self], NoHash} /\ \A t \in Elements(queue') : t \in Elements(queue)
      BY <1>1, <1>4 DEF ForgottenInv, Freeing, Elements
    <2> QED BY <1>1, <1>4, <2>1, QuietForgotten
  <1>5. CASE queue' = Append(queue, m)
    <2>1. Replies' \subseteq Replies /\ Sent' = Sent
      BY <1>1, <1>2, <1>3 DEF Replies, Sent, Elements
    <2>2. After'
      <3>1. /\ \A i \in DOMAIN fromCloud' : i \in Nat /\ i + 1 \in DOMAIN fromCloud /\ fromCloud'[i] = fromCloud[i + 1]
            /\ 1 \in DOMAIN fromCloud /\ fromCloud[1] = m
            /\ \A i \in DOMAIN fromCloud : i \in Nat /\ i >= 1
        BY <1>1, QueueFacts
      <3> HIDE DEF m
      <3>2. ASSUME NEW e \in requests, e.kind = "add", NEW i \in DOMAIN fromCloud', IsAnswer(fromCloud'[i], e.id)
            PROVE  /\ \A k \in DOMAIN fromCloud' : fromCloud'[k].kind = "ack" /\ fromCloud'[k].req = e.req => i < k
                   /\ \A t \in Elements(queue') : ~(t.kind = "ack" /\ t.req = e.req)
        <4>1. /\ i + 1 \in DOMAIN fromCloud /\ IsAnswer(fromCloud[i + 1], e.id) /\ i \in Nat
          BY <3>1, <3>2
        <4>2. /\ \A k \in DOMAIN fromCloud : fromCloud[k].kind = "ack" /\ fromCloud[k].req = e.req => i + 1 < k
              /\ \A t \in Elements(queue) : ~(t.kind = "ack" /\ t.req = e.req)
          BY <3>2, <4>1 DEF ForgottenInv, After
        <4>3. ~(m.kind = "ack" /\ m.req = e.req)
          <5> SUFFICES ASSUME m.kind = "ack", m.req = e.req PROVE FALSE
            OBVIOUS
          <5>1. i + 1 < 1
            BY <3>1, <4>2
          <5> QED BY <4>1, <5>1
        <4> QED BY <1>3, <3>1, <4>1, <4>2, <4>3
      <3> QED BY <1>1, <3>2 DEF After
    <2>3. Before'
      BY <1>0, <1>1, BeforeKept DEF ForgottenInv
    <2>4. Own' /\ Unused' /\ Freeing'
      BY <1>1, <2>1 DEF ForgottenInv, Own, Unused, Freeing, InCallback
    <2>5. \A n \in Nodes : slots[n].cfg \in Nat /\ slots[n].cfg <= slots[n].cfg
      BY <1>0, DigestFacts
    <2>6. Rising'
      BY <1>0, <1>1, <2>5, RisingKept DEF ForgottenInv
    <2>7. Sent' = Sent /\ \A n \in Nodes, c \in Nat : Accepted(n, c)' <=> Accepted(n, c)
      BY <1>1, AcceptedSame
    <2>8. ASSUME NEW n \in Nodes, n \in Ready PROVE Kept(n)'
      <3>1. Kept(n) /\ (InCallback(n)' => InCallback(n) /\ cb' = cb)
        BY <1>1, <2>8 DEF ForgottenInv, Live, InCallback
      <3> QED BY <1>0, <1>1, <2>1, <2>5, <2>7, <3>1, LiveKept
    <2>9. Live'
      BY <1>1, <2>8 DEF Live, Ready
    <2> QED BY <2>2, <2>3, <2>4, <2>6, <2>9, ForgottenKept
  <1> QED BY <1>1, <1>4, <1>5

(* A child that is promoted has no configuration and no answer of an       *)
(* earlier child of its id on the way.                                     *)
LEMMA BridgeAckForgotten == ASSUME ForgottenInv, KnownInv', OwnQueue', BridgeAck PROVE ForgottenInv'
  <1> USE DEF poolVars, listVars, netVars, histVars, otherThreads
  <1>0. BridgeShape /\ BridgeShape'
    BY DEF ForgottenInv, KnownInv
  <1> DEFINE m == Head(queue)
             entry == AckTaken(m)
             adds == {s \in SlotOf(m.id) : slots[s].st = "add" /\ \E e \in entry : e.kind = "add"}
  <1>1. /\ TakeTask("ack") /\ m.kind = "ack" /\ queue # <<>> /\ worker = Idle
        /\ queue' = Tail(queue) /\ requests' = requests \ entry
        /\ UNCHANGED <<app, toCloud, fromCloud, cloudCfg, nvs, inbox, cb, pend>>
    BY <1>0, TaskTaken DEF BridgeAck
  <1>2. m \in Elements(queue) /\ m \in Acks /\ Elements(queue') \subseteq Elements(queue)
    <2>1. queue \in Seq(BridgeTasks) /\ queue # <<>>
      BY <1>0, <1>1 DEF BridgeShape
    <2> QED BY <1>1, <2>1, TailElements DEF Acks
  <1>3. /\ Sent' = Sent /\ Replies' \subseteq Replies /\ requests' \subseteq requests
        /\ \A t \in Elements(queue') : t \in Elements(queue)
    BY <1>1, <1>2 DEF Sent, Replies, Elements
  <1>4. adds \subseteq Slots
    BY DEF SlotOf
  <1>5. ASSUME NEW s \in adds
        PROVE  /\ slots[s].st = "add" /\ slots[s].id = m.id
               /\ \E e \in requests : e.req = m.req /\ e.kind = "add" /\ e.id = m.id
    <2>1. slots[s].st = "add" /\ slots[s].id = m.id
      BY DEF SlotOf
    <2>2. PICK e \in requests : e.req = m.req /\ e.kind = "add"
      BY DEF AckTaken
    <2>3. e.id = m.id
      BY <1>2, <2>2 DEF ForgottenInv, KnownInv, Answered
    <2> QED BY <2>1, <2>2, <2>3
  <1>6. \/ /\ adds # {} /\ BFree
           /\ slots' = [n \in Nodes |-> IF n \in adds THEN [slots[n] EXCEPT !.st = "ready"] ELSE slots[n]]
           /\ UNCHANGED <<lockB, worker, want, holes>>
        \/ /\ adds # {} /\ TakeBAndFree("worker", Min(adds))
           /\ worker' = [pc |-> "reset", slot |-> Min(adds)]
        \/ UNCHANGED <<slots, lockB, worker, want, holes>>
    BY DEF BridgeAck
  <1>7. adds # {} => Min(adds) \in adds
    BY <1>4, NodeFacts, LeastOf
  <1> HIDE DEF m, entry, adds
  <1>8. \A s, r \in adds : s = r
    BY <1>4, <1>5 DEF ForgottenInv, KnownInv, Apart
  <1>9. /\ \A n \in Nodes : slots[n].cfg \in Nat /\ slots[n].cfg <= slots[n].cfg
        /\ slots \in [Nodes -> Children] /\ want \in [Nodes -> Nat]
    <2>1. \A n \in Nodes : slots[n].cfg \in Nat
      BY <1>0, DigestFacts
    <2> QED BY <1>0, <2>1 DEF BridgeShape
  <1>10. CASE UNCHANGED <<slots, lockB, worker, want, holes>>
    <2>1. Freeing' /\ inbox'[Self] \in {inbox[Self], NoHash}
      BY <1>1, <1>10 DEF ForgottenInv, Freeing
    <2> QED BY <1>1, <1>3, <1>10, <2>1, QuietForgotten
  <1>11. ASSUME adds # {}, TakeBAndFree("worker", Min(adds)), worker' = [pc |-> "reset", slot |-> Min(adds)]
         PROVE  ForgottenInv'
    <2> DEFINE s == Min(adds)
    <2>1. s \in adds /\ s \in Slots /\ s \in Nodes /\ Self # s
      BY <1>4, <1>7, <1>11, NodeFacts
    <2>2. /\ slots' = [slots EXCEPT ![s] = FreeSlot] /\ want' = [want EXCEPT ![s] = 0]
          /\ lockB = "none" /\ lockB' = "worker" /\ holes' = holes \ {s}
          /\ worker'.pc = "reset" /\ worker'.slot = s
      BY <1>11 DEF TakeBAndFree, BFree
    <2> HIDE DEF s
    <2>3. /\ slots'[s].st = "free" /\ want'[s] = 0
          /\ \A n \in Nodes : n # s => slots'[n] = slots[n] /\ want'[n] = want[n] /\ (n \in holes' <=> n \in holes)
      BY <1>9, <2>1, <2>2 DEF FreeSlot
    <2>4. Freeing'
      BY <1>1, <2>2, <2>3 DEF ForgottenInv, Freeing
    <2>5. Unused'
      BY <1>1, <2>2, <2>3, NodeFacts DEF ForgottenInv, Unused, InCallback
    <2> QED BY <1>1, <1>3, <1>9, <2>1, <2>3, <2>4, <2>5, NodeFacts, PoolForgotten
  <1>12. ASSUME adds # {}, BFree, UNCHANGED <<lockB, worker, want, holes>>,
                slots' = [n \in Nodes |-> IF n \in adds THEN [slots[n] EXCEPT !.st = "ready"] ELSE slots[n]]
         PROVE  ForgottenInv'
    <2>1. PICK s \in adds : TRUE
      BY <1>12
    <2>2. s \in Slots /\ s \in Nodes /\ Self # s /\ adds = {s}
      BY <1>4, <1>8, <2>1, NodeFacts
    <2>3. /\ slots[s].st = "add" /\ slots'[s].st = "ready" /\ slots'[s].id = slots[s].id
          /\ slots'[s].cfg = slots[s].cfg
          /\ \A n \in Nodes : n # s => slots'[n] = slots[n]
      <3>1. slots[s] \in Children /\ slots[s].st = "add"
        BY <1>5, <1>9, <2>1, <2>2
      <3>2. slots'[s] = [slots[s] EXCEPT !.st = "ready"] /\ \A n \in Nodes : n # s => slots'[n] = slots[n]
        BY <1>12, <2>2
      <3> QED BY <3>1, <3>2 DEF Children
    <2>4. PICK e \in requests : e.req = m.req /\ e.kind = "add" /\ e.id = slots[s].id
      BY <1>5, <2>1
    <2>5. slots[s].id \in Ids /\ slots[s].id # "self" /\ slots[s].cfg = 0 /\ want[s] = 0
      <3>1. slots[s].id \in Ids
        BY <1>0, <2>2, <2>3 DEF BridgeShape
      <3> QED BY <2>2, <2>3, <3>1, IdsAssumption DEF ForgottenInv, Unused
    <2>6. ASSUME NEW x \in Sent, x.hash[1] = slots[s].id PROVE FALSE
      <3>1. PICK i \in DOMAIN toCloud : toCloud[i] = x /\ x.kind = "config"
        BY DEF Sent, Elements
      <3>2. PICK j \in DOMAIN toCloud : toCloud[j].kind # "config" /\ toCloud[j].req = e.req
        BY <2>4, <2>6, <3>1 DEF ForgottenInv, Before, IsConfig
      <3>3. toCloud[j] \in Asked
        BY <3>2 DEF Asked, Elements
      <3>4. m.req < toCloud[j].req /\ m.req \in Nat
        BY <1>0, <1>2, <3>3, MessageFacts DEF ForgottenInv, KnownInv, Answered
      <3> QED BY <2>4, <3>2, <3>4
    <2>7. ASSUME NEW r \in Replies, r.hash[1] = slots[s].id PROVE FALSE
      <3>1. r.kind = "answer" /\ r \notin Elements(queue)
        BY <2>5, <2>7 DEF Replies, ForgottenInv, OwnQueue
      <3>2. PICK i \in DOMAIN fromCloud : fromCloud[i] = r
        BY <3>1 DEF Replies, Elements
      <3>3. \A t \in Elements(queue) : ~(t.kind = "ack" /\ t.req = e.req)
        BY <2>4, <2>7, <3>1, <3>2 DEF ForgottenInv, After, IsAnswer
      <3> QED BY <1>1, <1>2, <2>4, <3>3
    <2>8. Before' /\ After'
      BY <1>0, <1>1, <1>3, BeforeKept, AfterKept DEF ForgottenInv
    <2>9. Own'
      BY <1>1, <1>3, <1>12, <2>2, <2>3, NodeFacts DEF ForgottenInv, Own
    <2>10. Unused'
      BY <1>1, <1>12, <2>2, <2>3, NodeFacts DEF ForgottenInv, Unused, InCallback
    <2>11. Freeing'
      BY <1>1, <1>12 DEF ForgottenInv, Freeing, BFree, Idle
    <2>12. Rising'
      <3>1. ASSUME NEW n \in Nodes, slots'[n].st = "ready"
            PROVE  /\ \A x \in Sent : x.hash[1] = slots'[n].id => x.hash[2] <= slots'[n].cfg
                   /\ \A i, j \in DOMAIN toCloud :
                         IsConfig(toCloud[i], slots'[n].id) /\ IsConfig(toCloud[j], slots'[n].id) /\ i < j
                           => toCloud[i].hash[2] <= toCloud[j].hash[2]
        <4>1. CASE n = s
          <5>1. \A i \in DOMAIN toCloud : ~IsConfig(toCloud[i], slots[s].id)
            BY <2>6 DEF IsConfig, Sent, Elements
          <5> QED BY <2>3, <2>6, <4>1, <5>1
        <4>2. CASE n # s
          <5>1. n \in Ready /\ slots'[n] = slots[n]
            BY <2>3, <3>1, <4>2 DEF Ready
          <5> QED BY <5>1 DEF ForgottenInv, Rising
        <4> QED BY <4>1, <4>2
      <3> QED BY <1>1, <1>3, <3>1 DEF Rising, Ready
    <2>13. ASSUME NEW n \in Nodes, slots'[n].st = "ready" PROVE Kept(n)'
      <3>1. CASE n = s
        <4>1. Granted(n)'
          BY <1>3, <1>12, <2>3, <2>5, <2>7, <3>1 DEF Granted
        <4>2. ASSUME n \notin holes' PROVE Stored(n)'
          <5>1. nvs[slots[s].id] = NoHash /\ ~InCallback(s)
            BY <1>12, <2>2, <2>3, <3>1, <4>2 DEF ForgottenInv, Unused
          <5> QED BY <1>1, <1>12, <2>3, <2>5, <3>1, <5>1 DEF Stored, InCallback
        <4> QED BY <4>1, <4>2 DEF Kept
      <3>2. CASE n # s
        <4>1. n \in Ready /\ slots'[n] = slots[n] /\ Kept(n) /\ (InCallback(n)' => InCallback(n) /\ cb' = cb)
          BY <1>1, <2>3, <2>13, <3>2 DEF Ready, ForgottenInv, Live, InCallback
        <4>2. \A c \in Nat : Accepted(n, c) => Accepted(n, c)'
          BY <1>0, <1>1, <1>3, <1>9, <4>1, AcceptedKept
        <4> QED BY <1>0, <1>1, <1>3, <1>9, <1>12, <4>1, <4>2, LiveKept
      <3> QED BY <3>1, <3>2
    <2>14. Live'
      BY <2>13 DEF Live, Ready
    <2> QED BY <2>8, <2>9, <2>10, <2>11, <2>12, <2>14, ForgottenKept
  <1> QED BY <1>6, <1>10, <1>11, <1>12

(* The cloud takes a configuration and says so.                            *)
LEMMA CloudForgotten == ASSUME ForgottenInv, KnownInv', OwnQueue', Cloud PROVE ForgottenInv'
  <1> USE DEF poolVars, listVars, netVars, histVars, otherThreads
  <1>0. BridgeShape /\ BridgeShape'
    BY DEF ForgottenInv, KnownInv
  <1> DEFINE m == Head(toCloud)
  <1>1. /\ toCloud # <<>> /\ toCloud' = Tail(toCloud) /\ m \in Upward
        /\ UNCHANGED <<slots, requests, queue, pend, nvs, inbox, want, holes, cb, app, worker,
                       lockB>>
    BY <1>0, QueueFacts DEF Cloud, BridgeShape
  <1>2. /\ Elements(toCloud') \subseteq Elements(toCloud) /\ m \in Elements(toCloud)
        /\ 1 \in DOMAIN toCloud /\ toCloud[1] = m
        /\ \A i \in DOMAIN toCloud' : i \in Nat /\ i + 1 \in DOMAIN toCloud /\ toCloud'[i] = toCloud[i + 1]
        /\ \A i \in DOMAIN toCloud : /\ i \in Nat /\ i >= 1
                                     /\ i # 1 => i - 1 \in DOMAIN toCloud' /\ toCloud'[i - 1] = toCloud[i]
    <2>1. toCloud \in Seq(Upward) /\ toCloud # <<>>
      BY <1>0, <1>1 DEF BridgeShape
    <2>2. \A i \in DOMAIN toCloud : i \in Nat /\ i >= 1
      BY <2>1
    <2>3. \A i \in DOMAIN Tail(toCloud) : i \in Nat
      BY <2>1
    <2> QED BY <1>1, <2>1, <2>2, <2>3, QueueFacts, TailElements
  <1>3. Sent' \subseteq Sent /\ (m.kind = "config" => m \in Sent)
    BY <1>2 DEF Sent
  <1>4. /\ Reply(m, TRUE) \in Downward /\ Reply(m, FALSE) \in Downward /\ fromCloud \in Seq(Downward)
        /\ m.kind # "config" => m.kind \in {"add", "remove"} /\ m.id \in Ids
        /\ m.kind = "config" => m.hash[1] \in Things /\ m.hash[2] \in Nat
    BY <1>0, <1>1, ReplyType DEF BridgeShape
  <1>5. /\ m.kind = "config" => /\ Reply(m, TRUE).kind = "answer" /\ Reply(m, TRUE).hash = m.hash
                               /\ Reply(m, FALSE).kind = "answer" /\ Reply(m, FALSE).hash = m.hash
                               /\ ~Reply(m, FALSE).ok
        /\ m.kind # "config" => Reply(m, TRUE).kind = "ack" /\ Reply(m, FALSE).kind = "ack"
    BY DEF Reply
  <1> HIDE DEF m
  <1>6. /\ \/ fromCloud' = Append(fromCloud, Reply(m, TRUE))
           \/ fromCloud' = Append(fromCloud, Reply(m, FALSE))
           \/ fromCloud' = fromCloud \o <<Reply(m, TRUE), Reply(m, TRUE)>>
           \/ fromCloud' = fromCloud
        /\ \/ cloudCfg' = cloudCfg
           \/ m.kind = "remove" /\ cloudCfg' = [cloudCfg EXCEPT ![m.id] = 0]
           \/ m.kind = "config" /\ cloudCfg' = [cloudCfg EXCEPT ![m.hash[1]] = m.hash[2]]
        /\ m.kind = "config" => \/ fromCloud' \in {fromCloud, Append(fromCloud, Reply(m, FALSE))}
                                \/ cloudCfg' = [cloudCfg EXCEPT ![m.hash[1]] = m.hash[2]]
    <2>1. CASE Known(m) /\ Carry(m) /\ fromCloud' = Append(fromCloud, Reply(m, TRUE))
      BY <1>0, <1>1, <1>4, <2>1, CarryFacts
    <2>2. CASE m.kind = "add" /\ UNCHANGED cloudCfg /\ fromCloud' = fromCloud \o <<Reply(m,
                                                                                   TRUE), Reply(m, TRUE)>>
      BY <2>2
    <2>3. CASE fromCloud' = Append(fromCloud, Reply(m, FALSE)) /\ UNCHANGED cloudCfg
      BY <2>3
    <2>4. CASE UNCHANGED <<fromCloud, cloudCfg>>
      BY <2>4
    <2> QED BY <2>1, <2>2, <2>3, <2>4 DEF Cloud, m
  <1>7. \A i \in DOMAIN fromCloud' :
           \/ i \in DOMAIN fromCloud /\ fromCloud'[i] = fromCloud[i]
           \/ /\ fromCloud'[i] \in {Reply(m, TRUE), Reply(m, FALSE)}
              /\ \A j \in DOMAIN fromCloud : j < i
    <2>1. ASSUME NEW a \in Downward
          PROVE  /\ \A i \in DOMAIN Append(fromCloud, a) :
                       \/ i \in DOMAIN fromCloud /\ Append(fromCloud, a)[i] = fromCloud[i]
                       \/ Append(fromCloud, a)[i] = a /\ \A j \in DOMAIN fromCloud : j < i
                 /\ \A i \in DOMAIN (fromCloud \o <<a, a>>) :
                       \/ i \in DOMAIN fromCloud /\ (fromCloud \o <<a, a>>)[i] = fromCloud[i]
                       \/ (fromCloud \o <<a, a>>)[i] = a /\ \A j \in DOMAIN fromCloud : j < i
      BY <1>4
    <2>2. \A i \in DOMAIN Append(fromCloud, Reply(m, TRUE)) :
             \/ i \in DOMAIN fromCloud /\ Append(fromCloud, Reply(m, TRUE))[i] = fromCloud[i]
             \/ /\ Append(fromCloud, Reply(m, TRUE))[i] = Reply(m, TRUE)
                /\ \A j \in DOMAIN fromCloud : j < i
      BY <1>4, <2>1
    <2>3. \A i \in DOMAIN Append(fromCloud, Reply(m, FALSE)) :
             \/ i \in DOMAIN fromCloud /\ Append(fromCloud, Reply(m, FALSE))[i] = fromCloud[i]
             \/ /\ Append(fromCloud, Reply(m, FALSE))[i] = Reply(m, FALSE)
                /\ \A j \in DOMAIN fromCloud : j < i
      BY <1>4, <2>1
    <2>4. \A i \in DOMAIN (fromCloud \o <<Reply(m, TRUE), Reply(m, TRUE)>>) :
             \/ i \in DOMAIN fromCloud /\ (fromCloud \o <<Reply(m, TRUE), Reply(m,
                                                          TRUE)>>)[i] = fromCloud[i]
             \/ /\ (fromCloud \o <<Reply(m, TRUE), Reply(m, TRUE)>>)[i] = Reply(m, TRUE)
                /\ \A j \in DOMAIN fromCloud : j < i
      BY <1>4, <2>1
    <2> QED BY <1>6, <2>2, <2>3, <2>4
  <1>8. ASSUME NEW x \in Replies'
        PROVE  \/ x \in Replies
               \/ /\ m.kind = "config" /\ x.hash = m.hash
                  /\ x.ok => cloudCfg' = [cloudCfg EXCEPT ![m.hash[1]] = m.hash[2]]
    <2>1. x.kind = "answer" /\ (x \in Elements(fromCloud') \/ x \in Elements(queue))
      BY <1>1 DEF Replies, Elements
    <2>2. CASE x \in Elements(fromCloud) \/ x \in Elements(queue)
      BY <2>1, <2>2 DEF Replies
    <2>3. CASE x \in Elements(fromCloud') /\ x \notin Elements(fromCloud)
      <3>1. PICK i \in DOMAIN fromCloud' : x = fromCloud'[i]
        BY <2>3 DEF Elements
      <3>2. x \in {Reply(m, TRUE), Reply(m, FALSE)}
        BY <1>7, <2>3, <3>1 DEF Elements
      <3>3. m.kind = "config" /\ x.hash = m.hash
        BY <1>5, <2>1, <3>2
      <3>4. ASSUME x.ok PROVE cloudCfg' = [cloudCfg EXCEPT ![m.hash[1]] = m.hash[2]]
        <4>1. x # Reply(m, FALSE)
          BY <1>5, <3>3, <3>4
        <4>2. Elements(Append(fromCloud, Reply(m, FALSE))) = Elements(fromCloud) \cup {Reply(m, FALSE)}
          <5>1. \A a \in Downward : Elements(Append(fromCloud, a)) = Elements(fromCloud) \cup {a}
            BY <1>4, AppendElements
          <5> QED BY <1>4, <5>1
        <4>3. fromCloud' \notin {fromCloud, Append(fromCloud, Reply(m, FALSE))}
          BY <2>3, <4>1, <4>2
        <4> QED BY <1>6, <3>3, <4>3
      <3> QED BY <3>3, <3>4
    <2> QED BY <2>1, <2>2, <2>3
  <1>9. ASSUME NEW e \in requests, e.kind = "add", IsConfig(m, e.id)
        PROVE  \A a \in Acks : a.req # e.req
    <2>1. PICK j \in DOMAIN toCloud : toCloud[j].kind # "config" /\ toCloud[j].req = e.req
      BY <1>2, <1>9 DEF ForgottenInv, Before
    <2>2. toCloud[j] \in Asked
      BY <2>1 DEF Asked, Elements
    <2>3. \A a \in Acks : a.req < e.req /\ a.req \in Nat
      BY <1>0, <2>1, <2>2, MessageFacts DEF ForgottenInv, KnownInv, Answered
    <2>4. e.req \in Nat
      BY <1>0, MessageFacts
    <2> QED BY <2>3, <2>4
  <1>10. After'
    <2>1. ASSUME NEW e \in requests, e.kind = "add", NEW i \in DOMAIN fromCloud', IsAnswer(fromCloud'[i], e.id)
          PROVE  /\ \A k \in DOMAIN fromCloud' : fromCloud'[k].kind = "ack" /\ fromCloud'[k].req = e.req => i < k
                 /\ \A t \in Elements(queue) : ~(t.kind = "ack" /\ t.req = e.req)
      <3>1. CASE i \in DOMAIN fromCloud /\ fromCloud'[i] = fromCloud[i]
        <4>1. /\ \A k \in DOMAIN fromCloud : fromCloud[k].kind = "ack" /\ fromCloud[k].req = e.req => i < k
              /\ \A t \in Elements(queue) : ~(t.kind = "ack" /\ t.req = e.req)
          BY <2>1, <3>1 DEF ForgottenInv, After
        <4> QED BY <1>7, <3>1, <4>1
      <3>2. CASE fromCloud'[i] \in {Reply(m, TRUE), Reply(m, FALSE)}
        <4>1. m.kind = "config" /\ IsConfig(m, e.id)
          BY <1>5, <2>1, <3>2 DEF IsAnswer, IsConfig
        <4>2. /\ \A k \in DOMAIN fromCloud : ~(fromCloud[k].kind = "ack" /\ fromCloud[k].req = e.req)
              /\ \A t \in Elements(queue) : ~(t.kind = "ack" /\ t.req = e.req)
          BY <1>9, <2>1, <4>1 DEF Acks, Elements
        <4>3. Reply(m, TRUE).kind # "ack" /\ Reply(m, FALSE).kind # "ack"
          BY <1>5, <4>1
        <4>4. \A k \in DOMAIN fromCloud' : ~(fromCloud'[k].kind = "ack" /\ fromCloud'[k].req = e.req)
          BY <1>7, <4>2, <4>3
        <4> QED BY <4>2, <4>4
      <3> QED BY <1>7, <3>1, <3>2
    <2>2. Elements(queue') = Elements(queue)
      BY <1>1 DEF Elements
    <2> QED BY <1>1, <2>1, <2>2 DEF After
  <1>11. Before'
    <2>1. ASSUME NEW e \in requests, e.kind = "add", NEW i \in DOMAIN toCloud', IsConfig(toCloud'[i], e.id)
          PROVE  \E j \in DOMAIN toCloud' : i < j /\ toCloud'[j].kind # "config" /\ toCloud'[j].req = e.req
      <3>1. i + 1 \in DOMAIN toCloud /\ IsConfig(toCloud[i + 1], e.id) /\ i \in Nat
        BY <1>2, <2>1
      <3>2. PICK j \in DOMAIN toCloud : i + 1 < j /\ toCloud[j].kind # "config" /\ toCloud[j].req = e.req
        BY <2>1, <3>1 DEF ForgottenInv, Before
      <3>3. j \in Nat /\ j # 1 /\ i < j - 1
        BY <1>2, <3>1, <3>2
      <3>4. j - 1 \in DOMAIN toCloud' /\ toCloud'[j - 1] = toCloud[j]
        BY <1>2, <3>3
      <3> QED BY <3>2, <3>3, <3>4
    <2> QED BY <1>1, <2>1 DEF Before
  <1>12. Rising'
    <2>1. ASSUME NEW n \in Ready
          PROVE  /\ \A x \in Sent' : x.hash[1] = slots[n].id => x.hash[2] <= slots[n].cfg
                 /\ \A i, j \in DOMAIN toCloud' :
                       IsConfig(toCloud'[i], slots[n].id) /\ IsConfig(toCloud'[j], slots[n].id) /\ i < j
                         => toCloud'[i].hash[2] <= toCloud'[j].hash[2]
      <3>1. \A x \in Sent' : x.hash[1] = slots[n].id => x.hash[2] <= slots[n].cfg
        BY <1>3 DEF ForgottenInv, Rising
      <3>2. ASSUME NEW i \in DOMAIN toCloud', NEW j \in DOMAIN toCloud', i < j,
                   IsConfig(toCloud'[i], slots[n].id), IsConfig(toCloud'[j], slots[n].id)
            PROVE  toCloud'[i].hash[2] <= toCloud'[j].hash[2]
        <4>1. /\ i + 1 \in DOMAIN toCloud /\ j + 1 \in DOMAIN toCloud /\ i + 1 < j + 1
              /\ toCloud'[i] = toCloud[i + 1] /\ toCloud'[j] = toCloud[j + 1]
          BY <1>2, <3>2
        <4> QED BY <3>2, <4>1 DEF ForgottenInv, Rising
      <3> QED BY <3>1, <3>2
    <2>2. Ready' = Ready
      BY <1>1 DEF Ready
    <2> QED BY <1>1, <2>1, <2>2 DEF Rising
  <1>13. Own'
    <2>1. \A x \in Replies' \cup Sent' : x.hash[1] = "self" => x.hash[2] = 1
      BY <1>3, <1>8 DEF ForgottenInv, Own
    <2> QED BY <1>1, <2>1 DEF ForgottenInv, Own
  <1>14. Freeing' /\ Unused'
    BY <1>1 DEF ForgottenInv, Freeing, Unused, InCallback
  <1>15. /\ \A n \in Nodes : slots[n].cfg \in Nat /\ slots[n].id \in Things /\ want[n] \in Nat
         /\ \A x \in Sent : x.hash[2] \in Nat
         /\ cloudCfg \in [Things -> Nat] /\ cloudCfg' \in [Things -> Nat]
    BY <1>0, DigestFacts DEF BridgeShape
  <1>16. ASSUME NEW n \in Nodes, n \in Ready, NEW c \in Nat, Accepted(n, c) PROVE Accepted(n, c)'
    <2>1. c <= cloudCfg'[slots[n].id]
      <3>1. CASE cloudCfg' = cloudCfg
        BY <1>16, <3>1 DEF Accepted
      <3>2. CASE m.kind = "config" /\ cloudCfg' = [cloudCfg EXCEPT ![m.hash[1]] = m.hash[2]]
        BY <1>3, <1>4, <1>15, <1>16, <3>2 DEF Accepted
      <3>3. CASE m.kind = "remove" /\ cloudCfg' = [cloudCfg EXCEPT ![m.id] = 0]
        <4>1. m \in Asked /\ m.id \in Ids
          BY <1>2, <1>4, <3>3 DEF Asked
        <4>2. slots[n].id # m.id
          <5>1. CASE n = Self
            BY <1>0, <4>1, <5>1, IdsAssumption DEF BridgeShape
          <5>2. CASE n \in Slots
            BY <1>16, <3>3, <4>1, <5>2 DEF ForgottenInv, KnownInv, Held, Ready
          <5> QED BY <5>1, <5>2, NodeFacts
        <4> QED BY <1>15, <1>16, <3>3, <4>1, <4>2, NodeFacts DEF Accepted
      <3> QED BY <1>6, <3>1, <3>2, <3>3
    <2> QED BY <1>1, <1>3, <1>16, <2>1 DEF Accepted
  <1>17. ASSUME NEW n \in Nodes, n \in Ready, m.kind = "config", m.hash[1] = slots[n].id,
                cloudCfg' = [cloudCfg EXCEPT ![m.hash[1]] = m.hash[2]]
         PROVE  \A c \in Nat : c = m.hash[2] => Accepted(n, c)'
    <2> SUFFICES ASSUME NEW c \in Nat, c = m.hash[2] PROVE Accepted(n, c)'
      OBVIOUS
    <2>1. c <= slots[n].cfg
      BY <1>3, <1>17 DEF ForgottenInv, Rising
    <2>2. cloudCfg'[slots[n].id] = c
      BY <1>15, <1>17
    <2>3. ASSUME NEW x \in Sent', x.hash[1] = slots[n].id PROVE c <= x.hash[2]
      <3>1. PICK i \in DOMAIN toCloud' : x = toCloud'[i] /\ x.kind = "config"
        BY DEF Sent, Elements
      <3>2. i + 1 \in DOMAIN toCloud /\ x = toCloud[i + 1] /\ 1 < i + 1
        <4>1. i \in Nat /\ i >= 1
          <5>1. Tail(toCloud) \in Seq(Upward)
            BY <1>0, <1>1, QueueFacts DEF BridgeShape
          <5>2. \A k \in DOMAIN Tail(toCloud) : k \in Nat /\ k >= 1
            BY <5>1
          <5> QED BY <1>1, <3>1, <5>2
        <4> QED BY <1>2, <3>1, <4>1
      <3>3. IsConfig(toCloud[1], slots[n].id) /\ IsConfig(toCloud[i + 1], slots[n].id)
        BY <1>2, <1>17, <2>3, <3>1, <3>2 DEF IsConfig
      <3>4. toCloud[1].hash[2] <= toCloud[i + 1].hash[2]
        BY <1>2, <1>17, <3>2, <3>3 DEF ForgottenInv, Rising
      <3> QED BY <1>2, <3>2, <3>4
    <2> QED BY <1>1, <2>1, <2>2, <2>3 DEF Accepted
  <1>18. ASSUME NEW n \in Nodes, n \in Ready PROVE Kept(n)'
    <2>1. Kept(n)
      BY <1>18 DEF ForgottenInv, Live
    <2>2. ASSUME NEW x \in Replies', x.hash[1] = slots[n].id, x.ok
          PROVE  \A c \in Nat : c = x.hash[2] => Accepted(n, c)'
      <3>1. CASE x \in Replies
        BY <1>16, <1>18, <2>1, <2>2, <3>1 DEF Kept, Granted
      <3>2. CASE x \notin Replies
        BY <1>8, <1>17, <1>18, <2>2, <3>2
      <3> QED BY <3>1, <3>2
    <2>3. Granted(n)'
      <3>1. \A x \in Replies' : x.hash[2] \in Nat
        <4>1. \A x \in Replies : x.hash[2] \in Nat
          BY <1>0, DigestFacts
        <4> QED BY <1>4, <1>8, <4>1
      <3> QED BY <1>1, <2>1, <2>2, <3>1 DEF Kept, Granted
    <2>4. ASSUME n \notin holes' PROVE Stored(n)'
      <3>1. Stored(n) /\ nvs[slots[n].id][2] \in Nat /\ (InCallback(n) => cb.hash[2] \in Nat)
        BY <1>0, <1>1, <2>1, <2>4, DigestFacts DEF Kept, InCallback
      <3>2. \A c \in Nat : Accepted(n, c) => Accepted(n, c)'
        BY <1>16, <1>18
      <3> QED BY <1>1, <1>15, <3>1, <3>2 DEF Stored, InCallback
    <2> QED BY <2>3, <2>4 DEF Kept
  <1>19. Live'
    BY <1>1, <1>18 DEF Live, Ready
  <1> QED BY <1>10, <1>11, <1>12, <1>13, <1>14, <1>19, ForgottenKept

(* The invariant holds initially,                                          *)
LEMMA ForgottenInit == Init => ForgottenInv
  <1> SUFFICES ASSUME Init PROVE ForgottenInv
    OBVIOUS
  <1>1. /\ queue = <<[kind |-> "setup"]>> /\ toCloud = <<>> /\ fromCloud = <<>> /\ requests = {} /\ cb = Idle
        /\ app = Idle /\ worker = Idle /\ pend = {Self} /\ holes = {} /\ inbox = [n \in Nodes |-> NoHash]
        /\ nvs = [t \in Things |-> NoHash]
        /\ slots[Self] = [st |-> "ready", id |-> "self", cfg |-> 1] /\ want[Self] = 1
        /\ \A s \in Slots : slots[s] = FreeSlot /\ want[s] = 0
    BY NodeFacts DEF Init
  <1>2. Sent = {} /\ Replies = {}
    <2>1. Elements(queue) = {[kind |-> "setup"]}
      BY <1>1 DEF Elements
    <2> QED BY <1>1, <2>1, EmptyElements DEF Sent, Replies
  <1>3. Freeing /\ Before /\ After /\ Rising
    BY <1>1, <1>2, NoMessage DEF Freeing, Before, After, Rising, Idle
  <1>4. Unused
    BY <1>1 DEF Unused, FreeSlot
  <1>5. Own
    BY <1>1, <1>2, NodeFacts DEF Own
  <1>6. Kept(Self)
    <2>1. ~InCallback(Self) /\ nvs[slots[Self].id] = NoHash
      BY <1>1, NodeFacts DEF InCallback
    <2> QED BY <1>1, <1>2, <2>1 DEF Kept, Granted, Stored
  <1>7. \A n \in Ready : n = Self
    <2>1. \A s \in Slots : slots[s].st # "ready"
      BY <1>1 DEF FreeSlot
    <2> QED BY <2>1, NodeFacts DEF Ready
  <1>8. Live
    BY <1>6, <1>7 DEF Live
  <1> QED BY <1>3, <1>4, <1>5, <1>8, KnownInit, StrandedInit DEF ForgottenInv, StrandedInv

(* every step keeps it,                                                    *)
LEMMA ForgottenNext == StrandedInv /\ ForgottenInv /\ [Next]_vars => ForgottenInv'
  <1> SUFFICES ASSUME StrandedInv, ForgottenInv, [Next]_vars PROVE ForgottenInv'
    OBVIOUS
  <1>0. KnownInv' /\ OwnQueue'
    BY StrandedNext DEF StrandedInv
  <1>1. CASE AppCall
    BY <1>0, <1>1, AppCallForgotten, CommitForgotten DEF AppCall
  <1>2. CASE AppStep
    BY <1>0, <1>2, RequestForgotten, FreeChildForgotten, QuietSteps DEF AppStep
  <1>3. CASE Worker
    BY <1>0, <1>3, QuietSteps, ReportUnchangedForgotten, ReportSentForgotten, BridgeAckForgotten,
       SelfAnswerForgotten DEF Worker
  <1>4. CASE RetryFires \/ Loop \/ Drop \/ Connect \/ UNCHANGED vars
    BY <1>0, <1>4, QuietSteps
  <1>5. CASE Client
    BY <1>0, <1>5, ChildAnswerForgotten, ToWorkerForgotten, CompareForgotten,
       PersistForgotten DEF Client
  <1>6. CASE Cloud
    BY <1>0, <1>6, CloudForgotten
  <1> QED BY <1>1, <1>2, <1>3, <1>4, <1>5, <1>6 DEF Next

(* and no configuration is forgotten.                                      *)
LEMMA ForgottenImplies == ForgottenInv => ConfigNotForgotten
  <1> SUFFICES ASSUME ForgottenInv, NEW n \in Ready \ holes, want[n] # 0, n \notin pend
               PROVE  cloudCfg[slots[n].id] >= want[n]
    BY DEF ConfigNotForgotten
  <1>1. Accepted(n, want[n])
    BY DEF ForgottenInv, Live, Kept, Stored
  <1>2. n \in Nodes /\ want[n] \in Nat /\ cloudCfg[slots[n].id] \in Nat
    BY DigestFacts DEF ForgottenInv, KnownInv, Ready
  <1> QED BY <1>1, <1>2 DEF Accepted

(* For any children, calls and faults, a configuration that was committed  *)
(* and is off the list has been accepted by the cloud (node_config.c       *)
(* __report_node_config_cb, bridge_child_nvs.c), or a later one has: no    *)
(* answer to an older configuration and no slot used again takes it off    *)
(* early.  Excepted (holes) are a node whose devices were changed and      *)
(* changed back, so that the checksum of an earlier configuration is taken *)
(* for the current one's, and one whose mark the code drops for another    *)
(* publish's sake.                                                         *)
THEOREM ForgottenSafety == Spec => []ConfigNotForgotten
  <1>1. Init => StrandedInv /\ ForgottenInv
    BY StrandedInit, ForgottenInit
  <1>2. StrandedInv /\ ForgottenInv /\ [Next]_vars => (StrandedInv /\ ForgottenInv)'
    BY StrandedNext, ForgottenNext
  <1> QED BY <1>1, <1>2, ForgottenImplies, PTL DEF Spec

=============================================================================
