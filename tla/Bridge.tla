------------------------------- MODULE Bridge -------------------------------
(***************************************************************************)
(* The children of a bridge and the drain of node configurations:          *)
(* bridge/esp_rmaker_bridge.c (the pool of children), bridge_events.c (the *)
(* table of requests and the bridgeAcks), bridge_child_nvs.c, node/        *)
(* node_config.c and node_config_pending.c, with the retry context of the  *)
(* node configuration (esp_rmaker_core.c, retry_manager.c) and the inbox   *)
(* of the cloud manager.                                                   *)
(*                                                                         *)
(* Five threads meet here: the application, the worker (drains, bridgeAcks *)
(* and answers for the node itself), the MQTT client (answers for a child  *)
(* are handled in its own thread, bridge_subscriber.c), the event loop     *)
(* (PUBACKs and connection events) and the timer of the retry context.     *)
(* Two mutexes: B guards the children, P the pending list.  A critical     *)
(* section that takes one of them and nothing else is one step; the two    *)
(* that take one inside the other are steps of their own.                  *)
(*                                                                         *)
(* A configuration is a revision of a child's devices, one more with every *)
(* device that is attached or taken off; Content is what its document says *)
(* of them, the same again when a device was there and is gone.  A         *)
(* checksum (pairs of child and revision here) is of the document, which   *)
(* names its node: the code compares contents, not revisions.  Revision 0  *)
(* stands for a node without its information, of which no document can be  *)
(* made.  A child's suffix and local id are one.  Left out: what the other *)
(* services do with a child (triggers, schedules, reports), the cloud      *)
(* information fetched at commit, and deinit.                              *)
(***************************************************************************)
EXTENDS Integers, Sequences, FiniteSets, FiniteSetsExt

CONSTANTS
    Ids,        \* local ids the application gives to children
    NumSlots,   \* CONFIG_ESP_RMAKER_NEO_BRIDGE_MAX_CHILDREN
    PendMax,    \* __PEND_MAX, the size of the table of requests
    MaxCfg,     \* bound: configurations of one child
    Content,    \* what the documents of the configurations say
    MaxQueue,   \* bound: tasks in the work queue
    MaxCalls,   \* bound: calls of add_child, remove_child and commit_devices
    MaxFaults   \* bound: faults of the environment, lost connections with them

ASSUME IdsAssumption == Ids \subseteq STRING /\ "self" \notin Ids
ASSUME BoundsAssumption ==
    /\ NumSlots \in Nat /\ PendMax \in Nat /\ MaxCfg \in Nat /\ MaxQueue \in Nat
    /\ MaxCalls \in Nat
    /\ MaxFaults \in Nat
ASSUME ContentAssumption == Content \in [1 .. MaxCfg -> Nat]

VARIABLES
    slots,      \* the node itself (0) and the pool: state, id, configuration
    pend, inflight,  \* the nodes whose pending_cfg flag is set
    nvs,        \* the checksum stored for each id
    inbox,      \* the checksum in the callback context of each node
    requests,   \* __pending: requests without a bridgeAck
    nreq,       \* requests made so far
    lockB, lockP,    \* the thread that holds the mutex across a step, or "none"
    app, worker, loop,  \* where the threads are
    cb,         \* __report_node_config_cb for a child, in the client's thread
    queue,      \* tasks in the work queue
    armed,      \* the timer of the node-config retry context
    listening,  \* SUBSCRIBED_TO_CLOUD
    up,         \* the client is connected
    toCloud, fromCloud,  \* messages on their way, oldest first
    events,     \* the event loop's queue
    cloudHas,   \* the children the cloud knows
    cloudCfg,   \* the configuration the cloud holds of each
    want,       \* history: the configuration last committed, of each node
    holes,      \* history: nodes whose mark was dropped for another's sake
    stuck,      \* history: nodes nobody will report as things stand
    deaf,       \* history: a reconnection without its setup
    commits,    \* calls of commit_devices so far
    faults      \* faults so far

poolVars  == <<slots, requests, nreq>>
listVars  == <<pend, inflight, nvs, inbox>>
netVars   == <<up, toCloud, fromCloud, cloudHas, cloudCfg>>
histVars  == <<want, holes, stuck, deaf>>
vars == <<poolVars, listVars, lockB, lockP, app, worker, loop, cb, queue, armed,
          listening, netVars, events, histVars, commits, faults>>

Self   == 0
Slots  == 1 .. NumSlots
Nodes  == 0 .. NumSlots
Things == Ids \union {"self"}
NoHash == <<"self", 0>>
Hashes == Things \X (0 .. MaxCfg)
Idle   == [pc |-> "idle"]
FreeSlot == [st |-> "free", id |-> "self", cfg |-> 0]

RequestRecs == [req : 1 .. MaxCalls, kind : {"add", "remove"}, id : Ids]
SlotOf(id)  == {s \in Slots : slots[s].st # "free" /\ slots[s].id = id}
FreeSlots   == {s \in Slots : slots[s].st = "free"}
Ready       == {n \in Nodes : slots[n].st = "ready"}
Hash(n)     == <<slots[n].id, slots[n].cfg>>
\* memcmp of two checksums
SameSum(g, h) == \/ g = h
                 \/ /\ g[1] = h[1] /\ {g[2], h[2]} \subseteq DOMAIN Content
                    /\ Content[g[2]] = Content[h[2]]
\* It is the same, but of another configuration.
Mistaken(g, h) == SameSum(g, h) /\ g # h
InCallback(n) == cb # Idle /\ cb.node = n
BFree       == lockB = "none"
PFree       == lockP = "none"

Init ==
    /\ slots = [n \in Nodes |-> IF n = Self
                                THEN [st |-> "ready", id |-> "self", cfg |-> 1]
                                ELSE FreeSlot]
    /\ pend = {Self} /\ inflight = {}
    /\ nvs = [t \in Things |-> NoHash]
    /\ inbox = [n \in Nodes |-> NoHash]
    /\ requests = {} /\ nreq = 0
    /\ lockB = "none" /\ lockP = "none"
    /\ app = Idle /\ worker = Idle /\ loop = "idle" /\ cb = Idle
    /\ queue = <<[kind |-> "setup"]>>
    /\ armed = FALSE /\ listening = FALSE /\ up = TRUE
    /\ toCloud = <<>> /\ fromCloud = <<>> /\ events = <<>>
    /\ cloudHas = {} /\ cloudCfg = [t \in Things |-> 0]
    /\ want = [n \in Nodes |-> IF n = Self THEN 1 ELSE 0]
    /\ holes = {} /\ stuck = {} /\ deaf = FALSE
    /\ commits = 0 /\ faults = 0

-----------------------------------------------------------------------------
(* Common parts.                                                           *)

CanFail == faults < MaxFaults
Fault   == CanFail /\ faults' = faults + 1

\* esp_rmaker_mqtt_impl.publish: it is refused without a connection, and
\* may be refused with one.
Published(m) == up /\ toCloud' = Append(toCloud, m)
                   /\ UNCHANGED <<up, fromCloud, cloudHas, cloudCfg, faults>>
Refused == /\ \/ ~up /\ UNCHANGED faults
              \/ up /\ Fault
           /\ UNCHANGED netVars

\* retry_manager_execute_context: cancel the timer and queue the drain; when
\* the queue is full, arm the timer.
Kick == IF Len(queue) < MaxQueue
        THEN queue' = Append(queue, [kind |-> "drain"]) /\ armed' = FALSE
        ELSE armed' = TRUE /\ UNCHANGED queue

\* __pend_register_add and __pend_register_remove: sweep the entries that are
\* too old, however many these are, then take a free entry of the table.
Swept(k) == {e \in requests : e.req > k}
Sweeps   == {k \in 0 .. nreq : /\ k > 0 => Swept(k) # Swept(k - 1)
                               /\ Cardinality(Swept(k)) < PendMax}
Register(kind, id) ==
    \E k \in Sweeps :
        /\ requests' = Swept(k) \union {[req |-> nreq + 1, kind |-> kind, id |-> id]}
        /\ nreq' = nreq + 1

\* node_config_pending_remove and node_config_pending_clear_inflight
PendingRemove(n) == pend' = pend \ {n} /\ inflight' = inflight \ {n}
ClearInflight(n) == inflight' = inflight \ {n} /\ UNCHANGED pend

\* __free_child_locked up to the pending list: the slot is given up under B,
\* which stays held.  A node that is freed has no history.
TakeBAndFree(t, s) ==
    /\ BFree /\ lockB' = t
    /\ slots' = [slots EXCEPT ![s] = FreeSlot]
    /\ want' = [want EXCEPT ![s] = 0]
    /\ holes' = holes \ {s} /\ stuck' = stuck \ {s}

\* _esp_rmaker_node_reset: the pending list is changed under P; B is released.
ResetNode(t, s) ==
    /\ lockB = t /\ PFree /\ lockB' = "none"
    /\ PendingRemove(s)

-----------------------------------------------------------------------------
(* The application.                                                        *)

CanCall == nreq + commits < MaxCalls
otherThreads == <<worker, loop, cb>>

\* esp_rmaker_bridge_add_child: an id that is known, or a full pool, returns at
\* once; else the first free slot is taken and its node made anew.
AddChild(id) ==
    /\ app = Idle /\ BFree /\ CanCall
    /\ SlotOf(id) = {}
    /\ FreeSlots # {}
    /\ LET s == Min(FreeSlots) IN
        /\ slots' = [slots EXCEPT ![s] = [st |-> "add", id |-> id, cfg |-> 0]]
        /\ pend' = pend \ {s} /\ inflight' = inflight \ {s}
        /\ holes' = IF nvs[id] # NoHash \/ InCallback(s) THEN holes \union {s} ELSE holes
        /\ app' = [pc |-> "request", kind |-> "add", slot |-> s]
    /\ UNCHANGED <<requests, nreq, nvs, inbox, lockB, lockP, otherThreads, queue, armed,
                   listening, netVars, events, want, stuck, deaf, commits, faults>>

\* esp_rmaker_bridge_remove_child: only a READY child can be removed.
RemoveChild(s) ==
    /\ app = Idle /\ BFree /\ CanCall
    /\ slots[s].st = "ready"
    /\ slots' = [slots EXCEPT ![s].st = "remove"]
    /\ app' = [pc |-> "request", kind |-> "remove", slot |-> s]
    /\ UNCHANGED <<requests, nreq, listVars, lockB, lockP, otherThreads, queue, armed,
                   listening, netVars, events, histVars, commits, faults>>

\* bridge_to_cloud_publish_add_child and bridge_to_cloud_publish_remove_child: the
\* request is registered, then published.  After that a removed child is freed,
\* before the cloud answers.
RequestSent ==
    /\ app.pc = "request" /\ BFree
    /\ LET id == slots[app.slot].id IN
        /\ Register(app.kind, id)
        /\ Published([kind |-> app.kind, req |-> nreq + 1, id |-> id])
    /\ app' = IF app.kind = "add" THEN Idle ELSE [pc |-> "free", slot |-> app.slot]
    /\ UNCHANGED <<slots, listVars, lockB, lockP, otherThreads, queue, armed, listening, events,
                   histVars, commits>>

\* The table is full, or the publish is refused and the entry dropped again
\* (__pend_drop_by_request_id).  A child that was being added is freed, one that
\* was being removed stays PENDING_REMOVE.
RequestFailed ==
    /\ app.pc = "request" /\ BFree
    /\ \/ /\ Cardinality(requests) >= PendMax
          /\ UNCHANGED <<requests, nreq, netVars, faults>>
       \/ /\ Refused
          /\ \E k \in Sweeps : requests' = Swept(k)
          /\ nreq' = nreq + 1
    /\ app' = IF app.kind = "add" THEN [pc |-> "free", slot |-> app.slot] ELSE Idle
    /\ UNCHANGED <<slots, listVars, lockB, lockP, otherThreads, queue, armed, listening, events,
                   histVars, commits>>

\* The slot is given back: after a failed request, or by
\* bridge_handle_ack_success_remove_by_local_id once the removal is published,
\* before the cloud answers.
FreeChild ==
    /\ app.pc = "free"
    /\ TakeBAndFree("app", app.slot)
    /\ app' = [app EXCEPT !.pc = "reset"]
    /\ UNCHANGED <<requests, nreq, listVars, lockP, otherThreads, queue, armed, listening,
                   netVars, events, deaf, commits, faults>>

\* The second node_config_pending_remove of a removal, after B is released,
\* finds the same thing done.
FreeReset ==
    /\ app.pc = "reset"
    /\ ResetNode("app", app.slot)
    /\ app' = Idle
    /\ UNCHANGED <<poolVars, nvs, inbox, lockP, otherThreads, queue, armed, listening,
                   netVars, events, histVars, commits, faults>>

\* The application fills the node of a READY child, or attaches a device
\* (esp_rmaker_node_add_device) or takes one off (esp_rmaker_node_remove_device).
ChangeNode(s) ==
    /\ app = Idle
    /\ slots[s].st = "ready" /\ slots[s].cfg < MaxCfg
    /\ slots' = [slots EXCEPT ![s].cfg = @ + 1]
    /\ UNCHANGED <<requests, nreq, listVars, lockB, lockP, app, otherThreads, queue, armed,
                   listening, netVars, events, histVars, commits, faults>>

\* esp_rmaker_bridge_child_commit_devices: put the node on the list (a node
\* that is in flight will be sent again) and kick the retry context.
CommitDevices(s) ==
    /\ app = Idle /\ CanCall
    /\ BFree /\ PFree
    /\ slots[s].st = "ready" /\ slots[s].cfg > 0
    /\ pend' = pend \union {s} /\ inflight' = inflight \ {s}
    /\ Kick
    /\ want' = [want EXCEPT ![s] = slots[s].cfg]
    /\ holes' = IF cb.pc = "persist" /\ cb.node = s
                THEN holes \union {s} ELSE holes
    /\ stuck' = stuck \intersect inflight'
    /\ commits' = commits + 1
    /\ UNCHANGED <<poolVars, nvs, inbox, lockB, lockP, app, otherThreads, listening, netVars,
                   events, deaf, faults>>

-----------------------------------------------------------------------------
(* The drain: node_config_pending_fire_all in the worker.                  *)

TakeTask(kind) == worker = Idle /\ queue # <<>>
                    /\ Head(queue).kind = kind

\* The pending mutex is taken first ...
DrainBegin ==
    /\ TakeTask("drain") /\ PFree
    /\ lockP' = "worker"
    /\ queue' = Tail(queue)
    /\ worker' = [pc |-> "collect"]
    /\ UNCHANGED <<poolVars, listVars, lockB, app, loop, cb, armed, listening, netVars,
                   events, histVars, commits, faults>>

\* ... and that of the children inside it, to visit the node and its READY
\* children.
DrainCollect ==
    /\ worker.pc = "collect" /\ BFree
    /\ LET batch == (pend \ inflight) \intersect Ready IN
        /\ inflight' = inflight \union batch
        /\ worker' = [pc |-> "report", batch |-> batch, failed |-> FALSE]
    /\ lockP' = "none"
    /\ UNCHANGED <<poolVars, pend, nvs, inbox, lockB, app, loop, cb, queue, armed, listening,
                   netVars, events, histVars, commits, faults>>

\* esp_rmaker_internal_report_node_config_for_node on the next node of the
\* batch: n is done, and the drain has failed if it has failed.
Reported(n, failed) ==
    worker' = [worker EXCEPT !.batch = @ \ {n}, !.failed = @ \/ failed]
Next1 == Min(worker.batch)

Reportable(n) == slots[n].st # "free" /\ slots[n].cfg > 0

\* The checksum is the stored one: the node leaves the list, also when that
\* was stored of an earlier configuration and others were sent since.
Unchanged(n) == SameSum(nvs[slots[n].id], Hash(n))
ReportUnchanged ==
    /\ worker.pc = "report" /\ worker.batch # {} /\ PFree
    /\ Reportable(Next1) /\ Unchanged(Next1)
    /\ PendingRemove(Next1)
    /\ Reported(Next1, FALSE)
    /\ holes' = IF Mistaken(nvs[slots[Next1].id], Hash(Next1)) THEN holes \union {Next1} ELSE holes
    /\ UNCHANGED <<poolVars, nvs, inbox, lockB, lockP, app, loop, cb, queue, armed,
                   listening, netVars, events, want, stuck, deaf, commits, faults>>

\* It is published, and the callback put in the inbox, where it takes the
\* place of an older one.
ReportSent ==
    /\ worker.pc = "report" /\ worker.batch # {}
    /\ Reportable(Next1) /\ ~Unchanged(Next1)
    /\ listening
    /\ Published([kind |-> "config", hash |-> Hash(Next1)])
    /\ inbox' = [inbox EXCEPT ![Next1] = Hash(Next1)]
    /\ Reported(Next1, FALSE)
    /\ UNCHANGED <<poolVars, pend, inflight, nvs, lockB, lockP, app, loop, cb, queue, armed,
                   listening, events, histVars, commits>>

\* No document, nobody listening, or a publish that is refused: the callback
\* leaves the inbox and the node is free to be sent again.
ReportFailed ==
    /\ worker.pc = "report" /\ worker.batch # {} /\ PFree
    /\ \/ ~Reportable(Next1) /\ UNCHANGED <<inbox, netVars, faults>>
       \/ /\ Reportable(Next1) /\ ~Unchanged(Next1)
          /\ \/ ~listening /\ UNCHANGED <<inbox, netVars, faults>>
             \/ /\ listening /\ Refused
                /\ inbox' = [inbox EXCEPT ![Next1] = NoHash]
    /\ ClearInflight(Next1)
    /\ Reported(Next1, TRUE)
    /\ UNCHANGED <<poolVars, nvs, lockB, lockP, app, loop, cb, queue, armed, listening,
                   events, histVars, commits>>

\* Mutant of DrainEnd: the failure of a node is not passed on.
DrainEndNoRetry ==
    /\ worker.pc = "report" /\ worker.batch = {}
    /\ UNCHANGED armed
    /\ worker' = Idle
    /\ UNCHANGED <<poolVars, listVars, lockB, lockP, app, loop, cb, queue, listening,
                   netVars, events, histVars, commits, faults>>

\* __retry_manager_work_queue_task: a drain that failed is tried again later.
DrainEnd ==
    /\ worker.pc = "report" /\ worker.batch = {}
    /\ armed' = (armed \/ worker.failed)
    /\ worker' = Idle
    /\ UNCHANGED <<poolVars, listVars, lockB, lockP, app, loop, cb, queue, listening,
                   netVars, events, histVars, commits, faults>>

\* __retry_manager_scheduler_task, in the timer's thread
RetryFires ==
    /\ armed
    /\ Len(queue) < MaxQueue
    /\ queue' = Append(queue, [kind |-> "drain"])
    /\ armed' = FALSE
    /\ UNCHANGED <<poolVars, listVars, lockB, lockP, app, otherThreads, listening, netVars,
                   events, histVars, commits, faults>>

\* The end of esp_rmaker_cloud_setup_work_fn: the node listens again, and the
\* drain is kicked.  (CloudSync has the inside of the setup.)  Without a
\* connection the setup fails; the next connection brings another.
SetupDone ==
    /\ TakeTask("setup")
    /\ IF up
       THEN /\ listening' = TRUE /\ armed' = FALSE
            /\ queue' = Append(Tail(queue), [kind |-> "drain"])
            /\ stuck' = stuck \intersect inflight /\ deaf' = FALSE
       ELSE /\ queue' = Tail(queue)
            /\ UNCHANGED <<listening, armed, stuck, deaf>>
    /\ UNCHANGED <<poolVars, listVars, lockB, lockP, app, otherThreads, netVars, events,
                   want, holes, commits, faults>>

-----------------------------------------------------------------------------
(* What comes from the cloud.                                              *)

\* Mutant of AckTaken: the ack is matched with the child, not with the request.
AckTakenById(m) == {e \in requests : e.id = m.id}

\* bridge_internal_dispatch_from_cloud_event with bridge_handle_ack_success_add:
\* the bridgeAck takes its request out of the table, and an add that succeeded
\* makes the child READY.  An ack without a request is ignored; one for a
\* removal only tells the application.
AckTaken(m) == {e \in requests : e.req = m.req}

BridgeAck ==
    /\ TakeTask("ack")
    /\ LET m == Head(queue)
           entry == AckTaken(m)
           adds == {s \in SlotOf(m.id) : slots[s].st = "add" /\ \E e \in entry : e.kind = "add"}
       IN
        /\ requests' = requests \ entry
        /\ \/ /\ m.ok /\ adds # {} /\ BFree
              /\ slots' = [n \in Nodes |-> IF n \in adds THEN [slots[n] EXCEPT !.st = "ready"]
                                           ELSE slots[n]]
              /\ UNCHANGED <<lockB, worker, want, holes, stuck>>
           \/ /\ ~m.ok /\ adds # {}
              /\ TakeBAndFree("worker", Min(adds))
              /\ worker' = [pc |-> "reset", slot |-> Min(adds)]
           \/ /\ adds = {}
              /\ UNCHANGED <<slots, lockB, worker, want, holes, stuck>>
    /\ queue' = Tail(queue)
    /\ UNCHANGED <<nreq, listVars, lockP, app, loop, cb, armed, listening, netVars, events,
                   deaf, commits, faults>>

\* bridge_handle_ack_failure_add: the child that was refused is freed.
WorkerReset ==
    /\ worker.pc = "reset"
    /\ ResetNode("worker", worker.slot)
    /\ worker' = Idle
    /\ UNCHANGED <<poolVars, nvs, inbox, lockP, app, loop, cb, queue, armed, listening,
                   netVars, events, histVars, commits, faults>>

\* __persist_and_mark_ncfg_ver: a checksum that cannot be stored is only logged.
Stores(id, hash) ==
    \/ nvs' = [nvs EXCEPT ![id] = hash] /\ UNCHANGED faults
    \/ Fault /\ UNCHANGED nvs

\* __set_event_response_payload_handler: the callback of the node is taken
\* from the inbox, whichever publish it was registered for.  The callback of
\* a rejected configuration lets the node be sent again, but kicks nobody.
NotAccepted(n, m) ==
    \/ /\ inbox[n] = NoHash
       /\ UNCHANGED <<pend, inflight>>
    \/ /\ inbox[n] # NoHash /\ ~m.ok /\ PFree
       /\ ClearInflight(n)

\* The node's own answer, in the worker.  Nobody changes or commits its
\* configuration, so the callback is one step.
SelfAnswer ==
    /\ TakeTask("answer")
    /\ LET m == Head(queue) IN
        \/ /\ NotAccepted(Self, m)
           /\ stuck' = stuck \union {Self}
           /\ UNCHANGED <<nvs, faults>>
        \/ /\ inbox[Self] # NoHash /\ m.ok /\ PFree
           /\ Stores("self", inbox[Self])
           /\ PendingRemove(Self)
           /\ UNCHANGED stuck
    /\ inbox' = [inbox EXCEPT ![Self] = NoHash]
    /\ queue' = Tail(queue)
    /\ UNCHANGED <<poolVars, lockB, lockP, app, worker, loop, cb, armed, listening, netVars,
                   events, want, holes, deaf, commits>>

\* bridge_subscriber.c, __cb_from_cloud: an answer for a child is handled at
\* once, if the child is READY.
ChildAnswer ==
    /\ cb = Idle /\ fromCloud # <<>> /\ BFree
    /\ LET m == Head(fromCloud) IN
        /\ m.kind = "answer" /\ m.hash[1] # "self"
        /\ \/ /\ SlotOf(m.hash[1]) \intersect Ready = {}
              /\ stuck' = stuck \union SlotOf(m.hash[1])
              /\ UNCHANGED <<inbox, cb, pend, inflight, holes>>
           \/ \E s \in SlotOf(m.hash[1]) \intersect Ready :
              /\ inbox' = [inbox EXCEPT ![s] = NoHash]
              /\ \/ /\ NotAccepted(s, m)
                    /\ stuck' = stuck \union {s}
                    /\ UNCHANGED <<cb, holes>>
                 \/ /\ inbox[s] # NoHash /\ m.ok
                    /\ cb' = [pc |-> "compare", node |-> s, hash |-> inbox[s]]
                    /\ holes' = IF inbox[s] = m.hash THEN holes ELSE holes \union {s}
                    /\ UNCHANGED <<pend, inflight, stuck>>
    /\ fromCloud' = Tail(fromCloud)
    /\ UNCHANGED <<poolVars, nvs, lockB, lockP, app, worker, loop, queue, armed, listening,
                   up, toCloud, cloudHas, cloudCfg, events, want, deaf, commits, faults>>

\* Any other message is handed to the worker, or lost when its queue is full.
ToWorker ==
    /\ cb = Idle /\ fromCloud # <<>>
    /\ LET m == Head(fromCloud) IN
        /\ m.kind = "answer" => m.hash[1] = "self"
        /\ \/ /\ Len(queue) < MaxQueue
              /\ queue' = Append(queue, m)
              /\ UNCHANGED stuck
           \/ /\ Len(queue) >= MaxQueue
              /\ stuck' = stuck \union {Self}
              /\ UNCHANGED queue
    /\ fromCloud' = Tail(fromCloud)
    /\ UNCHANGED <<poolVars, listVars, lockB, lockP, app, otherThreads, armed, listening,
                   up, toCloud, cloudHas, cloudCfg, events, want, holes, deaf,
                   commits, faults>>

\* Mutant of Stale: an answer is taken for the configuration of now.
StaleNever(n, hash) == FALSE

\* __report_node_config_cb: is the configuration still the one that was sent,
\* or one that says the same?  A node of which no document can be made now
\* passes.
Stale(n, hash) == Reportable(n) /\ ~SameSum(Hash(n), hash)

CbCompare ==
    /\ cb.pc = "compare"
    /\ LET n == cb.node IN
        \/ /\ Stale(n, cb.hash) /\ PFree
           /\ ClearInflight(n)
           /\ stuck' = stuck \union {n}
           /\ cb' = Idle
           /\ UNCHANGED holes
        \/ /\ ~Stale(n, cb.hash)
           /\ cb' = [cb EXCEPT !.pc = "persist"]
           /\ holes' = IF Mistaken(cb.hash, Hash(n)) THEN holes \union {n} ELSE holes
           /\ UNCHANGED <<pend, inflight, stuck>>
    /\ UNCHANGED <<poolVars, nvs, inbox, lockB, lockP, app, worker, loop, queue, armed,
                   listening, netVars, events, want, deaf, commits, faults>>

\* The checksum is stored under whoever has the slot now, and the node leaves
\* the list, even when it was committed again after the comparison.
CbPersist ==
    /\ cb.pc = "persist" /\ PFree
    /\ LET n == cb.node IN
        /\ IF slots[n].st = "free" THEN UNCHANGED <<nvs, faults>>
           ELSE Stores(slots[n].id, cb.hash)
        /\ PendingRemove(n)
    /\ cb' = Idle
    /\ UNCHANGED <<poolVars, inbox, lockB, lockP, app, worker, loop, queue, armed, listening,
                   netVars, events, histVars, commits>>

-----------------------------------------------------------------------------
(* The event loop.                                                         *)

\* A PUBACK of a configuration, whichever node's: success stops the retries,
\* failure arms them (__esp_rmaker_mqtt_cloud_on_complete_event_handler).
Puback ==
    /\ loop = "idle" /\ events # <<>>
    /\ Head(events) \in {"ok", "fail"}
    /\ armed' = (Head(events) = "fail")
    /\ stuck' = IF armed /\ Head(events) = "ok" THEN stuck \union pend ELSE stuck
    /\ events' = Tail(events)
    /\ UNCHANGED <<poolVars, listVars, lockB, lockP, app, otherThreads, queue, listening,
                   netVars, want, holes, deaf, commits, faults>>

\* __esp_rmaker_mqtt_connection_handler.  A lost connection ends the listening
\* and makes every node free to be sent again: P is taken, and B inside it.
Disconnected ==
    /\ loop = "idle" /\ events # <<>> /\ Head(events) = "down" /\ PFree
    /\ listening' = FALSE
    /\ lockP' = "loop"
    /\ loop' = "clear"
    /\ events' = Tail(events)
    /\ UNCHANGED <<poolVars, listVars, lockB, app, worker, cb, queue, armed, netVars,
                   histVars, commits, faults>>

ClearAllInflight ==
    /\ loop = "clear" /\ BFree
    /\ inflight' = inflight \ Ready
    /\ lockP' = "none"
    /\ loop' = "idle"
    /\ UNCHANGED <<poolVars, pend, nvs, inbox, lockB, app, worker, cb, queue, armed,
                   listening, netVars, events, histVars, commits, faults>>

\* A new connection queues the setup; a task that is refused is not missed.
Reconnected ==
    /\ loop = "idle" /\ events # <<>> /\ Head(events) = "up"
    /\ \/ /\ Len(queue) < MaxQueue
          /\ queue' = Append(queue, [kind |-> "setup"])
          /\ UNCHANGED deaf
       \/ /\ Len(queue) >= MaxQueue
          /\ deaf' = TRUE
          /\ UNCHANGED queue
    /\ events' = Tail(events)
    /\ UNCHANGED <<poolVars, listVars, lockB, lockP, app, otherThreads, armed, listening,
                   netVars, want, holes, stuck, commits, faults>>

-----------------------------------------------------------------------------
(* The connection and the cloud (external).                                *)

\* The publishes on their way fail, what the cloud sent is lost.
Drop ==
    /\ up /\ Fault
    /\ up' = FALSE
    /\ toCloud' = <<>> /\ fromCloud' = <<>>
    /\ events' = events \o [i \in 1 .. Cardinality({j \in DOMAIN toCloud :
                                                toCloud[j].kind = "config"}) |-> "fail"]
                        \o <<"down">>
    /\ UNCHANGED <<poolVars, listVars, lockB, lockP, app, otherThreads, queue, armed,
                   listening, cloudHas, cloudCfg, histVars, commits>>

Connect ==
    /\ ~up
    /\ up' = TRUE
    /\ events' = Append(events, "up")
    /\ UNCHANGED <<poolVars, listVars, lockB, lockP, app, otherThreads, queue, armed,
                   listening, toCloud, fromCloud, cloudHas, cloudCfg, histVars,
                   commits, faults>>

\* The cloud carries out a request.
Carry(m) ==
    CASE m.kind = "add"    -> cloudHas' = cloudHas \union {m.id} /\ UNCHANGED cloudCfg
      [] m.kind = "remove" -> cloudHas' = cloudHas \ {m.id}
                                /\ cloudCfg' = [cloudCfg EXCEPT ![m.id] = 0]
      [] m.kind = "config" -> cloudCfg' = [cloudCfg EXCEPT ![m.hash[1]] = m.hash[2]]
                                /\ UNCHANGED cloudHas
Reply(m, ok) ==
    IF m.kind = "config" THEN [kind |-> "answer", hash |-> m.hash, ok |-> ok]
    ELSE [kind |-> "ack", req |-> m.req, id |-> m.id, ok |-> ok]
Known(m) == m.kind = "config" => m.hash[1] \in cloudHas \union {"self"}

\* It carries out a request and answers, once or twice; or rejects it; or
\* never answers.
Cloud ==
    /\ toCloud # <<>>
    /\ LET m == Head(toCloud) IN
        /\ toCloud' = Tail(toCloud)
        /\ events' = IF m.kind = "config" THEN Append(events, "ok") ELSE events
        /\ \/ /\ Known(m) /\ Carry(m)
              /\ fromCloud' = Append(fromCloud, Reply(m, TRUE))
              /\ UNCHANGED <<faults, stuck>>
           \/ /\ m.kind = "add" /\ Fault
              /\ cloudHas' = cloudHas \union {m.id} /\ UNCHANGED cloudCfg
              /\ fromCloud' = fromCloud \o <<Reply(m, TRUE), Reply(m, TRUE)>>
              /\ UNCHANGED stuck
           \/ /\ IF Known(m) THEN Fault ELSE UNCHANGED faults
              /\ fromCloud' = Append(fromCloud, Reply(m, FALSE))
              /\ UNCHANGED <<cloudHas, cloudCfg, stuck>>
           \/ /\ Fault
              /\ stuck' = stuck \union {n \in Nodes : /\ slots[n].st # "free"
                                                /\ m.kind = "config" /\ slots[n].id = m.hash[1]}
              /\ UNCHANGED <<fromCloud, cloudHas, cloudCfg>>
    /\ UNCHANGED <<poolVars, listVars, lockB, lockP, app, otherThreads, queue, armed,
                   listening, up, want, holes, deaf, commits>>

-----------------------------------------------------------------------------

AppCall ==
    \/ \E id \in Ids : AddChild(id)
    \/ \E s \in Slots : RemoveChild(s) \/ ChangeNode(s) \/ CommitDevices(s)
AppStep == RequestSent \/ RequestFailed \/ FreeChild \/ FreeReset
Worker  == \/ DrainBegin \/ DrainCollect \/ ReportUnchanged \/ ReportSent \/ ReportFailed
           \/ DrainEnd \/ SetupDone \/ BridgeAck \/ WorkerReset \/ SelfAnswer
Client  == ChildAnswer \/ ToWorker \/ CbCompare \/ CbPersist
Loop    == Puback \/ Disconnected \/ ClearAllInflight \/ Reconnected

Next == AppCall \/ AppStep \/ Worker \/ RetryFires \/ Client \/ Loop
          \/ Drop \/ Connect \/ Cloud

Spec == Init /\ [][Next]_vars

-----------------------------------------------------------------------------

\* The types of the state.
TypeOK ==
    /\ slots \in [Nodes -> [st : {"free", "add", "ready", "remove"}, id : Things,
                            cfg : 0 .. MaxCfg]]
    /\ pend \subseteq Nodes /\ inflight \subseteq Nodes
    /\ nvs \in [Things -> Hashes] /\ inbox \in [Nodes -> Hashes]
    /\ requests \subseteq RequestRecs /\ nreq \in 0 .. MaxCalls
    /\ Cardinality(requests) <= PendMax
    /\ lockB \in {"none", "app", "worker"} /\ lockP \in {"none", "worker", "loop"}
    /\ loop \in {"idle", "clear"}
    /\ Len(queue) <= MaxQueue
    /\ {armed, listening, up, deaf} \subseteq BOOLEAN
    /\ cloudHas \subseteq Ids /\ cloudCfg \in [Things -> 0 .. MaxCfg]
    /\ want \in [Nodes -> 0 .. MaxCfg]
    /\ holes \subseteq Nodes /\ stuck \subseteq Nodes

\* "No other code path takes our mutex before the bridge mutex, so the ordering
\* is one-way (bridge -> pending)" (node_config_pending.c:23): no thread would
\* then wait for B while it holds P.  The drain and the disconnection do, and
\* the removal of a child holds B while it waits for P.
OneWayLocks == ~(lockB # "none" /\ lockP # "none")

\* A READY child is one the cloud has: bridgeAcks that come late, twice or
\* after the child was removed and added again promote nobody.
ReadyIsKnown == \A s \in Slots : slots[s].st = "ready" => slots[s].id \in cloudHas

\* A configuration that was committed and is off the list has been accepted by
\* the cloud, or a later one has: no answer to an older configuration and no
\* slot used again takes it off early.  (Excepted are the holes: a checksum
\* names no revision, an answer no publish.)
ConfigNotForgotten ==
    \A n \in Ready \ holes :
        want[n] # 0 /\ n \notin pend => cloudCfg[slots[n].id] >= want[n]

\* "Already in-sync: drop from pending list" (node_config.c:488): what the cloud
\* holds of a node whose checksum is the stored one, or is about to take, says
\* what the node's configuration says.  It does not, when the configuration
\* went from the stored one to another, which was sent, and back.
AlreadyInSync ==
    worker.pc = "report" /\ worker.batch # {} /\ Next1 \in Ready /\ Reportable(Next1) /\ Unchanged(Next1) =>
        \E h \in {<<slots[Next1].id, cloudCfg[slots[Next1].id]>>}
                    \union {toCloud[i].hash : i \in {j \in DOMAIN toCloud : toCloud[j].kind = "config"}} :
            SameSum(h, Hash(Next1))

\* A configuration on the list has somebody who will see to it: a retry or a
\* drain that will come, a publish or an answer on its way, or a connection
\* that is lost and will bring the setup.  (Excepted is what the code gives up:
\* the history variables.)
OnItsWay(n) ==
    LET id == slots[n].id IN
    \/ \E i \in DOMAIN toCloud : toCloud[i].kind = "config" /\ toCloud[i].hash[1] = id
    \/ \E i \in DOMAIN fromCloud : fromCloud[i].kind = "answer" /\ fromCloud[i].hash[1] = id
    \/ \E i \in DOMAIN queue : queue[i].kind = "answer" /\ queue[i].hash[1] = id
    \/ InCallback(n)
DrainComes ==
    \/ armed
    \/ \E i \in DOMAIN queue : queue[i].kind \in {"drain", "setup"}
    \/ worker.pc = "collect"
    \/ worker.pc = "report" /\ worker.failed
    \/ ~up
    \/ \E i \in DOMAIN events : events[i] # "ok"
NothingStranded ==
    \A n \in (pend \intersect Ready) \ stuck :
        \/ DrainComes \/ deaf
        \/ n \in inflight /\ OnItsWay(n)
        \/ worker.pc = "report" /\ n \in worker.batch

=============================================================================
