----------------------------- MODULE StateReport -----------------------------
(***************************************************************************)
(* The state-report pipeline                                               *)
(* (esp_rmaker_neo/src/network/network_state_report.c): parameter changes  *)
(* are inserted into a per-node pending list, a debounce timer queues a    *)
(* report task on the work queue, the task publishes each node's list to   *)
(* its named and indexed shadows with QoS 1, clears it, and the PUBACK     *)
(* handler repairs what turned out not to have arrived.                    *)
(*                                                                         *)
(* Three kinds of task run concurrently: those that change state (the      *)
(* application, cloud callbacks), the work-queue worker that reports, and  *)
(* the event loop that handles PUBACKs.  A node's list is only touched     *)
(* under that node's lock, so one visit of the report task to one node is  *)
(* one step; nothing is locked across two nodes or across insert and       *)
(* schedule.                                                               *)
(*                                                                         *)
(* A parameter's value is a version number.  The debounce timer is the     *)
(* backoff context seen from outside: armed or not (module Backoff has its *)
(* inside).  Of a node's ONLINE and NCFG_VER entries it is kept whether    *)
(* one is in the list; they make both payloads non-empty.                  *)
(***************************************************************************)
EXTENDS Integers, Sequences, FiniteSets

CONSTANTS
    Nodes,        \* the node itself and its bridge children
    Self,         \* the node itself
    Params,       \* parameters of all nodes
    Owner,        \* the node a parameter belongs to
    Indexed,      \* the parameters with the indexed property
    Updaters,     \* tasks that change parameters and tags
    Handler,      \* the event loop that runs the PUBACK handler
    MaxVal,       \* bound: versions of a parameter
    MaxTag,       \* bound: versions of a node's tag set
    MaxInFlight,  \* bound: publishes whose completion has not been handled
    MaxQueued,    \* bound: report tasks waiting in the work queue
    MaxFail       \* bound: failures of the environment

ASSUME NodesAssumption == Self \in Nodes
ASSUME OwnerAssumption == Owner \in [Params -> Nodes] /\ Indexed \subseteq Params
ASSUME TasksAssumption == Handler \notin Updaters
ASSUME PipelineBounds == /\ MaxVal \in Nat /\ MaxTag \in Nat \ {0} /\ MaxInFlight \in Nat
                         /\ MaxQueued \in Nat /\ MaxFail \in Nat

VARIABLES
    value,        \* the current value of every parameter
    pending,      \* the parameters in their node's update list
    refused,      \* parameters whose last insertion found no memory
    synth,        \* the nodes whose list holds an ONLINE or NCFG_VER entry
    tags,         \* the version of every node's tag set
    committed,    \* tag_check.committed, or NoTag when committed_set is false
    stored,       \* the tag checksum persisted in NVS, or NoTag
    snapshot,     \* tag_check.pending, or NoTag when pending_set is false
    timer,        \* whether the report timer is armed
    queued,       \* report tasks in the work queue
    visit,        \* nodes the running report task has still to visit
    wpc,          \* the worker: "idle", "visit" (reporting) or "end"
    failed,       \* failed_any_publish of the running report task
    pc,           \* where every updater and the handler are
    target,       \* the parameter or the node the call in progress is about
    wire,         \* publishes on their way to the broker, oldest first
    acks,         \* publish completions not yet handled, counted by kind
    inFlight,     \* publishes whose completion has not been handled
    cloud,        \* the reported values in the named and indexed shadows
    cloudTags,    \* the tag set in every indexed shadow
    fails         \* failures of the environment so far

pipelineVars == <<value, pending, refused, synth, tags, committed, stored, snapshot, timer, queued, visit,
                  wpc, failed, pc, target, wire, acks, inFlight, cloud, cloudTags,
                  fails>>

listVars  == <<pending, refused, synth>>
tagVars   == <<tags, committed, stored, snapshot>>
sendVars  == <<timer, queued>>
workVars  == <<visit, wpc, failed>>
taskVars  == <<pc, target>>
cloudVars == <<wire, acks, inFlight, cloud, cloudTags>>

Tasks   == Updaters \cup {Handler}
Shadows == {"named", "indexed"}
NoTag   == 0
TagVersions == 1..MaxTag
ParamsOf(n) == {p \in Params : Owner[p] = n}

(* A publish: which node's shadow, the parameters it carries and their     *)
(* values, its tag set.                                                    *)
Messages == [shadow : Shadows, node : Nodes, items : SUBSET Params, vals : [Params -> 0..MaxVal],
             tag : TagVersions \cup {NoTag}]
(* A completion, as the PUBACK handler sees it: it does not name the node. *)
AckKinds == [shadow : Shadows, ok : BOOLEAN]

Goto(t, l) == pc' = [pc EXCEPT ![t] = l]

PipelineInit ==
    /\ value = [p \in Params |-> 0]
    /\ pending = {} /\ refused = {} /\ synth = {}
    /\ tags = [n \in Nodes |-> 1]
    /\ committed = [n \in Nodes |-> NoTag]
    /\ stored = [n \in Nodes |-> NoTag]
    /\ snapshot = [n \in Nodes |-> NoTag]
    /\ timer = FALSE /\ queued = 0
    /\ visit = {} /\ wpc = "idle" /\ failed = FALSE
    /\ pc = [t \in Tasks |-> "idle"]
    /\ target = [t \in Tasks |-> Self]
    /\ wire = <<>>
    /\ acks = [k \in AckKinds |-> 0]
    /\ inFlight = 0
    /\ cloud = [s \in Shadows |-> [p \in Params |-> 0]]
    /\ cloudTags = [n \in Nodes |-> NoTag]
    /\ fails = 0

-----------------------------------------------------------------------------
(* Changing state                                                          *)

(* esp_rmaker_param_update stores the value under the node lock ...        *)
SetParam(u, p) ==
    /\ pc[u] = "idle"
    /\ value[p] < MaxVal
    /\ value' = [value EXCEPT ![p] = @ + 1]
    /\ target' = [target EXCEPT ![u] = p]
    /\ Goto(u, "insert")
    /\ UNCHANGED <<listVars, tagVars, sendVars, workVars, cloudVars, fails>>

(* ... and esp_rmaker_state_mark_for_update takes the owner's lock again   *)
(* to insert the parameter (an entry already there is replaced) ...        *)
Insert(u) ==
    /\ pc[u] = "insert"
    /\ pending' = pending \cup {target[u]}
    /\ refused' = refused \ {target[u]}
    /\ Goto(u, "fire")
    /\ UNCHANGED <<value, synth, tagVars, sendVars, workVars, target, cloudVars, fails>>

(* ... unless there is no memory for the entry: nothing is inserted or     *)
(* scheduled, and the caller ignores the error.                            *)
InsertFails(u) ==
    /\ pc[u] = "insert"
    /\ fails < MaxFail /\ fails' = fails + 1
    /\ refused' = refused \cup {target[u]}
    /\ target' = [target EXCEPT ![u] = Self]
    /\ Goto(u, "idle") \/ Goto(u, "now")
    /\ UNCHANGED <<value, pending, synth, tagVars, sendVars, workVars, cloudVars>>

(* ... and schedules a report: esp_rmaker_backoff_fire arms the timer, or  *)
(* restarts it.                                                            *)
Fire(t) ==
    /\ pc[t] = "fire"
    /\ timer' = TRUE
    /\ target' = [target EXCEPT ![t] = Self]
    /\ Goto(t, "idle") \/ (t \in Updaters /\ target[t] \in Params /\ Goto(t, "now"))
    /\ UNCHANGED <<value, listVars, tagVars, queued, workVars, cloudVars, fails>>

(* The report task enters the work queue, unless that is full: of report   *)
(* tasks, or of the tasks of others.                                       *)
EnqueueReport ==
    \/ queued < MaxQueued /\ queued' = queued + 1 /\ UNCHANGED fails
    \/ queued = MaxQueued /\ UNCHANGED <<queued, fails>>
    \/ fails < MaxFail /\ fails' = fails + 1 /\ UNCHANGED queued

(* esp_rmaker_param_update_and_report: esp_rmaker_state_report cancels the *)
(* timer and queues the report at once.                                    *)
ReportNow(u) ==
    /\ pc[u] = "now"
    /\ timer' = FALSE
    /\ EnqueueReport
    /\ Goto(u, "idle")
    /\ UNCHANGED <<value, listVars, tagVars, workVars, target, cloudVars>>

(* esp_rmaker_node_add_tag_and_report: the tag changes and a report is     *)
(* scheduled; nothing is inserted into the list.                           *)
AddTag(u, n) ==
    /\ pc[u] = "idle"
    /\ tags[n] < MaxTag
    /\ tags' = [tags EXCEPT ![n] = @ + 1]
    /\ Goto(u, "fire")
    /\ UNCHANGED <<value, listVars, committed, stored, snapshot, sendVars, workVars, target,
                   cloudVars, fails>>

(* esp_rmaker_state_schedule_report_for_node(n, true): somebody asks for   *)
(* the full state of a node (a group change, a failed PUBACK) ...          *)
RequestFull(u, n) ==
    /\ pc[u] = "idle"
    /\ target' = [target EXCEPT ![u] = n]
    /\ Goto(u, "populate")
    /\ UNCHANGED <<value, listVars, tagVars, sendVars, workVars, cloudVars, fails>>

(* ... __populate_full_state_for_node inserts all of its entries.          *)
Populate(t) ==
    /\ pc[t] = "populate"
    /\ pending' = pending \cup ParamsOf(target[t])
    /\ refused' = refused \ ParamsOf(target[t])
    /\ synth' = synth \cup {target[t]}
    /\ Goto(t, "fire")
    /\ UNCHANGED <<value, tagVars, sendVars, workVars, target, cloudVars, fails>>

(* Without memory it stops at some entry and no report is scheduled.       *)
PopulateFails(t) ==
    /\ pc[t] = "populate"
    /\ fails < MaxFail /\ fails' = fails + 1
    /\ \E S \in SUBSET ParamsOf(target[t]) :
        /\ pending' = pending \cup S
        /\ refused' = (refused \ S) \cup (ParamsOf(target[t]) \ S)
    /\ synth' \in {synth, synth \cup {target[t]}}
    /\ target' = [target EXCEPT ![t] = Self]
    /\ Goto(t, "idle")
    /\ UNCHANGED <<value, tagVars, sendVars, workVars, cloudVars>>

-----------------------------------------------------------------------------
(* The report task                                                         *)

(* The timer fires: __state_report_scheduler_task queues the report task,  *)
(* or only logs that it could not.                                         *)
TimerFires ==
    /\ timer
    /\ timer' = FALSE
    /\ EnqueueReport
    /\ UNCHANGED <<value, listVars, tagVars, workVars, taskVars, cloudVars>>

(* __state_report_task begins its walk over the nodes.                     *)
BeginReport ==
    /\ wpc = "idle"
    /\ queued > 0
    /\ queued' = queued - 1
    /\ wpc' = "visit" /\ visit' = Nodes /\ failed' = FALSE
    /\ UNCHANGED <<value, listVars, tagVars, timer, taskVars, cloudVars, fails>>

(* esp_rmaker_node_for_each visits the node itself first.                  *)
NextNode(n) == wpc = "visit" /\ n \in visit /\ (Self \in visit => n = Self)

Leave(n) == /\ visit' = visit \ {n}
            /\ wpc' = IF visit = {n} THEN "end" ELSE "visit"

ListOf(n) == pending \cap ParamsOf(n)
ListEmpty(n) == ListOf(n) = {} /\ n \notin synth

(* The hash the current tags are compared with: the cached one, or, when   *)
(* that is unset, the persisted one, which is cached again if it is equal  *)
(* (and for a child in any case).                                          *)
KnownTag(n) == IF committed[n] # NoTag THEN committed[n] ELSE stored[n]
TagsChanged(n) == KnownTag(n) # tags[n]
CachedTag(n) == IF committed[n] = NoTag /\ (n # Self \/ stored[n] = tags[n])
                THEN stored[n] ELSE committed[n]

(* __populate_shadow_payloads: values are read now, not when inserted.     *)
Message(s, n, S, tag) ==
    [shadow |-> s, node |-> n, items |-> S,
     vals |-> [p \in Params |-> IF p \in S THEN value[p] ELSE 0], tag |-> tag]
NamedMsg(n) == Message("named", n, ListOf(n), NoTag)
IndexedMsg(n) == Message("indexed", n, ListOf(n) \cap Indexed,
                         IF TagsChanged(n) THEN tags[n] ELSE NoTag)
HasIndexed(n) == n \in synth \/ ListOf(n) \cap Indexed # {} \/ TagsChanged(n)

(* An empty list: nothing is published for the node, its tags included.    *)
SkipNode(n) ==
    /\ NextNode(n) /\ ListEmpty(n)
    /\ Leave(n)
    /\ UNCHANGED <<value, listVars, tagVars, sendVars, failed, taskVars, cloudVars, fails>>

(* Both publishes are accepted: the hash snapshot is taken for the PUBACK  *)
(* handler and the list is cleared.                                        *)
PublishNode(n) ==
    /\ NextNode(n) /\ ~ListEmpty(n)
    /\ inFlight + 2 <= MaxInFlight
    /\ committed' = [committed EXCEPT ![n] = CachedTag(n)]
    /\ IF HasIndexed(n)
       THEN /\ wire' = Append(Append(wire, NamedMsg(n)), IndexedMsg(n))
            /\ inFlight' = inFlight + 2
            /\ snapshot' = IF TagsChanged(n) THEN [snapshot EXCEPT ![n] = tags[n]] ELSE snapshot
       ELSE /\ wire' = Append(wire, NamedMsg(n))
            /\ inFlight' = inFlight + 1
            /\ UNCHANGED snapshot
    /\ pending' = pending \ ListOf(n)
    /\ synth' = synth \ {n}
    /\ Leave(n)
    /\ UNCHANGED <<value, refused, tags, stored, sendVars, failed, taskVars, acks, cloud, cloudTags,
                   fails>>

(* Mutant of NamedFails: the list is cleared although nothing was sent.    *)
NamedFailsClearsList(n) ==
    /\ NextNode(n) /\ ~ListEmpty(n)
    /\ fails < MaxFail /\ fails' = fails + 1
    /\ committed' = [committed EXCEPT ![n] = CachedTag(n)]
    /\ pending' = pending \ ListOf(n) /\ synth' = synth \ {n}
    /\ failed' = TRUE
    /\ Leave(n)
    /\ UNCHANGED <<value, refused, tags, stored, snapshot, sendVars, taskVars, cloudVars>>

(* The named publish fails: the indexed one is skipped and the list kept.  *)
NamedFails(n) ==
    /\ NextNode(n) /\ ~ListEmpty(n)
    /\ fails < MaxFail /\ fails' = fails + 1
    /\ committed' = [committed EXCEPT ![n] = CachedTag(n)]
    /\ failed' = TRUE
    /\ Leave(n)
    /\ UNCHANGED <<value, listVars, tags, stored, snapshot, sendVars, taskVars, cloudVars>>

(* The named publish is accepted and the indexed one fails: the snapshot   *)
(* is withdrawn and the list kept.                                         *)
IndexedFails(n) ==
    /\ NextNode(n) /\ ~ListEmpty(n) /\ HasIndexed(n)
    /\ inFlight < MaxInFlight /\ inFlight' = inFlight + 1
    /\ fails < MaxFail /\ fails' = fails + 1
    /\ committed' = [committed EXCEPT ![n] = CachedTag(n)]
    /\ wire' = Append(wire, NamedMsg(n))
    /\ snapshot' = [snapshot EXCEPT ![n] = NoTag]
    /\ failed' = TRUE
    /\ Leave(n)
    /\ UNCHANGED <<value, listVars, tags, stored, sendVars, taskVars, acks, cloud, cloudTags>>

(* No memory for a payload: the node is left as it is and the report is    *)
(* not marked as failed.                                                   *)
NoMemory(n) ==
    /\ NextNode(n) /\ ~ListEmpty(n)
    /\ fails < MaxFail /\ fails' = fails + 1
    /\ committed' = [committed EXCEPT ![n] = CachedTag(n)]
    /\ Leave(n)
    /\ UNCHANGED <<value, listVars, tags, stored, snapshot, sendVars, failed, taskVars, cloudVars>>

(* Mutant of EndReport: a failed report is not scheduled again.            *)
EndReportNoRetry ==
    /\ wpc = "end"
    /\ timer' = FALSE
    /\ wpc' = "idle" /\ failed' = FALSE
    /\ UNCHANGED <<value, listVars, tagVars, queued, visit, taskVars, cloudVars, fails>>

(* A failed report is retried: esp_rmaker_backoff_retry arms the timer;    *)
(* otherwise esp_rmaker_backoff_reset cancels whatever timer is armed.     *)
EndReport ==
    /\ wpc = "end"
    /\ timer' = failed
    /\ wpc' = "idle" /\ failed' = FALSE
    /\ UNCHANGED <<value, listVars, tagVars, queued, visit, taskVars, cloudVars, fails>>

-----------------------------------------------------------------------------
(* The broker and the PUBACK handler                                       *)

AddAck(m, ok) == acks' = [acks EXCEPT ![[shadow |-> m.shadow, ok |-> ok]] = @ + 1]

(* External: the broker takes publishes in order and updates the shadow;   *)
(* the PUBACK may be lost, which the client reports as a failure.          *)
BrokerApplies ==
    /\ wire # <<>>
    /\ LET m == Head(wire) IN
        /\ cloud' = [s \in Shadows |-> [p \in Params |->
                        IF s = m.shadow /\ p \in m.items THEN m.vals[p] ELSE cloud[s][p]]]
        /\ cloudTags' = IF m.tag = NoTag THEN cloudTags ELSE [cloudTags EXCEPT ![m.node] = m.tag]
        /\ \/ AddAck(m, TRUE) /\ UNCHANGED fails
           \/ AddAck(m, FALSE) /\ fails < MaxFail /\ fails' = fails + 1
    /\ wire' = Tail(wire)
    /\ UNCHANGED <<value, listVars, tagVars, sendVars, workVars, taskVars, inFlight>>

(* External: a publish is lost with the connection, and reported as failed. *)
WireLoses ==
    /\ wire # <<>>
    /\ fails < MaxFail /\ fails' = fails + 1
    /\ AddAck(Head(wire), FALSE)
    /\ wire' = Tail(wire)
    /\ UNCHANGED <<value, listVars, tagVars, sendVars, workVars, taskVars, inFlight, cloud, cloudTags>>

(* __commit_pending_tag_checksums: every node with a snapshot commits it,  *)
(* or, after a failure, forgets its cached hash.                           *)
CommitTags(ok) ==
    /\ committed' = [n \in Nodes |-> IF snapshot[n] = NoTag THEN committed[n]
                                     ELSE IF ok THEN snapshot[n] ELSE NoTag]
    /\ stored' = [n \in Nodes |-> IF snapshot[n] # NoTag /\ ok THEN snapshot[n] ELSE stored[n]]
    /\ snapshot' = [n \in Nodes |-> NoTag]

(* __mqtt_on_complete_event_handler for the two shadow channels: a failure *)
(* makes it schedule a full report of the node itself.                     *)
HandleAck(k) ==
    /\ pc[Handler] = "idle"
    /\ acks[k] > 0
    /\ acks' = [acks EXCEPT ![k] = @ - 1]
    /\ inFlight' = inFlight - 1
    /\ IF k.shadow = "indexed" THEN CommitTags(k.ok)
                               ELSE UNCHANGED <<committed, stored, snapshot>>
    /\ target' = [target EXCEPT ![Handler] = Self]
    /\ Goto(Handler, IF k.ok THEN "idle" ELSE "populate")
    /\ UNCHANGED <<value, listVars, tags, sendVars, workVars, wire, cloud, cloudTags, fails>>

-----------------------------------------------------------------------------
Updating(u) == \/ \E p \in Params : SetParam(u, p)
               \/ \E n \in Nodes : AddTag(u, n) \/ RequestFull(u, n)
Progress(t) == \/ Insert(t) \/ InsertFails(t) \/ Populate(t) \/ PopulateFails(t)
               \/ Fire(t) \/ ReportNow(t)
Reporting == \/ BeginReport
             \/ \E n \in Nodes : \/ SkipNode(n) \/ PublishNode(n) \/ NamedFails(n)
                                 \/ IndexedFails(n) \/ NoMemory(n)
             \/ EndReport
Delivering == BrokerApplies \/ WireLoses
Handling == \E k \in AckKinds : HandleAck(k)

PipelineNext == \/ \E u \in Updaters : Updating(u)
                \/ \E t \in Tasks : Progress(t)
                \/ TimerFires
                \/ Reporting
                \/ Delivering
                \/ Handling

(* Tasks that are in a call go on, an armed timer fires, the worker runs,  *)
(* and the client completes every publish; nobody has to change anything.  *)
PipelineFairness == /\ \A t \in Tasks : WF_pipelineVars(Progress(t))
                    /\ WF_pipelineVars(TimerFires)
                    /\ WF_pipelineVars(Reporting)
                    /\ WF_pipelineVars(Delivering)
                    /\ WF_pipelineVars(Handling)

PipelineSpec == PipelineInit /\ [][PipelineNext]_pipelineVars
FairPipeline == PipelineSpec /\ PipelineFairness

-----------------------------------------------------------------------------
PipelineTypeOK ==
    /\ value \in [Params -> 0..MaxVal]
    /\ pending \subseteq Params /\ refused \subseteq Params /\ synth \subseteq Nodes
    /\ tags \in [Nodes -> TagVersions]
    /\ committed \in [Nodes -> TagVersions \cup {NoTag}]
    /\ stored \in [Nodes -> TagVersions \cup {NoTag}]
    /\ snapshot \in [Nodes -> TagVersions \cup {NoTag}]
    /\ timer \in BOOLEAN /\ queued \in 0..MaxQueued
    /\ visit \subseteq Nodes /\ wpc \in {"idle", "visit", "end"} /\ failed \in BOOLEAN
    /\ pc \in [Tasks -> {"idle", "insert", "populate", "fire", "now"}]
    /\ target \in [Tasks -> Params \cup Nodes]
    /\ wire \in Seq(Messages)
    /\ acks \in [AckKinds -> Nat]
    /\ inFlight \in Int /\ inFlight <= MaxInFlight
    /\ cloud \in [Shadows -> [Params -> 0..MaxVal]]
    /\ cloudTags \in [Nodes -> TagVersions \cup {NoTag}]
    /\ fails \in 0..MaxFail

(* A publish still on the wire brings shadow s up to date for p.           *)
OnWire(s, p) ==
    \E i \in 1..Len(wire) : /\ wire[i].shadow = s
                            /\ p \in wire[i].items
                            /\ wire[i].vals[p] = value[p]

(* Some task is about to insert p, or all of node n's parameters.          *)
AboutToInsert(p) == \E u \in Updaters : pc[u] = "insert" /\ target[u] = p
FailureKnown == \/ \E k \in AckKinds : ~k.ok /\ acks[k] > 0
                \/ pc[Handler] = "populate"

(* The shadow has the current value, or something will still report it;    *)
(* a parameter the list had no memory for is a known loss.                 *)
Accounted(s, p) ==
    \/ cloud[s][p] = value[p]
    \/ p \in pending \cup refused
    \/ OnWire(s, p)
    \/ AboutToInsert(p)

(* No change of one of the node's own parameters is ever forgotten,        *)
(* whatever publish or PUBACK fails and whatever is changed while a report *)
(* runs: it is in the cloud, in the list, on its way, or a failed          *)
(* completion is about to put the full state into the list again.          *)
NoOwnUpdateForgotten ==
    \A p \in ParamsOf(Self) :
        /\ Accounted("named", p) \/ FailureKnown
        /\ p \in Indexed => (Accounted("indexed", p) \/ FailureKnown)

(* The same for every node, children included, as state_management.md:129  *)
(* says: "A failed shadow PUBACK schedules a subsequent full state report".*)
NoUpdateForgotten ==
    \A p \in Params : Accounted("named", p) \/ FailureKnown

(* Something will make the report task run, or it is running.              *)
ReportComing == \/ timer \/ queued > 0 \/ wpc # "idle"
                \/ \E t \in Tasks : pc[t] \in {"fire", "now", "populate"}

(* "A state change schedules the report" (state_management.md:105): a      *)
(* pending change has a report ahead of it.                                *)
NoStrandedUpdate == pending # {} => ReportComing

(* "The committed hash is only updated once the indexed shadow publish is  *)
(* acknowledged" (state_management.md:278): the cloud has the tags that    *)
(* the node believes it has, or is about to receive them.                  *)
CommittedTagsArrived ==
    \A n \in Nodes : committed[n] = tags[n] =>
        \/ cloudTags[n] = tags[n]
        \/ \E i \in 1..Len(wire) : wire[i].node = n /\ wire[i].tag = tags[n]

(* A tag update triggers a report (state_management.md:94-99).             *)
TagUpdateReported ==
    \A n \in Nodes : tags[n] # 1 /\ cloudTags[n] # tags[n] =>
        ReportComing \/ wire # <<>> \/ \E k \in AckKinds : acks[k] > 0

(* Once the environment has failed for the last time, a report that failed *)
(* to publish is repeated until one goes through: the retry is neither     *)
(* dropped nor cancelled.                                                  *)
FailedReportRetried ==
    (wpc = "end" /\ failed /\ fails = MaxFail) ~> (wpc = "end" /\ ~failed)
=============================================================================
