-------------------------------- MODULE Core --------------------------------
(***************************************************************************)
(* The SDK's lifecycle (esp_rmaker_neo/src/esp_rmaker_core.c): the calls   *)
(* node_init, start, stop and node_deinit of the application, the start    *)
(* and stop tasks they queue for the worker of the work queue, the cloud   *)
(* setup with its retry context (retry_manager.c) and the runtime gate.    *)
(*                                                                         *)
(* The application and the worker both write priv_data.trackers, a struct  *)
(* of bit-fields without a lock: a store to one field loads the byte that  *)
(* holds all of them and stores it back, so it is two steps here.  Calls   *)
(* of the work queue are one step each (module WorkQueue takes them        *)
(* apart), except that the worker of a start runs before RUNNING is set.   *)
(***************************************************************************)
EXTENDS Naturals, Sequences

CONSTANTS
    App,         \* the task that calls the lifecycle functions
    Worker,      \* the work queue's task
    QueueSize,   \* capacity of the work queue
    MaxCalls     \* bound: how many lifecycle calls are explored

ASSUME CoreThreadsAssumption == App # Worker
ASSUME CoreSizeAssumption == QueueSize \in Nat \ {0} /\ MaxCalls \in Nat

VARIABLES
    trackers,    \* priv_data.trackers: [state, inQueue (start_task_in_queue), full (is_init_full)]
    reg,         \* the trackers byte a task has loaded and is about to store back
    gate,        \* the runtime gate
    qState,      \* the work queue's state; PARKED also before it is first created
    queue,       \* the tasks in the work queue
    pc,          \* where each task is
    link,        \* what the start task set up: [mqtt, handler (on-complete), shadows]
    armed,       \* the cloud_setup context's backoff timer is armed
    orphan,      \* a timer of the previous lifecycle's context is armed
    ackDue,      \* a cloud_setup publish waits for its completion
    setupDone,   \* history: the completion arrived in this connection
    stopOk,      \* history: the last stop() returned ESP_RMAKER_OK and no start() followed
    refused,     \* history: node_deinit returned INVALID_STATE after such a stop()
    calls        \* how many lifecycle calls were made

vars == <<trackers, reg, gate, qState, queue, pc, link, armed, orphan, ackDue,
          setupDone, stopOk, refused, calls>>

cloudVars == <<armed, orphan, ackDue, setupDone>>
historyVars == <<stopOk, refused, calls>>
queueVars == <<qState, queue>>

States == {"DEINIT", "INIT_DONE", "STARTING", "STARTED", "STOP_REQUESTED", "STOPPED", "ERROR"}
Tasks == {"start", "stop", "setup", "empty"}
AppLabels == {"idle", "startAdd", "startSpawn", "startRunning", "startLoad", "startStore",
              "stopAdd", "stopLoad", "stopStore",
              "deinitPoll", "deinitCheck", "joinStop", "join", "teardown"}
WorkerLabels == {"none", "loop", "receive", "drain",
                 "clearLoad", "clearStore", "connect", "register", "startedLoad", "startedStore",
                 "stopRetry", "unregister", "disconnect", "shadowsOff", "stoppedLoad", "stoppedStore",
                 "errorLoad", "errorStore", "setup"}

Goto(t, l) == pc' = [pc EXCEPT ![t] = l]

Down == [mqtt |-> FALSE, handler |-> FALSE, shadows |-> FALSE]

Init ==
    /\ trackers = [state |-> "DEINIT", inQueue |-> FALSE, full |-> FALSE]
    /\ reg = [t \in {App, Worker} |-> trackers]
    /\ gate = FALSE
    /\ qState = "PARKED" /\ queue = <<>>
    /\ pc = [t \in {App, Worker} |-> IF t = App THEN "idle" ELSE "none"]
    /\ link = Down
    /\ armed = FALSE /\ orphan = FALSE /\ ackDue = FALSE /\ setupDone = FALSE
    /\ stopOk = FALSE /\ refused = FALSE /\ calls = 0

(* esp_rmaker_work_queue_add_task succeeds.                                *)
CanAdd == qState # "PARKED" /\ Len(queue) < QueueSize

AddTask(task) == queue' = IF CanAdd THEN Append(queue, task) ELSE queue

(* A store to one bit-field of trackers: load the byte, store it back.     *)
LoadTrackers(t, from, next) ==
    /\ pc[t] = from
    /\ reg' = [reg EXCEPT ![t] = trackers]
    /\ Goto(t, next)
    /\ UNCHANGED <<trackers, gate, queueVars, link, cloudVars, historyVars>>

StoreTrackers(t, from, next, value) ==
    /\ pc[t] = from
    /\ trackers' = value
    /\ Goto(t, next)
    /\ UNCHANGED <<reg, gate, queueVars, link, cloudVars, historyVars>>

Call ==
    /\ pc[App] = "idle"
    /\ calls < MaxCalls
    /\ calls' = calls + 1

-----------------------------------------------------------------------------
(* esp_rmaker_node_init                                                    *)

(* The work queue is opened and flushed, the start task queued and the     *)
(* retry contexts written anew, which forgets the handle of an armed timer.*)
NodeInit ==
    /\ Call
    /\ ~trackers.full
    /\ trackers' = [state |-> "INIT_DONE", inQueue |-> TRUE, full |-> TRUE]
    /\ qState' = "INIT_DONE" /\ queue' = <<"start">>
    /\ armed' = FALSE /\ orphan' = (armed \/ orphan)
    /\ UNCHANGED <<reg, gate, pc, link, ackDue, setupDone, stopOk, refused>>

-----------------------------------------------------------------------------
(* esp_rmaker_start                                                        *)

StartCall ==
    /\ Call
    /\ trackers.full
    /\ trackers.state # "STARTED"
    /\ stopOk' = FALSE
    /\ Goto(App, "startAdd")
    /\ UNCHANGED <<trackers, reg, gate, queueVars, link, cloudVars, refused>>

(* The first start finds the task node_init queued.                        *)
StartAdd ==
    /\ pc[App] = "startAdd"
    /\ IF trackers.inQueue THEN UNCHANGED queue ELSE AddTask("start")
    /\ Goto(App, "startSpawn")
    /\ UNCHANGED <<trackers, reg, gate, qState, link, cloudVars, historyVars>>

(* esp_rmaker_work_queue_start: with the queue stopping or parked, or      *)
(* without memory for the task, start() returns its error.                 *)
StartSpawn ==
    /\ pc[App] = "startSpawn"
    /\ \/ qState = "RUNNING" /\ Goto(App, "startLoad")
       \/ qState = "INIT_DONE" /\ pc' = [pc EXCEPT ![App] = "startRunning", ![Worker] = "loop"]
       \/ qState # "RUNNING" /\ Goto(App, "idle")
    /\ UNCHANGED <<trackers, reg, gate, queueVars, link, cloudVars, historyVars>>

StartRunning ==
    /\ pc[App] = "startRunning"
    /\ qState' = "RUNNING"
    /\ Goto(App, "startLoad")
    /\ UNCHANGED <<trackers, reg, gate, queue, link, cloudVars, historyVars>>

StartLoad == LoadTrackers(App, "startLoad", "startStore")
StartStore == StoreTrackers(App, "startStore", "idle", [reg[App] EXCEPT !.state = "STARTING"])

-----------------------------------------------------------------------------
(* esp_rmaker_stop                                                         *)

StopCall ==
    /\ Call
    /\ trackers.state = "STARTED"
    /\ gate' = FALSE
    /\ Goto(App, "stopAdd")
    /\ UNCHANGED <<trackers, reg, queueVars, link, cloudVars, stopOk, refused>>

(* The result of add_task is not looked at.                                *)
StopAdd ==
    /\ pc[App] = "stopAdd"
    /\ AddTask("stop")
    /\ stopOk' = TRUE
    /\ Goto(App, "stopLoad")
    /\ UNCHANGED <<trackers, reg, gate, qState, link, cloudVars, refused, calls>>

StopLoad == LoadTrackers(App, "stopLoad", "stopStore")
StopStore == StoreTrackers(App, "stopStore", "idle", [reg[App] EXCEPT !.state = "STOP_REQUESTED"])

-----------------------------------------------------------------------------
(* esp_rmaker_node_deinit                                                  *)

DeinitCall ==
    /\ Call
    /\ trackers.full
    /\ Goto(App, IF trackers.state = "STOP_REQUESTED" THEN "deinitPoll" ELSE "deinitCheck")
    /\ UNCHANGED <<trackers, reg, gate, queueVars, link, cloudVars, stopOk, refused>>

(* A stop in flight is awaited by polling the state.                       *)
DeinitPoll ==
    /\ pc[App] = "deinitPoll"
    /\ trackers.state \in {"STOPPED", "ERROR"}
    /\ Goto(App, "deinitCheck")
    /\ UNCHANGED <<trackers, reg, gate, queueVars, link, cloudVars, historyVars>>

DeinitCheck ==
    /\ pc[App] = "deinitCheck"
    /\ IF trackers.state \in {"STARTED", "STARTING"}
       THEN /\ Goto(App, "idle")
            /\ refused' = (refused \/ stopOk)
       ELSE /\ Goto(App, "joinStop")
            /\ UNCHANGED refused
    /\ UNCHANGED <<trackers, reg, gate, queueVars, link, cloudVars, stopOk, calls>>

(* esp_rmaker_deinit closes the gate and joins the worker ...              *)
JoinStop ==
    /\ pc[App] = "joinStop"
    /\ gate' = FALSE
    /\ IF qState = "RUNNING"
       THEN qState' = "STOP_REQUESTED" /\ AddTask("empty")
       ELSE UNCHANGED queueVars
    /\ Goto(App, "join")
    /\ UNCHANGED <<trackers, reg, link, cloudVars, historyVars>>

(* Mutant of Join: the worker is not waited for.                           *)
JoinNot ==
    /\ pc[App] = "join"
    /\ qState' = "PARKED" /\ queue' = <<>>
    /\ Goto(App, "teardown")
    /\ UNCHANGED <<trackers, reg, gate, link, cloudVars, historyVars>>

Join ==
    /\ pc[App] = "join"
    /\ qState # "STOP_REQUESTED"
    /\ IF qState = "INIT_DONE" THEN qState' = "PARKED" /\ queue' = <<>>
                               ELSE UNCHANGED queueVars
    /\ Goto(App, "teardown")
    /\ UNCHANGED <<trackers, reg, gate, link, cloudVars, historyVars>>

(* ... then takes the subsystems down.  A step that fails does not keep    *)
(* the others from being taken, but node_deinit then keeps the node and    *)
(* leaves the state as it is.  No retry context is stopped.                *)
Teardown ==
    /\ pc[App] = "teardown"
    /\ \/ trackers' = [state |-> "DEINIT", inQueue |-> FALSE, full |-> FALSE]
       \/ trackers' = [trackers EXCEPT !.inQueue = FALSE]
    /\ link' = Down
    /\ ackDue' = FALSE /\ setupDone' = FALSE
    /\ stopOk' = FALSE
    /\ Goto(App, "idle")
    /\ UNCHANGED <<reg, gate, queueVars, armed, orphan, refused, calls>>

-----------------------------------------------------------------------------
(* The worker                                                              *)

WorkerLoop ==
    /\ pc[Worker] = "loop"
    /\ IF qState = "STOP_REQUESTED"
       THEN qState' = "INIT_DONE" /\ Goto(Worker, "none")
       ELSE UNCHANGED qState /\ Goto(Worker, "receive")
    /\ UNCHANGED <<trackers, reg, gate, queue, link, cloudVars, historyVars>>

FirstStep(task) ==
    CASE task = "start" -> "clearLoad"
      [] task = "stop"  -> "stopRetry"
      [] task = "setup" -> "setup"
      [] task = "empty" -> "drain"

WorkerReceive ==
    /\ pc[Worker] \in {"receive", "drain"}
    /\ IF queue = <<>> THEN Goto(Worker, "loop") /\ UNCHANGED queue
                       ELSE Goto(Worker, FirstStep(Head(queue))) /\ queue' = Tail(queue)
    /\ UNCHANGED <<trackers, reg, gate, qState, link, cloudVars, historyVars>>

(* The worker's stores of a state at the end of a task.                    *)
EndLoad(from, to) == LoadTrackers(Worker, from, to)
EndStore(from, s) == StoreTrackers(Worker, from, "drain", [reg[Worker] EXCEPT !.state = s])

(* esp_rmaker_start_task: first the flag ...                               *)
ClearLoad == LoadTrackers(Worker, "clearLoad", "clearStore")
ClearStore == StoreTrackers(Worker, "clearStore", "connect", [reg[Worker] EXCEPT !.inQueue = FALSE])

(* Mutant of StartConnect: a failed connection does not end the task.      *)
StartConnectUnchecked ==
    /\ pc[Worker] = "connect"
    /\ \E up \in BOOLEAN : link' = [link EXCEPT !.mqtt = up, !.shadows = TRUE]
    /\ Goto(Worker, "register")
    /\ UNCHANGED <<trackers, reg, gate, queueVars, cloudVars, historyVars>>

(* ... then time, shadows, schedules, automations, network and MQTT.  The  *)
(* steps before the connection may fail, with the shadows registered or    *)
(* not; so may the connection, which some clients refuse to start twice.   *)
StartConnect ==
    /\ pc[Worker] = "connect"
    /\ \/ link' = [link EXCEPT !.mqtt = TRUE, !.shadows = TRUE] /\ Goto(Worker, "register")
       \/ link' = [link EXCEPT !.shadows = TRUE] /\ Goto(Worker, "errorLoad")
       \/ UNCHANGED link /\ Goto(Worker, "errorLoad")
    /\ UNCHANGED <<trackers, reg, gate, queueVars, cloudVars, historyVars>>

StartRegisterFails ==
    /\ pc[Worker] = "register"
    /\ Goto(Worker, "errorLoad")
    /\ UNCHANGED <<trackers, reg, gate, queueVars, link, cloudVars, historyVars>>

(* __retry_manager_scheduler_task: queue the work, or fail and back off.   *)
QueueSetup ==
    /\ AddTask("setup")
    /\ armed' = ~CanAdd

(* The on-complete handler, the gate, and esp_rmaker_on_first_mqtt_connection. *)
StartRegister ==
    /\ pc[Worker] = "register"
    /\ link' = [link EXCEPT !.handler = TRUE]
    /\ gate' = TRUE
    /\ QueueSetup
    /\ Goto(Worker, "startedLoad")
    /\ UNCHANGED <<trackers, reg, qState, orphan, ackDue, setupDone, historyVars>>

StartedLoad == EndLoad("startedLoad", "startedStore")
StartedStore == EndStore("startedStore", "STARTED")
ErrorLoad == EndLoad("errorLoad", "errorStore")
ErrorStore == EndStore("errorStore", "ERROR")

(* esp_rmaker_stop_task: the retries, then the handler and the             *)
(* subscriptions (failures are only logged), ...                           *)
StopRetry ==
    /\ pc[Worker] = "stopRetry"
    /\ armed' = FALSE
    /\ Goto(Worker, "unregister")
    /\ UNCHANGED <<trackers, reg, gate, queueVars, link, orphan, ackDue, setupDone, historyVars>>

StopUnregister ==
    /\ pc[Worker] = "unregister"
    /\ link' = [link EXCEPT !.handler = FALSE]
    /\ Goto(Worker, "disconnect")
    /\ UNCHANGED <<trackers, reg, gate, queueVars, cloudVars, historyVars>>

(* ... the connection, whose pending completions are abandoned ...         *)
StopDisconnect ==
    /\ pc[Worker] = "disconnect"
    /\ \/ /\ link' = [link EXCEPT !.mqtt = FALSE]
          /\ ackDue' = FALSE /\ setupDone' = FALSE
          /\ Goto(Worker, "shadowsOff")
       \/ /\ Goto(Worker, "errorLoad")
          /\ UNCHANGED <<link, ackDue, setupDone>>
    /\ UNCHANGED <<trackers, reg, gate, queueVars, armed, orphan, historyVars>>

(* ... the shadows and the work queue itself.                              *)
StopQueue ==
    /\ pc[Worker] = "shadowsOff"
    /\ \/ /\ link' = [link EXCEPT !.shadows = FALSE]
          /\ IF qState = "RUNNING"
             THEN qState' = "STOP_REQUESTED" /\ AddTask("empty")
             ELSE UNCHANGED queueVars
          /\ Goto(Worker, "stoppedLoad")
       \/ /\ Goto(Worker, "errorLoad")
          /\ UNCHANGED <<link, queueVars>>
    /\ UNCHANGED <<trackers, reg, gate, cloudVars, historyVars>>

StoppedLoad == EndLoad("stoppedLoad", "stoppedStore")
StoppedStore == EndStore("stoppedStore", "STOPPED")

-----------------------------------------------------------------------------
(* The cloud setup and its retry context                                   *)

(* esp_rmaker_cloud_setup_work_fn: subscribe if needed and publish the     *)
(* request; it fails without a connection and may fail with one, and the   *)
(* retry manager then backs off.                                           *)
SetupRuns ==
    /\ pc[Worker] = "setup"
    /\ \/ link.mqtt /\ ackDue' = TRUE /\ UNCHANGED armed
       \/ armed' = TRUE /\ UNCHANGED ackDue
    /\ Goto(Worker, "drain")
    /\ UNCHANGED <<trackers, reg, gate, queueVars, link, orphan, setupDone, historyVars>>

(* The completion of that publish, in the event loop's task: success stops *)
(* the retry context, failure resumes it.                                  *)
SetupAck ==
    /\ ackDue /\ link.handler
    /\ ackDue' = FALSE
    /\ \/ armed' = FALSE /\ setupDone' = TRUE
       \/ armed' = TRUE /\ UNCHANGED setupDone
    /\ UNCHANGED <<trackers, reg, gate, queueVars, pc, link, orphan, historyVars>>

(* The backoff timer fires in the scheduler's task.  Once the scheduler is *)
(* de-initialised it cannot be armed again.                                *)
RetryFires ==
    /\ armed
    /\ IF trackers.full THEN QueueSetup ELSE armed' = FALSE /\ UNCHANGED queue
    /\ UNCHANGED <<trackers, reg, gate, qState, pc, link, orphan, ackDue, setupDone, historyVars>>

(* A timer whose handle node_init forgot fires on the same context; when   *)
(* it fails to queue, the context arms its own timer.                      *)
OrphanFires ==
    /\ orphan
    /\ orphan' = FALSE
    /\ AddTask("setup")
    /\ armed' = (armed \/ (trackers.full /\ ~CanAdd))
    /\ UNCHANGED <<trackers, reg, gate, qState, pc, link, ackDue, setupDone, historyVars>>

-----------------------------------------------------------------------------
AppStep ==
    \/ NodeInit \/ StartCall \/ StartAdd \/ StartSpawn \/ StartRunning \/ StartLoad \/ StartStore
    \/ StopCall \/ StopAdd \/ StopLoad \/ StopStore
    \/ DeinitCall \/ DeinitPoll \/ DeinitCheck \/ JoinStop \/ Join \/ Teardown

WorkerStep ==
    \/ WorkerLoop \/ WorkerReceive
    \/ ClearLoad \/ ClearStore \/ StartConnect \/ StartRegisterFails \/ StartRegister
    \/ StartedLoad \/ StartedStore \/ ErrorLoad \/ ErrorStore
    \/ StopRetry \/ StopUnregister \/ StopDisconnect \/ StopQueue \/ StoppedLoad \/ StoppedStore
    \/ SetupRuns

Next == AppStep \/ WorkerStep \/ SetupAck \/ RetryFires \/ OrphanFires

Spec == Init /\ [][Next]_vars

-----------------------------------------------------------------------------
TrackersType == [state : States, inQueue : BOOLEAN, full : BOOLEAN]

DataType ==
    /\ trackers \in TrackersType
    /\ reg \in [{App, Worker} -> TrackersType]
    /\ link \in [mqtt : BOOLEAN, handler : BOOLEAN, shadows : BOOLEAN]

ControlType ==
    /\ qState \in {"INIT_DONE", "RUNNING", "STOP_REQUESTED", "PARKED"}
    /\ queue \in Seq(Tasks) /\ Len(queue) <= QueueSize
    /\ pc \in [{App, Worker} -> AppLabels \cup WorkerLabels]
    /\ pc[App] \in AppLabels /\ pc[Worker] \in WorkerLabels
    /\ calls \in 0..MaxCalls

FlagType ==
    /\ gate \in BOOLEAN
    /\ armed \in BOOLEAN /\ orphan \in BOOLEAN
    /\ ackDue \in BOOLEAN /\ setupDone \in BOOLEAN
    /\ stopOk \in BOOLEAN /\ refused \in BOOLEAN

(* Every variable has its type: the state is one of the seven, a task is   *)
(* at one of its labels, the queue within its capacity.                    *)
TypeOK == DataType /\ ControlType /\ FlagType

(***************************************************************************)
(* What TeardownAlone rests on.  A worker exists exactly while the queue   *)
(* runs or stops, or start() has created it and not yet said so.           *)
(***************************************************************************)
WorkerOwnsQueue ==
    /\ pc[Worker] # "none" <=>
          qState \in {"RUNNING", "STOP_REQUESTED"} \/ pc[App] = "startRunning"
    /\ pc[App] = "startRunning" => qState = "INIT_DONE"
    /\ pc[App] = "join" => qState # "RUNNING"
    /\ pc[App] = "teardown" => qState = "PARKED"

(* is_init_full is off only between lifecycles, and no task is about to    *)
(* store back a byte in which it is.                                       *)
FullWhileAlive ==
    /\ ~trackers.full => trackers.state = "DEINIT" /\ pc[App] = "idle" /\ qState = "PARKED"
    /\ pc[App] \in {"startStore", "stopStore"} => reg[App].full
    /\ pc[Worker] \in {"clearStore", "startedStore", "stoppedStore", "errorStore"}
          => reg[Worker].full

(* The inductive invariant.                                                *)
CoreInv == TypeOK /\ WorkerOwnsQueue /\ FullWhileAlive

(* No lifecycle call and no task of the worker is in progress, and no      *)
(* node_deinit has failed half-way.                                        *)
AtRest ==
    /\ pc[App] = "idle" /\ qState # "PARKED"
    /\ pc[Worker] \in {"none", "loop", "receive", "drain"}

(* Subsystems are taken down, and the node freed, only when the worker is  *)
(* gone: no start, stop, setup or report task runs during or after a       *)
(* node_deinit, whatever raced with it (esp_rmaker_core.c:1610, "safe:     *)
(* worker joined, no report can be running").                              *)
TeardownAlone ==
    pc[App] = "teardown" \/ ~trackers.full => pc[Worker] = "none"

(* Between calls and tasks STARTED means up: connected, with completions   *)
(* handled - also after double starts, failed starts, restarts and lost    *)
(* stores of the bit-fields.                                               *)
StartedIsUp ==
    AtRest /\ trackers.state = "STARTED" => link.mqtt /\ link.handler

(* ... and STOPPED means down: no connection and no completion handler.    *)
StoppedIsDown ==
    AtRest /\ trackers.state = "STOPPED" => ~link.mqtt /\ ~link.handler

(* A started node's cloud setup is never forgotten: it is queued, waits    *)
(* for a retry or for its completion, or has completed.                    *)
SetupNotForgotten ==
    AtRest /\ trackers.state = "STARTED"
        => \/ "setup" \in {queue[i] : i \in 1..Len(queue)}
           \/ armed \/ ackDue \/ setupDone

(* node_deinit after a stop() that returned ESP_RMAKER_OK, with no start() *)
(* since, is never refused as "still running".                             *)
DeinitAfterStop == ~refused

(* Once a stop has ended the gate is closed.                               *)
GateClosedWhenStopped == AtRest /\ trackers.state = "STOPPED" => ~gate

(* No retry of the cloud setup is left when the subsystems are taken down. *)
RetriesStopped == pc[App] = "teardown" => ~armed

(* A started SDK has a worker.                                             *)
StartedHasWorker == AtRest /\ trackers.state = "STARTED" => pc[Worker] # "none"
=============================================================================
