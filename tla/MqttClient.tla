----------------------------- MODULE MqttClient -----------------------------
(***************************************************************************)
(* The MQTT client over coreMQTT-Agent (osal_mqtt_core_impl.c), with its   *)
(* subscription list (osal_mqtt_subscription_manager.c) and command pool   *)
(* (core_agent_command_pool.c).  The core connects and disconnects it and  *)
(* waits for its event bits; other tasks publish, subscribe, unsubscribe   *)
(* and force a reconnection; the agent task serves the commands, reports   *)
(* their completion and restores a lost connection.                        *)
(*                                                                         *)
(* One step is one access to a variable another task can see.  The agent   *)
(* library, the transport and the broker are external: a command is sent   *)
(* or fails, its acknowledgement comes unless the connection breaks first, *)
(* and the broker keeps the subscriptions of a persistent session until it *)
(* drops the session.                                                      *)
(***************************************************************************)
EXTENDS Integers, FiniteSets, Sequences, Functions

CONSTANTS
    Tasks,      \* tasks that publish and subscribe
    Topics,     \* topic filters
    MaxSubs,    \* OSAL_MQTT_MAX_SUBSCRIPTIONS
    PoolSize,   \* CONFIG_MQTT_AGENT_COMMAND_POOL_SIZE, also the length of the queue
    MaxOps,     \* bound: operations the tasks start
    MaxCalls,   \* bound: connects, disconnects and forced reconnections
    MaxBreaks   \* bound: lost connections, refused and dropped by the broker, and full pools

VARIABLES
    keep, alive,       \* should_keep_agent_task_alive, agent_task_is_alive
    xIsConnected,
    xCleanSession,
    wantClean,         \* conn_params->clean_session
    bits,              \* the client bits of the event group: "up" or "down"
    list,              \* pxSubscriptionList
    xCommandQueue,     \* commands: operations, and Disconnect
    pending,           \* operations sent and not acknowledged
    agent,             \* where the agent task is
    core,              \* where the start or stop task is
    op,                \* op[i]: the i-th operation
    task,              \* task[t]: the operation t is in, and where
    link,              \* the TLS connection is open
    session,           \* the broker: it has a session of this client
    subs,              \* the broker: topics subscribed in that session
    calls, breaks,     \* steps counted against MaxCalls and MaxBreaks
    believed,          \* history: topics whose last SUBACK since the connection reported success
    unsure,            \* history: listed topics whose SUBSCRIBE failed or was cancelled
    orphans,           \* history: operations queued when their connection was no longer served
    skipped            \* history: connect() found an agent that was told to exit

client   == <<keep, alive, xIsConnected, xCleanSession, bits>>
broker   == <<link, session, subs>>
hist     == <<believed, unsure, orphans, skipped>>
mqttVars == <<client, wantClean, list, xCommandQueue, pending, agent, core, op, task, broker,
              calls, breaks, hist>>

Disconnect == 0
Ops     == 1..MaxOps
OpKinds == {"pub", "sub", "unsub"}

-----------------------------------------------------------------------------
(* The states of an operation: not begun, begun, refused, or entered in    *)
(* the command queue (accepted), sent, denied by the broker, and completed *)
(* with its acknowledgement (ok) or an error (failed).                     *)
Fresh == [kind |-> "pub", topic |-> CHOOSE t \in Topics : TRUE, st |-> "new"]
Free  == [op |-> 0, at |-> "idle", added |-> FALSE]

(* Agent_GetCommand and Agent_MessageSend: the queue holds every command   *)
(* of the pool; a command leaves the pool until it is concluded.           *)
InUse   == Len(xCommandQueue) + Len(pending)
PoolFree == InUse < PoolSize

(* prvOnCompleteCommandCallback: what the event loop learns of operations. *)
Concluded(done, status) == [i \in Ops |-> IF i \in done THEN [op[i] EXCEPT !.st = status] ELSE op[i]]

SubTopics(done) == {op[i].topic : i \in {j \in done : op[j].kind = "sub"}}

Queued == Range(xCommandQueue) \ {Disconnect}

(* Mutant of CancelAll: only the queue is cancelled, as if no command were *)
(* waiting for its acknowledgement.                                        *)
CancelQueueOnly ==
    /\ op' = Concluded(Queued, "failed")
    /\ xCommandQueue' = <<>>
    /\ unsure' = unsure \cup (SubTopics(Queued) \cap list)
    /\ UNCHANGED pending

(* MQTTAgent_CancelAll (external): every command completes with an error.  *)
CancelAll ==
    LET done == Queued \cup Range(pending)
    IN  /\ op' = Concluded(done, "failed")
        /\ xCommandQueue' = <<>> /\ pending' = <<>>
        /\ unsure' = unsure \cup (SubTopics(done) \cap list)

-----------------------------------------------------------------------------
(* The core: start and stop tasks.  connect() starts the agent unless one  *)
(* says it is alive, and the start task waits for the connected bit.       *)
Connect ==
    /\ core = "stopped" /\ calls < MaxCalls
    /\ IF alive THEN /\ skipped' = (skipped \/ ~keep)
                     /\ UNCHANGED <<keep, agent>>
       ELSE keep' = TRUE /\ agent' = "new" /\ UNCHANGED skipped
    /\ core' = "start" /\ calls' = calls + 1
    /\ UNCHANGED <<alive, xIsConnected, xCleanSession, wantClean, bits, list, xCommandQueue, pending,
                   op, task, broker, breaks, believed, unsure, orphans>>

WaitConnected ==
    /\ core = "start" /\ bits = "up"
    /\ core' = "started"
    /\ UNCHANGED <<client, wantClean, list, xCommandQueue, pending, agent, op, task, broker, calls,
                   breaks, hist>>

(* disconnect(): the flag, then the command.  A refused command leaves the *)
(* core in its error state.                                                *)
DisconnectFlag ==
    /\ core = "started" /\ calls < MaxCalls
    /\ keep' = FALSE
    /\ core' = "stop" /\ calls' = calls + 1
    /\ UNCHANGED <<alive, xIsConnected, xCleanSession, bits, wantClean, list, xCommandQueue, pending,
                   agent, op, task, broker, breaks, hist>>

DisconnectSend ==
    /\ core = "stop"
    /\ IF PoolFree THEN /\ xCommandQueue' = Append(xCommandQueue, Disconnect)
                        /\ core' = "wait"
       ELSE core' = "error" /\ UNCHANGED xCommandQueue
    /\ UNCHANGED <<client, wantClean, list, pending, agent, op, task, broker, calls, breaks, hist>>

WaitDisconnected ==
    /\ core = "wait" /\ bits = "down"
    /\ core' = "stopped"
    /\ UNCHANGED <<client, wantClean, list, xCommandQueue, pending, agent, op, task, broker, calls,
                   breaks, hist>>

(* force_reconnect(), called by a cloud event when the primary group       *)
(* changes: the next connection starts a clean session.                    *)
ForceReconnect ==
    /\ core = "started" /\ calls < MaxCalls
    /\ xCleanSession' = TRUE
    /\ xCommandQueue' = IF PoolFree THEN Append(xCommandQueue, Disconnect) ELSE xCommandQueue
    /\ calls' = calls + 1
    /\ UNCHANGED <<keep, alive, xIsConnected, bits, wantClean, list, pending, agent, core, op, task,
                   broker, breaks, hist>>

-----------------------------------------------------------------------------
(* publish(), subscribe() and unsubscribe() refuse without a connection.   *)
Begin(t) ==
    /\ task[t].at = "idle"
    /\ \E i \in Ops, k \in OpKinds, f \in Topics :
          /\ op[i].st = "new" /\ \A j \in 1..(i - 1) : op[j].st # "new"
          /\ IF xIsConnected
             THEN /\ op' = [op EXCEPT ![i] = [kind |-> k, topic |-> f, st |-> "begun"]]
                  /\ task' = [task EXCEPT ![t] = [op |-> i, added |-> FALSE,
                                                  at |-> IF k = "sub" THEN "list" ELSE "send"]]
             ELSE /\ op' = [op EXCEPT ![i] = [kind |-> k, topic |-> f, st |-> "refused"]]
                  /\ UNCHANGED task
    /\ UNCHANGED <<client, wantClean, list, xCommandQueue, pending, agent, core, broker, calls,
                   breaks, hist>>

(* osal_mqtt_subscription_add_ex: an entry that exists is kept; a full     *)
(* list refuses the subscription.                                          *)
AddEntry(t) ==
    LET i == task[t].op
    IN  /\ task[t].at = "list"
        /\ \/ /\ op[i].topic \in list
              /\ task' = [task EXCEPT ![t].at = "send"]
              /\ UNCHANGED <<list, op>>
           \/ /\ op[i].topic \notin list /\ Cardinality(list) < MaxSubs
              /\ list' = list \cup {op[i].topic}
              /\ task' = [task EXCEPT ![t].at = "send", ![t].added = TRUE]
              /\ UNCHANGED op
           \/ /\ op[i].topic \notin list /\ Cardinality(list) = MaxSubs
              /\ op' = [op EXCEPT ![i].st = "refused"]
              /\ task' = [task EXCEPT ![t] = Free]
              /\ UNCHANGED list
        /\ UNCHANGED <<client, wantClean, xCommandQueue, pending, agent, core, broker, calls, breaks,
                       hist>>

(* MQTTAgent_Publish, _Subscribe and _Unsubscribe (external) queue the     *)
(* command.  A refused subscribe goes on to take its entry back, an        *)
(* accepted unsubscribe to remove the topic.                               *)
Send(t) ==
    LET i == task[t].op
    IN  /\ task[t].at = "send"
        /\ \/ /\ PoolFree
              /\ xCommandQueue' = Append(xCommandQueue, i)
              /\ op' = [op EXCEPT ![i].st = "accepted"]
              /\ orphans' = IF xIsConnected /\ agent \in {"loop", "command"} THEN orphans
                            ELSE orphans \cup {i}
              /\ task' = [task EXCEPT ![t] = IF op[i].kind = "unsub" THEN [@ EXCEPT !.at = "remove"]
                                             ELSE Free]
              /\ UNCHANGED breaks
           \/ /\ ~PoolFree \/ breaks < MaxBreaks
              /\ breaks' = IF PoolFree THEN breaks + 1 ELSE breaks
              /\ op' = [op EXCEPT ![i].st = "refused"]
              /\ task' = [task EXCEPT ![t] = IF @.added THEN [@ EXCEPT !.at = "undo"] ELSE Free]
              /\ UNCHANGED <<xCommandQueue, orphans>>
        /\ UNCHANGED <<client, wantClean, list, pending, agent, core, broker, calls, believed, unsure,
                       skipped>>

(* osal_mqtt_subscription_remove_entry and _remove                         *)
RemoveEntry(t) ==
    LET f == op[task[t].op].topic
    IN  /\ task[t].at \in {"undo", "remove"}
        /\ list' = list \ {f}
        /\ unsure' = unsure \ {f}
        /\ believed' = believed \ {f}
        /\ task' = [task EXCEPT ![t] = Free]
        /\ UNCHANGED <<client, wantClean, xCommandQueue, pending, agent, core, op, broker, calls,
                       breaks, orphans, skipped>>

-----------------------------------------------------------------------------
(* prvCoreMqttAgentTask: the task begins ...                               *)
AgentStart ==
    /\ agent = "new"
    /\ xCleanSession' = wantClean
    /\ alive' = TRUE
    /\ agent' = "loop"
    /\ UNCHANGED <<keep, xIsConnected, bits, wantClean, list, xCommandQueue, pending, core, op, task,
                   broker, calls, breaks, hist>>

(* ... and, as long as it is wanted, runs the command loop or reconnects.  *)
AgentLoop ==
    /\ agent = "loop"
    /\ agent' = IF ~keep THEN "exit" ELSE IF xIsConnected THEN "command" ELSE "connect"
    /\ UNCHANGED <<client, wantClean, list, xCommandQueue, pending, core, op, task, broker, calls,
                   breaks, hist>>

(* MQTTAgent_CommandLoop (external).  A command is sent, and the broker    *)
(* acts on it ...                                                          *)
Serve ==
    /\ agent = "command" /\ xCommandQueue # <<>> /\ link
    /\ xCommandQueue' = Tail(xCommandQueue)
    /\ IF Head(xCommandQueue) = Disconnect
       THEN agent' = "drop" /\ UNCHANGED <<pending, subs, op, breaks>>
       ELSE LET i == Head(xCommandQueue)
            IN  /\ pending' = Append(pending, i)
                /\ \/ /\ op' = [op EXCEPT ![i].st = "sent"]
                      /\ subs' = CASE op[i].kind = "sub"   -> subs \cup {op[i].topic}
                                   [] op[i].kind = "unsub" -> subs \ {op[i].topic}
                                   [] OTHER -> subs
                      /\ UNCHANGED breaks
                   \/ /\ op[i].kind = "sub" /\ breaks < MaxBreaks
                      /\ op' = [op EXCEPT ![i].st = "denied"]
                      /\ breaks' = breaks + 1
                      /\ UNCHANGED subs
                /\ UNCHANGED agent
    /\ UNCHANGED <<client, wantClean, list, core, task, link, session, calls, hist>>

(* ... and answers in order ...                                            *)
Ack ==
    /\ agent = "command" /\ pending # <<>>
    /\ pending' = Tail(pending)
    /\ LET i == Head(pending)
       IN  IF op[i].st = "sent"
           THEN /\ op' = Concluded({i}, "ok")
                /\ believed' = CASE op[i].kind = "sub"   -> believed \cup {op[i].topic}
                                 [] op[i].kind = "unsub" -> believed \ {op[i].topic}
                                 [] OTHER -> believed
                /\ unsure' = unsure \ SubTopics({i})
           ELSE /\ op' = Concluded({i}, "failed")
                /\ believed' = believed \ {op[i].topic}
                /\ unsure' = unsure \cup (SubTopics({i}) \cap list)
    /\ UNCHANGED <<client, wantClean, list, xCommandQueue, agent, core, task, broker, calls, breaks,
                   orphans, skipped>>

(* ... unless the connection breaks, or was none: an agent that starts     *)
(* while xIsConnected is still set finds a closed transport.               *)
Break ==
    /\ agent = "command"
    /\ \/ ~link /\ UNCHANGED breaks
       \/ link /\ breaks < MaxBreaks /\ breaks' = breaks + 1
    /\ agent' = "drop"
    /\ UNCHANGED <<client, wantClean, list, xCommandQueue, pending, core, op, task, broker, calls,
                   hist>>

(* The transport is closed, the flag cleared, the bits set and the event   *)
(* posted ...                                                              *)
Drop ==
    /\ agent = "drop"
    /\ link' = FALSE
    /\ xIsConnected' = FALSE /\ bits' = "down"
    /\ agent' = "cancel"
    /\ believed' = {}
    /\ UNCHANGED <<keep, alive, xCleanSession, wantClean, list, xCommandQueue, pending, core, op, task,
                   session, subs, calls, breaks, unsure, orphans, skipped>>

(* ... and then the commands are cancelled.                                *)
DropCancel ==
    /\ agent = "cancel"
    /\ CancelAll
    /\ agent' = "loop"
    /\ UNCHANGED <<client, wantClean, list, core, task, broker, calls, breaks, believed, orphans,
                   skipped>>

(* The reconnect loop: an attempt fails, and after a delay the next one is *)
(* made as long as the task is wanted.                                     *)
ConnectFails ==
    /\ agent = "connect" /\ breaks < MaxBreaks
    /\ breaks' = breaks + 1
    /\ agent' = IF keep THEN "connect" ELSE "exit"
    /\ UNCHANGED <<client, wantClean, list, xCommandQueue, pending, core, op, task, broker, calls,
                   hist>>

(* Operations begun under the connection before and not yet queued.        *)
Crossing == {task[t].op : t \in Tasks} \ {0}

(* Mutant of ConnectAccepted: SUBACKs are simulated for every connection   *)
(* that asks for the old session, whether the broker has it or not.        *)
ResumeUnseen ==
    /\ agent = "connect"
    /\ link' = TRUE /\ session' = TRUE
    /\ subs' = IF session /\ ~xCleanSession THEN subs ELSE {}
    /\ list' = IF ~xCleanSession THEN list ELSE {}
    /\ believed' = IF ~xCleanSession THEN list ELSE {}
    /\ unsure' = IF ~xCleanSession THEN unsure ELSE {}
    /\ orphans' = orphans \cup Crossing
    /\ agent' = "up"
    /\ UNCHANGED <<client, wantClean, xCommandQueue, pending, core, op, task, calls, breaks, skipped>>

(* prvCoreMqttAgentConnect: with a session present a SUBACK is simulated   *)
(* for every entry of the list, without one the list is cleared (the       *)
(* default, OSAL_MQTT_RESUBSCRIBE_ON_CLEAN_SESSION off).  The assignment   *)
(* that should reset xCleanSession sets the parameter of that name.        *)
ConnectAccepted ==
    LET present == session /\ ~xCleanSession
    IN  /\ agent = "connect"
        /\ link' = TRUE /\ session' = TRUE
        /\ subs' = IF present THEN subs ELSE {}
        /\ list' = IF present THEN list ELSE {}
        /\ believed' = IF present THEN list ELSE {}
        /\ unsure' = IF present THEN unsure ELSE {}
        /\ orphans' = orphans \cup Crossing
        /\ agent' = "up"
        /\ UNCHANGED <<client, wantClean, xCommandQueue, pending, core, op, task, calls, breaks,
                       skipped>>

ConnectUp ==
    /\ agent = "up"
    /\ xIsConnected' = TRUE /\ bits' = "up"
    /\ agent' = IF keep THEN "loop" ELSE "exit"
    /\ UNCHANGED <<keep, alive, xCleanSession, wantClean, list, xCommandQueue, pending, core, op, task,
                   broker, calls, breaks, hist>>

(* The end of the task: the commands are cancelled once more.              *)
AgentExit ==
    /\ agent = "exit"
    /\ link' = FALSE
    /\ CancelAll
    /\ agent' = "exited"
    /\ UNCHANGED <<client, wantClean, list, core, task, session, subs, calls, breaks, believed, orphans,
                   skipped>>

AgentEnd ==
    /\ agent = "exited"
    /\ alive' = FALSE
    /\ agent' = "none"
    /\ UNCHANGED <<keep, xIsConnected, xCleanSession, bits, wantClean, list, xCommandQueue, pending,
                   core, op, task, broker, calls, breaks, hist>>

(* The broker (external) drops the session of a client that is away.       *)
SessionExpires ==
    /\ agent = "connect" /\ session /\ breaks < MaxBreaks
    /\ session' = FALSE /\ subs' = {}
    /\ breaks' = breaks + 1
    /\ UNCHANGED <<client, wantClean, list, xCommandQueue, pending, agent, core, op, task, link,
                   calls, hist>>

-----------------------------------------------------------------------------
MqttInit ==
    /\ keep = FALSE /\ alive = FALSE /\ xIsConnected = FALSE /\ xCleanSession = FALSE
    /\ wantClean \in BOOLEAN
    /\ bits = "down"
    /\ list = {} /\ xCommandQueue = <<>> /\ pending = <<>>
    /\ agent = "none" /\ core = "stopped"
    /\ op = [i \in Ops |-> Fresh]
    /\ task = [t \in Tasks |-> Free]
    /\ link = FALSE /\ session = FALSE /\ subs = {}
    /\ calls = 0 /\ breaks = 0
    /\ believed = {} /\ unsure = {} /\ orphans = {} /\ skipped = FALSE

Core == Connect \/ WaitConnected \/ DisconnectFlag \/ DisconnectSend \/ WaitDisconnected

Task(t) == Begin(t) \/ AddEntry(t) \/ Send(t) \/ RemoveEntry(t)

Agent == \/ AgentStart \/ AgentLoop \/ Serve \/ Ack \/ Drop \/ DropCancel
         \/ ConnectAccepted \/ ConnectUp \/ AgentExit \/ AgentEnd

MqttNext == \/ Core \/ ForceReconnect \/ Agent \/ Break \/ ConnectFails \/ SessionExpires
            \/ \E t \in Tasks : Task(t)

MqttSpec == MqttInit /\ [][MqttNext]_mqttVars

(* The tasks are scheduled; the broker answers what it received and        *)
(* accepts a connection in the end (the refusals are finite).              *)
Fairness ==
    /\ WF_mqttVars(\/ AgentStart \/ AgentLoop \/ Serve \/ (~link /\ Break) \/ Drop \/ DropCancel
                   \/ ConnectUp \/ AgentExit \/ AgentEnd)
    /\ WF_mqttVars(ConnectAccepted)
    /\ WF_mqttVars(Ack)
    /\ WF_mqttVars(WaitConnected \/ DisconnectSend \/ WaitDisconnected)
    /\ \A t \in Tasks : WF_mqttVars(AddEntry(t) \/ Send(t) \/ RemoveEntry(t))

MqttFairSpec == MqttSpec /\ Fairness

-----------------------------------------------------------------------------
MqttTypeOK ==
    /\ {keep, alive, xIsConnected, xCleanSession, wantClean, link, session, skipped} \subseteq BOOLEAN
    /\ bits \in {"up", "down"}
    /\ list \subseteq Topics /\ subs \subseteq Topics /\ believed \subseteq Topics
    /\ unsure \subseteq Topics
    /\ xCommandQueue \in Seq(0..MaxOps) /\ pending \in Seq(Ops) /\ InUse <= PoolSize
    /\ agent \in {"none", "new", "loop", "command", "drop", "cancel", "connect", "up", "exit",
                  "exited"}
    /\ core \in {"stopped", "start", "started", "stop", "wait", "error"}
    /\ op \in [Ops -> [kind : OpKinds, topic : Topics,
                       st : {"new", "begun", "accepted", "sent", "denied", "refused", "ok", "failed"}]]
    /\ task \in [Tasks -> [op : 0..MaxOps, at : {"idle", "list", "send", "undo", "remove"},
                           added : BOOLEAN]]
    /\ calls \in 0..MaxCalls /\ breaks \in 0..MaxBreaks /\ orphans \subseteq Ops

(* Topics with a SUBSCRIBE or UNSUBSCRIBE on its way.                      *)
Underway == {op[i].topic : i \in {j \in Ops : op[j].kind # "pub" /\ op[j].st \in {"accepted", "sent", "denied"}}}

(* What the services take for subscribed is: a topic whose last SUBACK,    *)
(* real or simulated, was good since the connection came up is subscribed  *)
(* at the broker and has its entry in the list, whatever the connection,   *)
(* the broker's session and the core did meanwhile.  Excepted are entries  *)
(* whose SUBSCRIBE failed (they stay in the list, and a resumed session    *)
(* simulates their SUBACK) and the commands that crossed a reconnection.   *)
(* Tasks are to subscribe and unsubscribe different topics: unsubscribe()  *)
(* takes the entries of its topic out after its command is queued, those   *)
(* of another task's later SUBSCRIBE with them.                            *)
BelievedIsSubscribed ==
    (\A t \in Tasks : task[t].at = "idle") =>
        \A f \in believed \ (Underway \cup SubTopics(orphans)) : f \in list /\ (f \in subs \/ f \in unsure)

(* Every operation the client accepted completes, with an acknowledgement  *)
(* or with an error when the connection is lost or the agent ends: no      *)
(* caller waits for an event that nobody will post.  Excepted are those    *)
(* entered in the queue when the connection they were checked under was    *)
(* gone.                                                                   *)
AcceptedCompletes ==
    \A i \in Ops : op[i].st = "accepted" /\ i \notin orphans ~> op[i].st \in {"ok", "failed"}

(* "Starts the connection attempts to the MQTT broker"                     *)
(* (osal_mqtt_core_impl.c, connect): the start task does not wait for ever *)
(* for the connected bit.  It does when connect() finds the agent of the   *)
(* lifecycle before on its way out.                                        *)
StartConnects == core = "start" ~> core = "started"

(* "Reset the clean session flag to the configured default for future      *)
(* reconnect attempts" (osal_mqtt_core_impl.c:799).                        *)
CleanOnlyOnce == agent = "loop" /\ xIsConnected => xCleanSession = wantClean
=============================================================================
