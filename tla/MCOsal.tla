------------------------------- MODULE MCOsal -------------------------------
(***************************************************************************)
(* The services of the OSAL, checked side by side: part says which one a   *)
(* behaviour is about, the others stay in their initial states.            *)
(*                                                                         *)
(* timers: one tick is 10 ms and a timer period at most three ticks.  The  *)
(* delays are below a tick, below a period, and up to three periods.       *)
(* client: a task subscribes, publishes and unsubscribes twice in all,     *)
(* while the connection is made, lost, forced to reconnect and ended.      *)
(***************************************************************************)
EXTENDS TimerChain, MqttClient

VARIABLE part

allVars == <<part, chainVars, mqttVars>>

OsalInit ==
    /\ part \in {"timers", "client"}
    /\ ChainInit /\ MqttInit
    /\ part # "timers" => clock = 0 /\ ~periodic /\ total = 1
    /\ part # "client" => ~wantClean

OsalNext ==
    \/ part = "timers" /\ ChainNext /\ UNCHANGED <<part, mqttVars>>
    \/ part = "client" /\ MqttNext /\ UNCHANGED <<part, chainVars>>

OsalSpec == OsalInit /\ [][OsalNext]_allVars /\ Fairness
=============================================================================
