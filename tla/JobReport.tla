----------------------------- MODULE JobReport -----------------------------
(***************************************************************************)
(* What the OTA status manager promises about a job execution: the cloud's *)
(* record of the execution ends in a status the device really decided on,  *)
(* it never changes once it has ended, and every decision is settled: the  *)
(* record ends, by that decision or by another, or the cloud drops it.     *)
(***************************************************************************)
EXTENDS FiniteSets

CONSTANTS Jobs, Terminal

VARIABLES
    verdicts,   \* verdicts[j]: final statuses the device has decided for j
    exec        \* exec[j]: the cloud's record of the execution

vars == <<verdicts, exec>>

Ended(j) == exec[j] \in Terminal \cup {"GONE"}

Init == /\ verdicts = [j \in Jobs |-> {}]
        /\ exec = [j \in Jobs |-> "QUEUED"]

Decide(j) == /\ \E s \in Terminal : verdicts' = [verdicts EXCEPT ![j] = @ \cup {s}]
             /\ UNCHANGED exec

Progress(j) == /\ ~Ended(j)
               /\ exec' = [exec EXCEPT ![j] = "IN_PROGRESS"]
               /\ UNCHANGED verdicts

Conclude(j) == /\ ~Ended(j)
               /\ \E s \in verdicts[j] : exec' = [exec EXCEPT ![j] = s]
               /\ UNCHANGED verdicts

Drop(j) == /\ ~Ended(j)
           /\ exec' = [exec EXCEPT ![j] = "GONE"]
           /\ UNCHANGED verdicts

Next == \E j \in Jobs : Decide(j) \/ Progress(j) \/ Conclude(j) \/ Drop(j)

Spec == Init /\ [][Next]_vars
=============================================================================
