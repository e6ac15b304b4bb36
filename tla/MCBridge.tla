------------------------------ MODULE MCBridge ------------------------------
(***************************************************************************)
(* The node itself and one slot, which two children may use in turn.  A    *)
(* device comes and goes: what it brought to a document goes with it.      *)
(*                                                                         *)
(* box says which bounds a behaviour keeps to.  In the wide box are both   *)
(* children and the faults, WideCfg configurations of each node and        *)
(* WideCalls calls.  In the deep one are all MaxCfg configurations, so     *)
(* that a document returns to an earlier one, in MaxCalls calls, with the  *)
(* child OnlyChild and no fault.                                           *)
(***************************************************************************)
EXTENDS Bridge

CONSTANTS OnlyChild, WideCfg, WideCalls

VARIABLE box

DeviceComesAndGoes == [c \in 1 .. MaxCfg |-> c % 2]

InWide == /\ nreq + commits + (IF app.pc = "request" THEN 1 ELSE 0) <= WideCalls
          /\ \A n \in Nodes : slots[n].cfg <= WideCfg
InDeep == faults = 0 /\ \A n \in Nodes : slots[n].id \in {"self", OnlyChild}

BridgeInit == box \in {"wide", "deep"} /\ Init
BridgeNext == Next /\ (IF box = "wide" THEN InWide' ELSE InDeep') /\ UNCHANGED box
BridgeSpec == BridgeInit /\ [][BridgeNext]_<<box, vars>>
=============================================================================
