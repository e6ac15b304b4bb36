------------------------------- MODULE MCCore -------------------------------
(***************************************************************************)
(* The lifecycle of the node, its claiming before that and the image       *)
(* download, checked side by side: part says which one a behaviour is      *)
(* about, the others stay as they began.  The first two share the          *)
(* initialisation of the node, of which each has its own view.             *)
(*                                                                         *)
(* core: a work queue of three entries, seven calls.  claim: two node ids, *)
(* two keys, requests and answers in two pieces, seven commands of the     *)
(* app, two failed writes or power cuts.  download: two downloads of three *)
(* images, whose file types differ, and one fault; run work_queue has the  *)
(* liveness, with one image.                                               *)
(***************************************************************************)
EXTENDS Core, OtaImage, TLC

CONSTANTS Ids, Keys, Pieces, MaxCmds, MaxClaimFaults

VARIABLES
    part,
    id, key, cert, host, ctx, state, cursor, csr, lock, ep, group, bits, registered, app, session,
    perform, claimed, cmds, claimFaults

Claiming == INSTANCE Claim WITH faults <- claimFaults, MaxFaults <- MaxClaimFaults

ASSUME ClaimAssumption == Claiming!ClaimConstants

claimVars == <<id, key, cert, host, ctx, state, cursor, csr, lock, ep, group, bits, registered,
               app, session, perform, claimed, cmds, claimFaults>>

LifeInit == part \in {"core", "claim", "download"} /\ Init /\ Claiming!Init /\ DownloadInit

LifeNext ==
    \/ part = "core" /\ Next /\ UNCHANGED <<part, claimVars, downloadVars>>
    \/ part = "claim" /\ Claiming!Next /\ UNCHANGED <<part, vars, downloadVars>>
    \/ part = "download" /\ DownloadNext /\ UNCHANGED <<part, vars, claimVars>>

LifeSpec == LifeInit /\ [][LifeNext]_<<part, vars, claimVars, downloadVars>>

-----------------------------------------------------------------------------
(* A node that claiming reports as claimed has the id, key, certificate    *)
(* and host of one and the same attempt (claim.c, handle_verify_response). *)
ClaimedIsWhole == Claiming!ClaimedIsWhole

(* No command runs on a context that claiming has freed (claim.c,          *)
(* esp_rmaker_claim_data_free).                                            *)
CommandHasContext == Claiming!CommandHasContext
=============================================================================
