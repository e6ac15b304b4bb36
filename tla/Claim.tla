-------------------------------- MODULE Claim --------------------------------
(***************************************************************************)
(* Assisted claiming (esp_rmaker_neo/src/claim/claim.c, claim_rules.c, and *)
(* the pre-provisioning calls of esp_rmaker_core.c): over a provisioning   *)
(* session a phone app fetches a signing request from the node and brings  *)
(* back its certificate.                                                   *)
(*                                                                         *)
(* The protocomm task runs one command of the app at a time, holding       *)
(* claim_ctx_lock; the application task waits for the verdict in perform   *)
(* and then releases the context, while the session may still be up; the   *)
(* event loop reports the end of the session.  Every write to the factory  *)
(* partition is a step and may fail, the power may fail between any two,   *)
(* and a reply may be lost.  A certificate is the pair of the node id and  *)
(* the key it was issued for; requests and responses are counted in        *)
(* fragments.  The events posted for the application are left out.         *)
(***************************************************************************)
EXTENDS Naturals

CONSTANTS
    Ids,       \* node ids the cloud may assign
    Keys,      \* keys the generator may produce
    None,      \* nothing stored
    Pieces,    \* fragments of the verify request and of its response
    MaxCmds,   \* bound: commands of the app
    MaxFaults  \* bound: failed writes and power cuts

(* What is assumed of the constants.                                       *)
ClaimConstants == /\ Pieces \in Nat \ {0} /\ MaxCmds \in Nat /\ MaxFaults \in Nat
                  /\ None \notin [id : Ids, key : Keys]

VARIABLES
    id, key, cert, host,   \* the factory partition
    ctx,                   \* claim_ctx and what it points to
    state,                 \* claim_data->state
    cursor,                \* claim_data->payload_offset
    csr,                   \* the id in the signing request of claim_data
    lock,                  \* claim_ctx_lock
    ep,                    \* where the command of the endpoint is
    group, bits,           \* claim_event_group exists; the bits set in it
    registered,            \* __claim_event_handler is registered
    app,                   \* the app: fragments it has of the request, and the certificate for it
    session,               \* the provisioning session
    perform,               \* where esp_rmaker_assisted_claim_perform is
    claimed,               \* history: perform has returned success, since the last erase
    cmds, faults           \* counted against MaxCmds and MaxFaults

part     == <<id, key, cert, host>>
claim    == <<ctx, state, cursor, csr>>
endpoint == <<lock, ep>>
events   == <<group, bits, registered>>
vars     == <<part, claim, endpoint, events, claimed, app, session, perform, cmds, faults>>

(* The values are ordered as in the code.                                  *)
PK_GENERATED == 1
INIT == 2
INIT_DONE == 3
VERIFY_PENDING == 4
VERIFY_DONE == 5

NoApp == [have |-> 0, cert |-> None]

-----------------------------------------------------------------------------
(* claim_rules_check_command                                               *)

(* Mutant of Allowed: a completed claim can be started again.              *)
AllowedAnyTime(cmd) ==
    CASE cmd = "start"  -> state >= PK_GENERATED
      [] cmd = "init"   -> state \in {INIT, INIT_DONE}
      [] cmd = "verify" -> state = VERIFY_PENDING
      [] cmd = "abort"  -> TRUE

Allowed(cmd) ==
    /\ state # VERIFY_DONE
    /\ CASE cmd = "start"  -> state >= PK_GENERATED
         [] cmd = "init"   -> state \in {INIT, INIT_DONE}
         [] cmd = "verify" -> state = VERIFY_PENDING
         [] cmd = "abort"  -> TRUE

-----------------------------------------------------------------------------
(* A command arrives: the handler takes the lock and looks for a context.  *)
Command(cmd, piece) ==
    /\ session = "up" /\ ep.at = "idle" /\ lock = "free" /\ cmds < MaxCmds
    /\ cmd = "verify" => app.cert # None
    /\ cmd # "verify" => piece = 0
    /\ cmds' = cmds + 1
    /\ IF ctx # "none" /\ Allowed(cmd)
       THEN lock' = "endpoint" /\ ep' = [at |-> cmd, piece |-> piece]
       ELSE UNCHANGED endpoint
    /\ UNCHANGED <<part, claim, events, claimed, app, session, perform, faults>>

Finish == lock' = "free" /\ ep' = [at |-> "idle", piece |-> 0]
Goto(step) == lock' = lock /\ ep' = [ep EXCEPT !.at = step]

(* __handle_start                                                          *)
Start ==
    /\ ep.at = "start"
    /\ state' = INIT /\ cursor' = 0
    /\ app' = NoApp
    /\ Finish
    /\ UNCHANGED <<part, ctx, csr, events, claimed, session, perform, cmds, faults>>

(* __handle_init and __handle_claim_init_response: the first command       *)
(* brings the node id, which is stored before the request is signed.       *)
StoreId ==
    /\ ep.at = "init" /\ state = INIT
    /\ \/ /\ \E i \in Ids : id' = i
          /\ Goto("sign") /\ faults' = faults
       \/ /\ faults < MaxFaults /\ faults' = faults + 1
          /\ Finish /\ id' = id
    /\ UNCHANGED <<key, cert, host, claim, events, claimed, app, session, perform, cmds>>

Sign ==
    /\ ep.at = "sign"
    /\ \/ /\ csr' = id /\ cursor' = 0 /\ state' = INIT_DONE
          /\ Goto("init") /\ faults' = faults
       \/ /\ faults < MaxFaults /\ faults' = faults + 1
          /\ Finish /\ UNCHANGED <<csr, cursor, state>>
    /\ UNCHANGED <<part, ctx, events, claimed, app, session, perform, cmds>>

(* Every init command is answered with the next fragment.  When the app    *)
(* has them all the cloud issues the certificate they ask for.             *)
SendPiece ==
    /\ ep.at = "init" /\ state = INIT_DONE
    /\ IF cursor + 1 = Pieces
       THEN cursor' = 0 /\ state' = VERIFY_PENDING
       ELSE cursor' = cursor + 1 /\ state' = state
    /\ \/ app' = IF app.have = cursor
                 THEN [have |-> cursor + 1,
                       cert |-> IF cursor + 1 = Pieces THEN [id |-> csr, key |-> key] ELSE None]
                 ELSE app
       \/ app' = app
    /\ Finish
    /\ UNCHANGED <<part, ctx, csr, events, claimed, session, perform, cmds, faults>>

(* __handle_verify: a fragment is the first or continues the last one.     *)
InSequence(piece) == piece \in {0, cursor}

Receive ==
    /\ ep.at = "verify"
    /\ IF ~InSequence(ep.piece)
       THEN Finish /\ cursor' = cursor
       ELSE /\ cursor' = ep.piece + 1
            /\ IF ep.piece + 1 = Pieces THEN Goto("certificate") ELSE Finish
    /\ UNCHANGED <<part, ctx, state, csr, events, claimed, app, session, perform, cmds, faults>>

(* __handle_claim_verify_response stores the certificate, then the host.   *)
(* The response may be refused, and either write may fail.                 *)
StoreCertificate ==
    /\ ep.at = "certificate"
    /\ \/ cert' = app.cert /\ Goto("host") /\ faults' = faults
       \/ cert' = cert /\ faults < MaxFaults /\ faults' = faults + 1 /\ Finish
    /\ UNCHANGED <<id, key, host, claim, events, claimed, app, session, perform, cmds>>

StoreHost ==
    /\ ep.at = "host"
    /\ \/ /\ host' = TRUE /\ state' = VERIFY_DONE
          /\ bits' = bits \cup {"done"}
          /\ Finish /\ faults' = faults
       \/ /\ faults < MaxFaults /\ faults' = faults + 1
          /\ Finish /\ UNCHANGED <<host, state, bits>>
    /\ UNCHANGED <<id, key, cert, ctx, cursor, csr, group, registered, claimed, app, session, perform, cmds>>

(* __handle_abort                                                          *)
Abort ==
    /\ ep.at = "abort"
    /\ cursor' = 0 /\ state' = PK_GENERATED
    /\ Finish
    /\ UNCHANGED <<part, ctx, csr, events, claimed, app, session, perform, cmds, faults>>

-----------------------------------------------------------------------------
(* esp_rmaker_pre_prov_init: without a certificate claiming is set up,     *)
(* with the stored key or a new one (esp_rmaker_assisted_claim_init,       *)
(* __load_or_generate_key).  Another firmware may ask for another type of  *)
(* key, and then the stored one is replaced.                               *)
PreProvInit ==
    /\ perform = "off" /\ cert = None
    /\ \E k \in Keys : key' = k
    /\ ctx' = "live" /\ state' = PK_GENERATED /\ cursor' = 0 /\ csr' = None
    /\ group' = TRUE /\ bits' = {} /\ registered' = TRUE
    /\ app' = NoApp
    /\ perform' = "ready"
    /\ UNCHANGED <<id, cert, host, endpoint, claimed, session, cmds, faults>>

SessionStart ==
    /\ session = "none" /\ perform # "off" /\ registered
    /\ session' = "up"
    /\ UNCHANGED <<part, claim, endpoint, events, claimed, app, perform, cmds, faults>>

(* The session stops when no command is running; its end is an event.      *)
SessionStop ==
    /\ session = "up" /\ ep.at = "idle"
    /\ session' = "ended"
    /\ UNCHANGED <<part, claim, endpoint, events, claimed, app, perform, cmds, faults>>

(* __claim_event_handler                                                   *)
SessionEnded ==
    /\ session = "ended"
    /\ session' = "over"
    /\ bits' = IF registered /\ group THEN bits \cup {"abandoned"} ELSE bits
    /\ UNCHANGED <<part, claim, endpoint, group, registered, claimed, app, perform, cmds, faults>>

-----------------------------------------------------------------------------
(* esp_rmaker_assisted_claim_perform, called once a session has begun: the *)
(* state is read under the lock ...                                        *)
PerformCheck ==
    /\ perform = "ready" /\ session # "none" /\ lock = "free"
    /\ perform' = IF state <= PK_GENERATED THEN "unclaimed" ELSE "wait"
    /\ UNCHANGED <<part, claim, endpoint, events, claimed, app, session, cmds, faults>>

(* ... then a verdict is waited for ...                                    *)
PerformWait ==
    /\ perform = "wait" /\ bits # {}
    /\ perform' = IF "done" \in bits THEN "success" ELSE "failure"
    /\ UNCHANGED <<part, claim, endpoint, events, claimed, app, session, cmds, faults>>

(* Mutant of Retire: the lock is not waited for.                           *)
RetireUnlocked ==
    /\ perform \in {"success", "failure", "unclaimed"} /\ ctx = "live"
    /\ registered' = FALSE
    /\ ctx' = "none"
    /\ UNCHANGED <<part, state, cursor, csr, endpoint, group, bits, claimed, app, session, perform,
                   cmds, faults>>

(* ... the handlers are unregistered and the context is retired under the  *)
(* lock ...                                                                *)
Retire ==
    /\ perform \in {"success", "failure", "unclaimed"} /\ ctx = "live"
    /\ lock = "free"
    /\ registered' = FALSE
    /\ ctx' = "none"
    /\ UNCHANGED <<part, state, cursor, csr, endpoint, group, bits, claimed, app, session, perform,
                   cmds, faults>>

(* ... and what is left is freed.                                          *)
Release ==
    /\ perform \in {"success", "failure", "unclaimed"} /\ ctx = "none"
    /\ group' = FALSE
    /\ perform' = "off"
    /\ claimed' = (claimed \/ perform = "success")
    /\ UNCHANGED <<part, claim, endpoint, bits, registered, app, session, cmds,
                   faults>>

-----------------------------------------------------------------------------
(* Provisioning may be entered again in the same boot.                     *)
Provision ==
    /\ perform = "off" /\ session = "over"
    /\ session' = "none"
    /\ UNCHANGED <<part, claim, endpoint, events, claimed, app, perform, cmds, faults>>

PowerCut ==
    /\ faults < MaxFaults /\ faults' = faults + 1
    /\ ctx' = "none" /\ state' = 0 /\ cursor' = 0 /\ csr' = None
    /\ lock' = "free" /\ ep' = [at |-> "idle", piece |-> 0]
    /\ group' = FALSE /\ bits' = {} /\ registered' = FALSE
    /\ app' = NoApp /\ session' = "none" /\ perform' = "off"
    /\ UNCHANGED <<part, claimed, cmds>>

(* esp_rmaker_factory_part_erase_claim_data, from the console              *)
Erase ==
    /\ perform = "off" /\ cert # None
    /\ id' = None /\ key' = None /\ cert' = None /\ host' = FALSE
    /\ claimed' = FALSE
    /\ UNCHANGED <<claim, endpoint, events, app, session, perform, cmds, faults>>

-----------------------------------------------------------------------------
Init ==
    /\ id = None /\ key = None /\ cert = None /\ host = FALSE
    /\ ctx = "none" /\ state = 0 /\ cursor = 0 /\ csr = None
    /\ lock = "free" /\ ep = [at |-> "idle", piece |-> 0]
    /\ group = FALSE /\ bits = {} /\ registered = FALSE
    /\ claimed = FALSE
    /\ app = NoApp /\ session = "none" /\ perform = "off"
    /\ cmds = 0 /\ faults = 0

Endpoint == \/ Start \/ StoreId \/ Sign \/ SendPiece \/ Receive
            \/ StoreCertificate \/ StoreHost \/ Abort

Perform == PerformCheck \/ PerformWait \/ Retire \/ Release

Next == \/ \E cmd \in {"start", "init", "verify", "abort"}, p \in 0..(Pieces - 1) : Command(cmd, p)
        \/ Endpoint \/ Perform
        \/ PreProvInit \/ SessionStart \/ SessionStop \/ SessionEnded \/ Provision
        \/ PowerCut \/ Erase

Spec == Init /\ [][Next]_vars

(* Commands end, the provisioning session is stopped ("provisioning has to *)
(* stop for this function to be reached at all"), the event loop and the   *)
(* application task run.                                                   *)
Fairness == WF_vars(Endpoint) /\ WF_vars(Perform) /\ WF_vars(SessionEnded) /\ SF_vars(SessionStop)

-----------------------------------------------------------------------------
TypeOK ==
    /\ id \in Ids \cup {None} /\ key \in Keys \cup {None} /\ csr \in Ids \cup {None}
    /\ cert \in [id : Ids, key : Keys] \cup {None}
    /\ host \in BOOLEAN /\ group \in BOOLEAN /\ registered \in BOOLEAN
    /\ ctx \in {"none", "live"} /\ state \in 0..VERIFY_DONE /\ cursor \in 0..Pieces
    /\ lock \in {"free", "endpoint"}
    /\ ep \in [at : {"idle", "start", "init", "sign", "verify", "certificate", "host", "abort"},
               piece : 0..Pieces]
    /\ bits \subseteq {"done", "abandoned"} /\ claimed \in BOOLEAN
    /\ app \in [have : 0..Pieces, cert : [id : Ids, key : Keys] \cup {None}]
    /\ session \in {"none", "up", "ended", "over"}
    /\ perform \in {"off", "ready", "wait", "success", "failure", "unclaimed"}
    /\ cmds \in 0..MaxCmds /\ faults \in 0..MaxFaults

(* A claim that was reported successful left credentials that belong       *)
(* together: the certificate is for the stored node id and the stored key, *)
(* and there is a host to connect to, whatever commands follow in the      *)
(* session, whatever writes fail and wherever the power is cut.            *)
ClaimedIsWhole ==
    claimed \/ perform = "success" => cert # None /\ cert = [id |-> id, key |-> key] /\ host

(* A command never runs against a context that has been released, nor sets *)
(* a bit in a deleted event group.                                         *)
CommandHasContext == ep.at # "idle" => ctx = "live" /\ group

(* Waiting for a claim ends: in success, in failure, or without a claim.   *)
PerformEnds == perform = "ready" /\ session # "none" ~> perform = "off"
=============================================================================
