------------------------------- MODULE Backoff -------------------------------
(***************************************************************************)
(* The lock-free retry context                                             *)
(* (esp_rmaker_neo_common/src/retry/backoff.c): one timer handle shared by *)
(* every task that calls fire, retry or reset, an atomic exchange to take  *)
(* it out, a compare-and-swap to put it back, and a reset generation that  *)
(* lets a call in progress notice a reset.                                 *)
(*                                                                         *)
(* One step is one atomic access or one scheduler call; the scheduler's    *)
(* calls take effect at once (module TimerDispatch has their inside).  A   *)
(* handle is an address: a cancelled one may be handed out again.          *)
(***************************************************************************)
EXTENDS Naturals

CONSTANTS
    Procs,      \* the tasks that call the three functions
    Handles,    \* addresses of timers
    NULL,       \* the NULL handle
    BaseDelay,  \* the delay a reset stores
    MaxDelay,   \* delay_ms.max
    ExpFactor,  \* params.exp_factor
    MaxResets   \* bound: resets

ASSUME HandlesAssumption == NULL \notin Handles
ASSUME DelayAssumption == /\ BaseDelay \in Nat /\ MaxDelay \in Nat /\ ExpFactor \in Nat
                          /\ BaseDelay <= MaxDelay /\ ExpFactor >= 1 /\ MaxResets \in Nat

VARIABLES
    handle,      \* p_retry_context->handle
    resetGen,    \* p_retry_context->reset_gen
    delay,       \* delay_ctx.delay_ms.current
    timers,      \* every address: "free", "armed" or "fired"
    pc,          \* where every task is in its call
    held,        \* its local variable handle
    seen,        \* its local variable reset_gen
    current,     \* its local variable current
    calledSince, \* history: a call that saw the last reset has armed a timer
    owed,        \* history: and no reset was in progress, so it must survive
    steps        \* history: retries that advanced the delay since it was reset

vars == <<handle, resetGen, delay, timers, pc, held, seen, current, calledSince, owed, steps>>
ctxVars   == <<handle, resetGen, delay>>
localVars == <<held, seen, current>>
history   == <<calledSince, owed, steps>>

Labels == {"idle", "cas", "gen", "take", "arm", "put", "check", "undo", "cancel",
           "rtake", "rcancel", "rstore"}
Live(h) == timers[h] # "free"
Goto(p, l) == pc' = [pc EXCEPT ![p] = l]
Hold(p, h) == held' = [held EXCEPT ![p] = h]

Init ==
    /\ handle = NULL /\ resetGen = 0 /\ delay = BaseDelay
    /\ timers = [h \in Handles |-> "free"]
    /\ pc = [p \in Procs |-> "idle"]
    /\ held = [p \in Procs |-> NULL]
    /\ seen = [p \in Procs |-> 0]
    /\ current = [p \in Procs |-> 0]
    /\ calledSince = FALSE /\ owed = FALSE /\ steps = 0

-----------------------------------------------------------------------------
(* backoff_get_next_delay_ms                                               *)

Capped(d) == IF d > MaxDelay THEN MaxDelay ELSE d
NextDelay(d) == Capped(d * ExpFactor)

(* esp_rmaker_backoff_retry loads the delay ...                            *)
RetryLoad(p) ==
    /\ pc[p] = "idle"
    /\ current' = [current EXCEPT ![p] = delay]
    /\ Goto(p, "cas")
    /\ UNCHANGED <<ctxVars, timers, held, seen, history>>

(* ... and advances it with a compare-and-swap, again if it lost.          *)
RetryCas(p) ==
    /\ pc[p] = "cas"
    /\ IF delay = current[p]
       THEN /\ delay' = NextDelay(delay)
            /\ current' = [current EXCEPT ![p] = 0]
            /\ steps' = IF delay = MaxDelay THEN steps ELSE steps + 1
            /\ Goto(p, "gen")
       ELSE /\ current' = [current EXCEPT ![p] = delay]
            /\ UNCHANGED <<delay, steps, pc>>
    /\ UNCHANGED <<handle, resetGen, timers, held, seen, calledSince, owed>>

(* esp_rmaker_backoff_fire uses the delay as it is.                        *)
FireCall(p) ==
    /\ pc[p] = "idle"
    /\ Goto(p, "gen")
    /\ UNCHANGED <<ctxVars, timers, localVars, history>>

-----------------------------------------------------------------------------
(* esp_rmaker_backoff_schedule_task                                        *)

LoadGen(p) ==
    /\ pc[p] = "gen"
    /\ seen' = [seen EXCEPT ![p] = resetGen]
    /\ Goto(p, "take")
    /\ UNCHANGED <<ctxVars, timers, held, current, history>>

(* Mutant of TakeHandle: the handle is read and left in the context.       *)
TakeLoads(p) ==
    /\ pc[p] = "take"
    /\ Hold(p, handle)
    /\ Goto(p, "arm")
    /\ UNCHANGED <<ctxVars, timers, seen, current, history>>

(* The handle is taken out of the context, so that nobody else cancels or  *)
(* re-arms it.                                                             *)
TakeHandle(p) ==
    /\ pc[p] = "take"
    /\ Hold(p, handle)
    /\ handle' = NULL
    /\ Goto(p, "arm")
    /\ UNCHANGED <<resetGen, delay, timers, seen, current, history>>

ResetUnderway == \E q \in Procs : pc[q] = "rtake"

(* A timer taken out is restarted; otherwise one is created.               *)
Arm(p) ==
    /\ pc[p] = "arm"
    /\ \E h \in Handles :
        /\ IF held[p] # NULL THEN h = held[p] ELSE ~Live(h)
        /\ timers' = [timers EXCEPT ![h] = "armed"]
        /\ Hold(p, h)
    /\ Goto(p, "put")
    /\ calledSince' = (calledSince \/ seen[p] = resetGen)
    /\ owed' = (owed \/ (seen[p] = resetGen /\ ~ResetUnderway))
    /\ UNCHANGED <<ctxVars, seen, current, steps>>

(* No memory for a new timer: the call fails.                              *)
ArmFails(p) ==
    /\ pc[p] = "arm" /\ held[p] = NULL
    /\ Goto(p, "idle")
    /\ seen' = [seen EXCEPT ![p] = 0]
    /\ UNCHANGED <<ctxVars, timers, held, current, history>>

(* The handle goes back unless another call put its own there.             *)
PutBack(p) ==
    /\ pc[p] = "put"
    /\ IF handle = NULL THEN handle' = held[p] /\ Goto(p, "check")
                        ELSE UNCHANGED handle /\ Goto(p, "cancel")
    /\ UNCHANGED <<resetGen, delay, timers, localVars, history>>

Done(p) == /\ Goto(p, "idle")
           /\ Hold(p, NULL)
           /\ seen' = [seen EXCEPT ![p] = 0]

(* Mutant of CheckGen: a reset that came meanwhile is not noticed.         *)
CheckNothing(p) ==
    /\ pc[p] = "check"
    /\ Done(p)
    /\ UNCHANGED <<ctxVars, timers, current, history>>

(* A reset that ran meanwhile found no handle: the timer has to go ...     *)
CheckGen(p) ==
    /\ pc[p] = "check"
    /\ IF resetGen # seen[p] THEN Goto(p, "undo") /\ UNCHANGED <<held, seen>>
                             ELSE Done(p)
    /\ UNCHANGED <<ctxVars, timers, current, history>>

(* ... unless another call has taken it.                                   *)
Undo(p) ==
    /\ pc[p] = "undo"
    /\ IF handle = held[p] THEN handle' = NULL /\ Goto(p, "cancel") /\ UNCHANGED <<held, seen>>
                           ELSE UNCHANGED handle /\ Done(p)
    /\ UNCHANGED <<resetGen, delay, timers, current, history>>

CancelHeld(p) ==
    /\ pc[p] = "cancel"
    /\ timers' = [timers EXCEPT ![held[p]] = "free"]
    /\ Done(p)
    /\ UNCHANGED <<ctxVars, current, history>>

-----------------------------------------------------------------------------
(* esp_rmaker_backoff_reset                                                *)

ResetBumpGen(p) ==
    /\ pc[p] = "idle"
    /\ resetGen < MaxResets
    /\ resetGen' = resetGen + 1
    /\ Goto(p, "rtake")
    /\ calledSince' = FALSE /\ owed' = FALSE
    /\ UNCHANGED <<handle, delay, timers, localVars, steps>>

ResetTake(p) ==
    /\ pc[p] = "rtake"
    /\ Hold(p, handle)
    /\ handle' = NULL
    /\ Goto(p, IF handle = NULL THEN "rstore" ELSE "rcancel")
    /\ owed' = FALSE
    /\ UNCHANGED <<resetGen, delay, timers, seen, current, calledSince, steps>>

ResetCancel(p) ==
    /\ pc[p] = "rcancel"
    /\ timers' = [timers EXCEPT ![held[p]] = "free"]
    /\ Hold(p, NULL)
    /\ Goto(p, "rstore")
    /\ UNCHANGED <<ctxVars, seen, current, history>>

ResetStore(p) ==
    /\ pc[p] = "rstore"
    /\ delay' = BaseDelay /\ steps' = 0
    /\ Goto(p, "idle")
    /\ UNCHANGED <<handle, resetGen, timers, localVars, calledSince, owed>>

(* The one-shot timer expires; its handle stays valid.                     *)
Expire(h) ==
    /\ timers[h] = "armed"
    /\ timers' = [timers EXCEPT ![h] = "fired"]
    /\ UNCHANGED <<ctxVars, pc, localVars, history>>

-----------------------------------------------------------------------------
Call(p) == RetryLoad(p) \/ FireCall(p) \/ ResetBumpGen(p)
Schedule(p) == \/ RetryCas(p) \/ LoadGen(p) \/ TakeHandle(p) \/ Arm(p) \/ ArmFails(p)
               \/ PutBack(p) \/ CheckGen(p) \/ Undo(p) \/ CancelHeld(p)
Reset(p) == ResetTake(p) \/ ResetCancel(p) \/ ResetStore(p)

Next == \/ \E p \in Procs : Call(p) \/ Schedule(p) \/ Reset(p)
        \/ \E h \in Handles : Expire(h)

Spec == Init /\ [][Next]_vars

-----------------------------------------------------------------------------
TypeOK ==
    /\ handle \in Handles \cup {NULL}
    /\ resetGen \in 0..MaxResets
    /\ delay \in BaseDelay..MaxDelay
    /\ timers \in [Handles -> {"free", "armed", "fired"}]
    /\ pc \in [Procs -> Labels]
    /\ held \in [Procs -> Handles \cup {NULL}]
    /\ seen \in [Procs -> 0..MaxResets]
    /\ current \in [Procs -> 0..MaxDelay]
    /\ calledSince \in BOOLEAN /\ owed \in BOOLEAN /\ steps \in Nat

(* The task has the timer to itself.                                       *)
Owns(p, h) == held[p] = h /\ h # NULL /\ pc[p] \in {"arm", "put", "cancel", "rcancel"}

(* Every timer has exactly one owner, the context or one call in progress: *)
(* none is leaked, re-armed after it was cancelled or cancelled twice,     *)
(* although nothing is locked (test_backoff_race.c tries three schedules). *)
OneOwner ==
    /\ \A h \in Handles : Live(h) <=> (h = handle \/ \E p \in Procs : Owns(p, h))
    /\ \A p \in Procs : ~Owns(p, handle)
    /\ \A p, q \in Procs, h \in Handles : Owns(p, h) /\ Owns(q, h) => p = q

Quiescent == \A p \in Procs : pc[p] = "idle"

(* A reset "cancels any scheduled retries, also a retry that another task  *)
(* has in progress" (esp_rmaker_backoff.h:90): once the calls have         *)
(* returned, no timer is left unless a call saw the last reset.            *)
ResetIsFinal == Quiescent /\ ~calledSince => \A h \in Handles : ~Live(h)

(* No retry is lost from the delay: it has grown once for every retry      *)
(* since the reset that stored the base delay.                             *)
DelayCountsRetries == delay = Capped(BaseDelay * ExpFactor ^ steps)

(* "The task is scheduled" (esp_rmaker_backoff.h:101): a fire or retry     *)
(* that began after the last reset leaves a timer behind.                  *)
FireSurvives == Quiescent /\ owed => handle # NULL
=============================================================================
