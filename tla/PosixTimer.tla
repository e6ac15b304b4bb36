----------------------------- MODULE PosixTimer -----------------------------
(***************************************************************************)
(* One scheduled task of the POSIX scheduler (scheduler_posix.c): a thread *)
(* that waits on a condition variable for its due time and runs the        *)
(* callback, and the calls that reset, stop and cancel it, made by the     *)
(* application or by the callback itself.                                  *)
(*                                                                         *)
(* One step is one stay in the mutex.  A timed wait that is over has to    *)
(* take the mutex again before the thread fires, and a call may come       *)
(* first.  Time is whether the due time has passed.                        *)
(***************************************************************************)
EXTENDS Integers

CONSTANTS MaxResets  \* bound: calls of reset, stop and cancel

VARIABLES
    running, is_active, has_due, is_periodic,
    past,      \* the due time has passed
    thread,    \* where the thread is
    canceller, \* where osal_scheduler_cancel_task is
    resets,    \* calls counted against MaxResets
    stale      \* history: a due time or a stop the last callback ran in spite of

flags == <<running, is_active, has_due, is_periodic>>
vars  == <<flags, past, thread, canceller, resets, stale>>

-----------------------------------------------------------------------------
(* The top of the thread's loop, also after a wake-up there.               *)
Top ==
    /\ thread = "top"
    /\ thread' = IF ~running THEN "exited" ELSE IF is_active /\ has_due THEN "timed" ELSE "idle"
    /\ UNCHANGED <<flags, past, canceller, resets, stale>>

(* The timed wait is over when the due time it waits for has passed ...    *)
Expire ==
    /\ thread = "timed" /\ past
    /\ thread' = "expired"
    /\ UNCHANGED <<flags, past, canceller, resets, stale>>

(* ... and the thread, with the mutex again, looks at running only.        *)
Fire ==
    /\ thread = "expired"
    /\ IF running
       THEN /\ thread' = "callback"
            /\ has_due' = is_periodic
            /\ past' = FALSE
            /\ stale' = (~past \/ ~is_active)
       ELSE thread' = "top" /\ UNCHANGED <<has_due, past, stale>>
    /\ UNCHANGED <<running, is_active, is_periodic, canceller, resets>>

Return ==
    /\ thread = "callback"
    /\ thread' = "top"
    /\ UNCHANGED <<flags, past, canceller, resets, stale>>

(* A wait may end without a signal; one whose time has passed ends so.     *)
Spurious ==
    /\ thread = "idle" \/ (thread = "timed" /\ ~past)
    /\ thread' = "top"
    /\ UNCHANGED <<flags, past, canceller, resets, stale>>

Elapse ==
    /\ has_due /\ ~past
    /\ past' = TRUE
    /\ UNCHANGED <<flags, thread, canceller, resets, stale>>

-----------------------------------------------------------------------------
Woken == IF thread \in {"idle", "timed"} THEN "top" ELSE thread

(* Mutant of Reset: the thread is not signalled, as if it were always in   *)
(* its timed wait.                                                         *)
ResetUnsignalled ==
    /\ canceller = "none" /\ resets < MaxResets
    /\ past' = FALSE /\ is_active' = TRUE /\ has_due' = TRUE
    /\ resets' = resets + 1
    /\ UNCHANGED <<running, is_periodic, thread, canceller, stale>>

(* osal_scheduler_reset_timer                                              *)
Reset ==
    /\ canceller = "none" /\ resets < MaxResets
    /\ past' = FALSE /\ is_active' = TRUE /\ has_due' = TRUE
    /\ thread' = Woken
    /\ resets' = resets + 1
    /\ UNCHANGED <<running, is_periodic, canceller, stale>>

(* osal_scheduler_stop_timer                                               *)
Stop ==
    /\ canceller = "none" /\ resets < MaxResets
    /\ is_active' = FALSE
    /\ thread' = Woken
    /\ resets' = resets + 1
    /\ UNCHANGED <<running, has_due, is_periodic, past, canceller, stale>>

(* osal_scheduler_cancel_task, not from the callback: the flags, ...       *)
Cancel ==
    /\ canceller = "none" /\ resets < MaxResets
    /\ running' = FALSE /\ has_due' = FALSE
    /\ thread' = Woken
    /\ canceller' = "join"
    /\ resets' = resets + 1
    /\ UNCHANGED <<is_active, is_periodic, past, stale>>

(* ... then the task is freed once its thread has been joined.             *)
Join ==
    /\ canceller = "join" /\ thread = "exited"
    /\ canceller' = "freed"
    /\ UNCHANGED <<flags, past, thread, resets, stale>>

(* From the callback the join fails (EDEADLK) and the task is freed at     *)
(* once, under the thread that runs: nothing is known of it afterwards.    *)
CancelSelf ==
    /\ thread = "callback" /\ canceller = "none" /\ resets < MaxResets
    /\ running' = FALSE /\ has_due' = FALSE
    /\ thread' = "undefined" /\ canceller' = "freed"
    /\ resets' = resets + 1
    /\ UNCHANGED <<is_active, is_periodic, past, stale>>

-----------------------------------------------------------------------------
(* osal_scheduler_schedule_task and _periodic                              *)
Init ==
    /\ running = TRUE /\ is_active = TRUE /\ has_due = TRUE /\ is_periodic \in BOOLEAN
    /\ past = FALSE
    /\ thread = "top" /\ canceller = "none"
    /\ resets = 0 /\ stale = FALSE

Next == \/ Top \/ Expire \/ Fire \/ Return \/ Spurious \/ Elapse
        \/ Reset \/ Stop \/ Cancel \/ Join \/ CancelSelf

Spec == Init /\ [][Next]_vars

(* The thread is scheduled, callbacks return and time passes.              *)
Fairness == WF_vars(Top \/ Expire \/ Fire \/ Return) /\ WF_vars(Elapse) /\ WF_vars(Join)

FairSpec == Spec /\ Fairness

-----------------------------------------------------------------------------
TypeOK ==
    /\ {running, is_active, has_due, is_periodic, past, stale} \subseteq BOOLEAN
    /\ thread \in {"top", "idle", "timed", "expired", "callback", "exited", "undefined"}
    /\ canceller \in {"none", "join", "freed"}
    /\ resets \in 0..MaxResets

(* A task that is armed runs, whatever resets, stops and wake-ups come in  *)
(* between, unless it is stopped or cancelled; and a cancel returns.       *)
ArmedRuns ==
    /\ running /\ is_active /\ has_due ~> thread \in {"callback", "undefined"} \/ ~running \/ ~is_active
    /\ canceller = "join" ~> canceller = "freed"

(* A reset or a stop that returned before the callback began keeps it from *)
(* running (osal_scheduler.h: "Reset the timer for a scheduled task, with  *)
(* a new delay").  A thread whose wait is over fires all the same.         *)
NoStaleFire == ~stale

(* "Safe from inside a task callback, including on that callback's own     *)
(* handle" (osal_scheduler.h:103).                                         *)
SelfCancelIsSafe == thread # "undefined"
=============================================================================
