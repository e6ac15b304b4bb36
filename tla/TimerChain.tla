----------------------------- MODULE TimerChain -----------------------------
(***************************************************************************)
(* The arithmetic of a delay that is longer than one FreeRTOS timer period *)
(* (osal_timer_chain.h, osal_tick_math.h) as the FreeRTOS scheduler        *)
(* backend uses it, between two resets of one timer.  The timer counts     *)
(* ticks; the backend computes with a clock derived from microseconds,     *)
(* which may read up to Skew ticks short of them, and the dispatch task    *)
(* may handle an expiry late.  TimerDispatch has the interleavings this    *)
(* module leaves out.                                                      *)
(***************************************************************************)
EXTENDS Integers, FiniteSetsExt

CONSTANTS
    Delays,    \* delays in milliseconds a timer is scheduled with
    TickRate,  \* configTICK_RATE_HZ
    MaxTicks,  \* OSAL_SCHEDULER_TIMER_MAX_TICKS
    Slack,     \* OSAL_SCHEDULER_TICK_SLACK
    Skew,      \* how far the clock may read short
    Modes,     \* {TRUE} periodic timers, {FALSE} one-shot timers, or both
    CatchUpMax, \* CONFIG_OSAL_TIMER_FREERTOS_CATCH_UP_MAX
    MaxLate,   \* bound: ticks from an expiry to the end of its dispatch
    Horizon    \* bound: the last tick

ASSUME DelaysAssumption == Delays \subseteq Nat /\ Modes \subseteq BOOLEAN
ASSUME TicksAssumption == /\ TickRate \in Nat \ {0} /\ MaxTicks \in Nat \ {0} /\ Slack \in Nat
                          /\ Skew \in Nat /\ Skew <= Slack
ASSUME LimitsAssumption == /\ CatchUpMax \in Nat \ {0} /\ MaxLate \in Nat /\ Horizon \in Nat

VARIABLES
    tick,      \* ticks counted by the timer task
    clock,     \* the latest reading of __now_ticks
    periodic,  \* TIMER_FLAG_PERIODIC
    total,     \* total_ticks
    deadline,  \* deadline_ticks
    segment,   \* segment_start
    period, due, armed, \* the FreeRTOS timer: its period, next expiry, whether it counts
    fires,     \* pending_fires
    stage, step,  \* the dispatch task: where it is, and the step it takes
    begun,     \* history: tick at which the timer was scheduled
    since,     \* history: tick at which the dispatch task got something to do
    runs       \* history: runs of the user task so far

timer == <<periodic, total, deadline>>
chainVars == <<tick, clock, timer, segment, period, due, armed, fires, stage, step, begun, since,
               runs>>

-----------------------------------------------------------------------------
(* osal_ticks_from_ms_64; a delay below one tick is one tick (__split_delay). *)
SplitDelay(ms) == Max({1, (ms * TickRate) \div 1000})

(* osal_tick_period_clamp                                                  *)
Clamp(ticks) == Max({1, Min({ticks, MaxTicks})})

(* osal_timer_chain_boundary: the first periodic boundary after now.       *)
Boundary(epoch, length, now) ==
    IF length = 0 \/ now < epoch THEN epoch
    ELSE epoch + (((now - epoch) \div length) + 1) * length

(* Mutant of Target: the segment's start is derived from the clock.        *)
TargetFromNow(now) == IF periodic THEN Boundary(deadline, total, now) ELSE deadline

(* The boundary that the expired segment aimed at.                         *)
Target(now) == IF periodic THEN Boundary(deadline, total, segment) ELSE deadline

(* Mutant of Reached: a target one segment ahead counts as reached.        *)
ReachedAnyway(now) == Target(now) <= now + MaxTicks

Reached(now) == Target(now) <= now + Slack

(* osal_timer_chain_next: whether to run the task, and what to arm next    *)
(* (0: nothing).                                                           *)
Step(now) ==
    IF total <= MaxTicks
    THEN [run |-> IF periodic THEN fires ELSE 1, arm |-> 0]
    ELSE IF ~Reached(now)
    THEN [run |-> 0, arm |-> Clamp(Target(now) - now)]
    ELSE [run |-> 1,
          arm |-> IF periodic THEN Clamp(Boundary(deadline, total, now + Slack) - now) ELSE 0]

Idle == [run |-> 0, arm |-> 0]

-----------------------------------------------------------------------------
(* osal_scheduler_schedule_task_internal at tick Skew, so that the clock   *)
(* may read short from the start.                                          *)
ChainInit ==
    /\ tick = Skew /\ clock \in 0..Skew
    /\ periodic \in Modes
    /\ total \in {SplitDelay(ms) : ms \in Delays}
    /\ segment = clock /\ deadline = clock + total
    /\ period = Clamp(total) /\ due = tick + period /\ armed = TRUE
    /\ fires = 0 /\ stage = "wait" /\ step = Idle
    /\ begun = tick /\ since = tick /\ runs = 0

Dispatching == fires > 0 \/ stage # "wait"

(* Time passes.  The timer task handles an expiry at once.                 *)
Tick ==
    /\ tick < Horizon
    /\ armed => tick < due
    /\ Dispatching => tick < since + MaxLate
    /\ tick' = tick + 1
    /\ UNCHANGED <<clock, timer, segment, period, due, armed, fires, stage, step, begun, since, runs>>

(* The timer expires; a periodic one reloads its period, which is the      *)
(* length of the segment just over.                                        *)
CountExpiry ==
    /\ armed /\ tick = due
    /\ armed' = periodic
    /\ due' = IF periodic THEN due + period ELSE due
    /\ fires' = IF fires < CatchUpMax THEN fires + 1 ELSE fires
    /\ since' = IF Dispatching THEN since ELSE tick
    /\ UNCHANGED <<tick, clock, timer, segment, period, stage, step, begun, runs>>

(* __dispatch_one reads the clock and decides ...                          *)
TakeExpiry ==
    /\ stage = "wait" /\ fires > 0
    /\ clock' \in Max({clock, tick - Skew})..tick
    /\ step' = Step(clock')
    /\ fires' = 0
    /\ stage' = IF step'.arm > 0 THEN "arm" ELSE "run"
    /\ UNCHANGED <<tick, timer, segment, period, due, armed, begun, since, runs>>

(* ... arms the next segment, recording when it began ...                  *)
ArmSegment ==
    /\ stage = "arm"
    /\ period' = step.arm /\ due' = tick + step.arm /\ armed' = TRUE
    /\ segment' = clock
    /\ stage' = "run"
    /\ UNCHANGED <<tick, clock, timer, fires, step, begun, since, runs>>

(* ... and runs the user task.                                             *)
RunTask ==
    /\ stage = "run"
    /\ runs' = runs + step.run
    /\ step' = Idle
    /\ stage' = "wait"
    /\ since' = tick
    /\ UNCHANGED <<tick, clock, timer, segment, period, due, armed, fires, begun>>

ChainNext == Tick \/ CountExpiry \/ TakeExpiry \/ ArmSegment \/ RunTask

ChainSpec == ChainInit /\ [][ChainNext]_chainVars

-----------------------------------------------------------------------------
ChainTypeOK ==
    /\ tick \in 0..Horizon /\ clock \in 0..tick
    /\ periodic \in BOOLEAN /\ total \in Nat \ {0} /\ deadline \in Nat /\ segment \in 0..tick
    /\ period \in 1..MaxTicks /\ due \in Nat /\ armed \in BOOLEAN
    /\ fires \in 0..CatchUpMax /\ stage \in {"wait", "arm", "run"}
    /\ step \in [run : 0..CatchUpMax, arm : 0..MaxTicks]
    /\ begun \in 0..tick /\ since \in 0..tick /\ runs \in Nat

(* How many delays have passed at tick t since the timer was scheduled.    *)
Elapsed(t) == LET n == IF t < begun THEN 0 ELSE (t - begun) \div total
              IN  IF periodic THEN n ELSE Min({n, 1})

(* A one-shot task, or one whose period the timer counts in one go, never  *)
(* runs before its delay is over, give or take the slack and the skew of   *)
(* the clock, nor more often than the delays that are over.                *)
NeverEarly == (periodic => total <= MaxTicks) =>
                 runs + step.run <= Elapsed(tick + Slack + Skew)

(* "periodic cadence measured from the epoch cannot drift"                 *)
(* (osal_timer_chain.h:18): nor does a task whose period takes several     *)
(* segments run more often than its period allows.                         *)
OnGrid == runs + step.run <= Elapsed(tick + Slack + Skew)

(* No period is lost and the cadence does not lag: when the dispatch task  *)
(* has nothing to do, the task has run for every delay that is over, the   *)
(* clock and one late arm apart, provided a late expiry after a late arm   *)
(* does not reach the next period.                                         *)
NoneLost == ~Dispatching /\ (armed => tick < due) /\ total > 2 * MaxLate + Slack + Skew =>
                runs >= Elapsed(tick - MaxLate - Slack - Skew)
=============================================================================
