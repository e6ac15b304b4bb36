---------------------------- MODULE TimerDispatch ----------------------------
(***************************************************************************)
(* The FreeRTOS scheduler backend                                          *)
(* (osal/platform/src/esp/scheduler_freertos.c).  An expiry is noticed by  *)
(* the FreeRTOS timer task (the daemon), which links the timer's private   *)
(* block into a pending list; the dispatch task unlinks the whole list and *)
(* runs the user tasks; any task, a user task included, may reset, stop or *)
(* cancel a timer.  A cancelled block is freed by whoever holds it last.   *)
(*                                                                         *)
(* One step is one critical section, one semaphore operation or one        *)
(* command sent to the daemon; commands wait in a bounded queue.  A flag   *)
(* of the block is the set of timers that have it.  Time is counted in     *)
(* segments: a delay longer than one timer period is several segments that *)
(* the dispatch task arms one after the other (module TimerChain has the   *)
(* arithmetic).  A periodic timer fits one period.                         *)
(***************************************************************************)
EXTENDS Integers, Sequences, FiniteSets, FiniteSetsExt

CONSTANTS
    Timers,     \* timers, each created once
    Periodic,   \* the periodic ones
    Callers,    \* application tasks that use the scheduler
    Dispatch,   \* the dispatch task
    NULL,       \* no block, no holder
    QueueLen,   \* length of the daemon's command queue
    CatchUpMax, \* CONFIG_OSAL_TIMER_FREERTOS_CATCH_UP_MAX
    MaxSegs,    \* bound: segments of a delay
    MaxSeq      \* bound: resets and stops, of all timers

ASSUME TimersAssumption == NULL \notin Timers /\ Periodic \subseteq Timers /\ IsFiniteSet(Timers)
ASSUME SchedulerTasksAssumption == Dispatch \notin Callers /\ NULL \notin Callers \cup {Dispatch}
ASSUME SchedulerBoundsAssumption == /\ QueueLen \in Nat \ {0} /\ CatchUpMax \in Nat \ {0}
                                    /\ MaxSegs \in Nat \ {0} /\ MaxSeq \in Nat

VARIABLES
    fresh,      \* timers not created yet
    alloc,      \* private blocks that are allocated
    attached,   \* timers whose ID is their block
    usable,     \* timers somebody has a valid handle of
    queued, stopped, claimed, cancelled, \* TIMER_FLAG_QUEUED, _STOPPED, _IN_CALLBACK, _CANCELLED
    fires,      \* pending_fires
    seq,        \* reset_seq
    left,       \* segments of the delay still to wait
    resetTo,    \* reset_ticks, in segments
    head, tail, next, \* the pending list
    sem,        \* s_dispatch_sem is given
    mutex,      \* holder of s_cmd_mutex
    cmds,       \* commands waiting for the daemon
    daemon,     \* the daemon: "idle", or "give" (about to give the semaphore)
    active,     \* timers FreeRTOS counts down
    deleted,    \* timers FreeRTOS has deleted
    dpc, cur, nxt, runs, taken, \* the dispatch task and its local variables
    at, call, todo, \* every task's API call: where, which and the commands to send
    armSeq,     \* history: reset_seq when the running count-down was commanded
    fireSeq     \* history: that of the latest expiry in fires

blockVars == <<alloc, attached, fires, seq, left, resetTo>>
flagVars  == <<queued, stopped, claimed, cancelled>>
listVars  == <<head, tail, next, sem>>
daemonVars == <<daemon, active, deleted, armSeq>>
dispVars  == <<dpc, cur, nxt, runs, taken>>
callVars  == <<fresh, usable, at, call, todo>>
history   == fireSeq
schedulerVars == <<blockVars, flagVars, listVars, mutex, cmds, daemonVars, dispVars, callVars,
                   history>>

Tasks == Callers \cup {Dispatch}
Ops   == {"none", "reset", "stop", "cancel", "schedule"}
NoCall == [op |-> "none", timer |-> NULL]
Command(o, t, s) == [op |-> o, timer |-> t, seq |-> s]
Commands == [op : {"arm", "stop", "publish", "delete"}, timer : Timers, seq : 0..MaxSeq]

SchedulerInit ==
    /\ fresh = Timers /\ alloc = {} /\ attached = {} /\ usable = {}
    /\ queued = {} /\ stopped = {} /\ claimed = {} /\ cancelled = {}
    /\ fires = [t \in Timers |-> 0] /\ seq = [t \in Timers |-> 0]
    /\ left = [t \in Timers |-> 0] /\ resetTo = [t \in Timers |-> 0]
    /\ head = NULL /\ tail = NULL /\ next = [t \in Timers |-> NULL] /\ sem = FALSE
    /\ mutex = NULL /\ cmds = <<>>
    /\ daemon = "idle" /\ active = {} /\ deleted = {}
    /\ dpc = "wait" /\ cur = NULL /\ nxt = NULL /\ runs = 0 /\ taken = 0
    /\ at = [c \in Tasks |-> "idle"] /\ call = [c \in Tasks |-> NoCall]
    /\ todo = [c \in Tasks |-> <<>>]
    /\ armSeq = [t \in Timers |-> 0] /\ fireSeq = [t \in Timers |-> 0]

Jump(c, l) == at' = [at EXCEPT ![c] = l]
Segments(t) == IF t \in Periodic THEN {0} ELSE 1..MaxSegs

-----------------------------------------------------------------------------
(* The API.  The dispatch task calls it from inside a user task only.      *)

Free(c) == at[c] = "idle" /\ (c = Dispatch => dpc = "callback")
Enter(c, o, t) == call' = [call EXCEPT ![c] = [op |-> o, timer |-> t]]
InUse(t) == \E c \in Tasks : call[c].timer = t
Marks == {c \in Tasks : call[c].op \in {"reset", "stop"} /\ at[c] \in {"lock", "mark"}}
Total == MapThenSumSet(LAMBDA t : seq[t], Timers) + Cardinality(Marks)

(* osal_scheduler_schedule_task(_periodic): the block is filled in, and    *)
(* only then the timer is started.                                         *)
ScheduleTask(c, t) ==
    /\ Free(c) /\ t \in fresh
    /\ fresh' = fresh \ {t}
    /\ alloc' = alloc \cup {t} /\ attached' = attached \cup {t}
    /\ \E d \in Segments(t) : left' = [left EXCEPT ![t] = d]
    /\ todo' = [todo EXCEPT ![c] = <<Command("arm", t, 0)>>]
    /\ Enter(c, "schedule", t) /\ Jump(c, "send")
    /\ UNCHANGED <<usable, fires, seq, resetTo, flagVars, listVars, mutex, cmds, daemonVars,
                   dispVars, history>>

(* A call begins.  "Do not cancel it while another call uses it"           *)
(* (osal_scheduler.h): the caller's side of the contract.                  *)
BeginCall(c, o, t) ==
    /\ Free(c) /\ t \in usable
    /\ o \in {"reset", "stop"} => Total < MaxSeq
    /\ o = "cancel" => ~InUse(t)
    /\ usable' = IF o = "cancel" THEN usable \ {t} ELSE usable
    /\ Enter(c, o, t) /\ Jump(c, "lock")
    /\ UNCHANGED <<fresh, blockVars, flagVars, listVars, mutex, cmds, daemonVars, dispVars, todo,
                   history>>

LockCommands(c) ==
    /\ at[c] = "lock" /\ mutex = NULL
    /\ mutex' = c
    /\ Jump(c, "mark")
    /\ UNCHANGED <<fresh, usable, blockVars, flagVars, listVars, cmds, daemonVars, dispVars, call,
                   todo, history>>

(* __mark_stopped_locked                                                   *)
MarkStopped(t) ==
    /\ stopped' = stopped \cup {t}
    /\ fires' = [fires EXCEPT ![t] = 0]
    /\ seq' = [seq EXCEPT ![t] = @ + 1]

(* Mutant of MarkReset: it publishes before it stops the timer.            *)
MarkResetPublishesFirst(c) ==
    LET t == call[c].timer IN
    /\ at[c] = "mark" /\ call[c].op = "reset"
    /\ \E d \in Segments(t) : resetTo' = [resetTo EXCEPT ![t] = d]
    /\ MarkStopped(t)
    /\ todo' = [todo EXCEPT ![c] = <<Command("publish", t, seq'[t]), Command("stop", t, seq'[t]),
                                     Command("arm", t, seq'[t])>>]
    /\ Jump(c, "send")
    /\ UNCHANGED <<fresh, usable, alloc, attached, left, queued, claimed, cancelled, listVars, mutex,
                   cmds, daemonVars, dispVars, call, fireSeq>>

(* osal_scheduler_reset_timer stops the timer, lets the daemon publish the *)
(* new delay and arms it again, in that order.                             *)
MarkReset(c) ==
    LET t == call[c].timer IN
    /\ at[c] = "mark" /\ call[c].op = "reset"
    /\ \E d \in Segments(t) : resetTo' = [resetTo EXCEPT ![t] = d]
    /\ MarkStopped(t)
    /\ todo' = [todo EXCEPT ![c] = <<Command("stop", t, seq'[t]), Command("publish", t, seq'[t]),
                                     Command("arm", t, seq'[t])>>]
    /\ Jump(c, "send")
    /\ UNCHANGED <<fresh, usable, alloc, attached, left, queued, claimed, cancelled, listVars, mutex,
                   cmds, daemonVars, dispVars, call, fireSeq>>

(* osal_scheduler_stop_timer marks first, so that an expiry before the     *)
(* stop command is dropped too.                                            *)
MarkStop(c) ==
    LET t == call[c].timer IN
    /\ at[c] = "mark" /\ call[c].op = "stop"
    /\ MarkStopped(t)
    /\ todo' = [todo EXCEPT ![c] = <<Command("stop", t, seq'[t])>>]
    /\ Jump(c, "send")
    /\ UNCHANGED <<fresh, usable, alloc, attached, left, resetTo, queued, claimed, cancelled,
                   listVars, mutex, cmds, daemonVars, dispVars, call, fireSeq>>

(* The dispatch task holds the block, or will.                             *)
Handover(t) == t \in claimed \cup queued

(* osal_scheduler_cancel_task detaches the block; unless the dispatch task *)
(* has it, the timer is deleted and the block freed here.                  *)
MarkCancel(c) ==
    LET t == call[c].timer IN
    /\ at[c] = "mark" /\ call[c].op = "cancel"
    /\ attached' = attached \ {t}
    /\ cancelled' = cancelled \cup {t}
    /\ todo' = [todo EXCEPT ![c] = IF Handover(t) THEN <<>> ELSE <<Command("delete", t, 0)>>]
    /\ Jump(c, IF Handover(t) THEN "done" ELSE "send")
    /\ UNCHANGED <<fresh, usable, alloc, fires, seq, left, resetTo, queued, stopped, claimed,
                   listVars, mutex, cmds, daemonVars, dispVars, call, fireSeq>>

(* The caller waits for room in the command queue.                         *)
SendCommand(c) ==
    /\ at[c] = "send" /\ Len(cmds) < QueueLen
    /\ cmds' = Append(cmds, Head(todo[c]))
    /\ todo' = [todo EXCEPT ![c] = Tail(@)]
    /\ Jump(c, IF Len(todo[c]) > 1 THEN "send"
               ELSE IF call[c].op = "cancel" THEN "free" ELSE "done")
    /\ UNCHANGED <<fresh, usable, blockVars, flagVars, listVars, mutex, daemonVars, dispVars, call,
                   history>>

(* A cancel that deleted the timer frees the block; the mutex is given     *)
(* back (a schedule never took it).                                        *)
EndCall(c) ==
    /\ at[c] \in {"done", "free"}
    /\ alloc' = IF at[c] = "free" THEN alloc \ {call[c].timer} ELSE alloc
    /\ usable' = IF call[c].op = "schedule" THEN usable \cup {call[c].timer} ELSE usable
    /\ mutex' = IF call[c].op = "schedule" THEN mutex ELSE NULL
    /\ call' = [call EXCEPT ![c] = NoCall]
    /\ Jump(c, "idle")
    /\ UNCHANGED <<fresh, attached, fires, seq, left, resetTo, flagVars, listVars, cmds, daemonVars,
                   dispVars, todo, history>>

-----------------------------------------------------------------------------
(* The daemon: FreeRTOS itself is external, the two callbacks are not.     *)

(* __enqueue_locked                                                        *)
Enqueue(t) ==
    IF t \in queued THEN UNCHANGED <<queued, head, tail, next, daemon>>
    ELSE /\ queued' = queued \cup {t}
         /\ tail' = t
         /\ IF tail # NULL THEN /\ next' = [next EXCEPT ![t] = NULL, ![tail] = t]
                                /\ UNCHANGED head
                           ELSE /\ next' = [next EXCEPT ![t] = NULL]
                                /\ head' = t
         /\ daemon' = "give"

CountFire(t) == IF fires[t] < CatchUpMax THEN fires[t] + 1 ELSE fires[t]

(* The count-down ends: __scheduler_timer_common_cb.                       *)
Expire(t) ==
    /\ daemon = "idle" /\ t \in active
    /\ active' = IF t \in Periodic THEN active ELSE active \ {t}
    /\ left' = [left EXCEPT ![t] = IF @ > 0 THEN @ - 1 ELSE 0]
    /\ IF t \in attached /\ t \notin stopped
       THEN /\ Enqueue(t)
            /\ fires' = [fires EXCEPT ![t] = CountFire(t)]
            /\ fireSeq' = [fireSeq EXCEPT ![t] = armSeq[t]]
       ELSE UNCHANGED <<queued, head, tail, next, daemon, fires, fireSeq>>
    /\ UNCHANGED <<alloc, attached, seq, resetTo, stopped, claimed, cancelled, sem, mutex, cmds,
                   deleted, armSeq, dispVars, callVars>>

GiveSemaphore ==
    /\ daemon = "give"
    /\ sem' = TRUE /\ daemon' = "idle"
    /\ UNCHANGED <<blockVars, flagVars, head, tail, next, mutex, cmds, active, deleted, armSeq,
                   dispVars, callVars, history>>

(* __publish_reset acts if no later reset or stop has replaced it.         *)
Published(m) == m.timer \in attached /\ seq[m.timer] = m.seq

Publish(m) ==
    IF Published(m)
    THEN /\ left' = [left EXCEPT ![m.timer] = resetTo[m.timer]]
         /\ fires' = [fires EXCEPT ![m.timer] = 0]
         /\ stopped' = stopped \ {m.timer}
    ELSE UNCHANGED <<left, fires, stopped>>

(* Commands run in the order they were sent.                               *)
RunCommand ==
    /\ daemon = "idle" /\ cmds # <<>>
    /\ LET m == Head(cmds) IN
        /\ active' = IF m.op = "arm" THEN active \cup {m.timer}
                     ELSE IF m.op = "publish" THEN active ELSE active \ {m.timer}
        /\ armSeq' = IF m.op = "arm" THEN [armSeq EXCEPT ![m.timer] = m.seq] ELSE armSeq
        /\ deleted' = IF m.op = "delete" THEN deleted \cup {m.timer} ELSE deleted
        /\ IF m.op = "publish" THEN Publish(m) ELSE UNCHANGED <<left, fires, stopped>>
    /\ cmds' = Tail(cmds)
    /\ UNCHANGED <<alloc, attached, seq, resetTo, queued, claimed, cancelled, listVars, mutex, daemon,
                   dispVars, callVars, history>>

-----------------------------------------------------------------------------
(* The dispatch task                                                       *)

At(l) == dpc = l /\ at[Dispatch] = "idle"

(* It takes the whole pending list.                                        *)
TakeSemaphore ==
    /\ At("wait") /\ sem
    /\ sem' = FALSE /\ dpc' = "detach"
    /\ UNCHANGED <<blockVars, flagVars, head, tail, next, mutex, cmds, daemonVars, cur, nxt, runs,
                   taken, callVars, history>>

Walk(t) == /\ cur' = t
           /\ dpc' = IF t = NULL THEN "wait" ELSE "next"

DetachList ==
    /\ At("detach")
    /\ Walk(head)
    /\ head' = NULL /\ tail' = NULL
    /\ UNCHANGED <<blockVars, flagVars, next, sem, mutex, cmds, daemonVars, nxt, runs, taken,
                   callVars, history>>

(* The link is read before the block may be relinked or freed.             *)
ReadNext ==
    /\ At("next")
    /\ nxt' = next[cur] /\ dpc' = "claim"
    /\ UNCHANGED <<blockVars, flagVars, listVars, mutex, cmds, daemonVars, cur, runs, taken,
                   callVars, history>>

(* __dispatch_one claims the block ...                                     *)
Claim ==
    /\ At("claim")
    /\ claimed' = claimed \cup {cur} /\ dpc' = "take"
    /\ UNCHANGED <<blockVars, queued, stopped, cancelled, listVars, mutex, cmds, daemonVars, cur,
                   nxt, runs, taken, callVars, history>>

Runnable == fires[cur] > 0 /\ cur \notin cancelled \cup stopped
Rearm == Runnable /\ left[cur] > 0

(* Mutant of TakeFires: the block stays marked as queued.                  *)
TakeFiresKeepsQueued(l) ==
    /\ fires' = [fires EXCEPT ![cur] = 0]
    /\ UNCHANGED queued
    /\ taken' = seq[cur]
    /\ runs' = IF ~Runnable \/ Rearm THEN 0 ELSE IF cur \in Periodic THEN fires[cur] ELSE 1
    /\ dpc' = l

(* ... takes the expiries merged into it, to run them unless another       *)
(* segment of the delay has to be armed ...                                *)
TakeFires(l) ==
    /\ fires' = [fires EXCEPT ![cur] = 0]
    /\ queued' = queued \ {cur}
    /\ taken' = seq[cur]
    /\ runs' = IF ~Runnable \/ Rearm THEN 0 ELSE IF cur \in Periodic THEN fires[cur] ELSE 1
    /\ dpc' = l

TakeExpiry ==
    /\ At("take") /\ ~Rearm
    /\ TakeFires("loop")
    /\ UNCHANGED <<alloc, attached, seq, left, resetTo, stopped, claimed, cancelled, listVars, mutex,
                   cmds, daemonVars, cur, nxt, callVars, history>>

(* ... for which it decides again under the command mutex.                 *)
WaitCommands ==
    /\ At("take") /\ Rearm
    /\ dpc' = "lock"
    /\ UNCHANGED <<blockVars, flagVars, listVars, mutex, cmds, daemonVars, cur, nxt, runs, taken,
                   callVars, history>>

LockRearm ==
    /\ At("lock") /\ mutex = NULL
    /\ mutex' = Dispatch /\ dpc' = "retake"
    /\ UNCHANGED <<blockVars, flagVars, listVars, cmds, daemonVars, cur, nxt, runs, taken, callVars,
                   history>>

RetakeExpiry ==
    /\ At("retake")
    /\ TakeFires(IF Rearm THEN "rearm" ELSE "unlock")
    /\ UNCHANGED <<alloc, attached, seq, left, resetTo, stopped, claimed, cancelled, listVars, mutex,
                   cmds, daemonVars, cur, nxt, callVars, history>>

SendRearm ==
    /\ At("rearm") /\ Len(cmds) < QueueLen
    /\ cmds' = Append(cmds, Command("arm", cur, taken)) /\ dpc' = "unlock"
    /\ UNCHANGED <<blockVars, flagVars, listVars, mutex, daemonVars, cur, nxt, runs, taken, callVars,
                   history>>

UnlockRearm ==
    /\ At("unlock")
    /\ mutex' = NULL /\ dpc' = "loop"
    /\ UNCHANGED <<blockVars, flagVars, listVars, cmds, daemonVars, cur, nxt, runs, taken, callVars,
                   history>>

(* __may_run, before every single run.                                     *)
MayRun == cur \notin cancelled \cup stopped /\ seq[cur] = taken

CheckRun ==
    /\ At("loop")
    /\ dpc' = IF runs > 0 /\ MayRun THEN "start" ELSE "release"
    /\ UNCHANGED <<blockVars, flagVars, listVars, mutex, cmds, daemonVars, cur, nxt, runs, taken,
                   callVars, history>>

StartTask ==
    /\ At("start")
    /\ runs' = runs - 1 /\ dpc' = "callback"
    /\ UNCHANGED <<blockVars, flagVars, listVars, mutex, cmds, daemonVars, cur, nxt, taken, callVars,
                   fireSeq>>

EndTask ==
    /\ At("callback")
    /\ dpc' = "loop"
    /\ UNCHANGED <<blockVars, flagVars, listVars, mutex, cmds, daemonVars, cur, nxt, runs, taken,
                   callVars, history>>

(* Mutant of Release: a cancelled block that expired again is torn down.   *)
ReleaseThoughQueued ==
    /\ At("release")
    /\ claimed' = claimed \ {cur}
    /\ IF cur \in cancelled THEN dpc' = "delete" /\ UNCHANGED cur ELSE Walk(nxt)
    /\ UNCHANGED <<blockVars, queued, stopped, cancelled, listVars, mutex, cmds, daemonVars, nxt,
                   runs, taken, callVars, history>>

(* The claim is dropped; a block cancelled meanwhile is torn down here,    *)
(* unless it expired again: then its queued run does it.                   *)
Release ==
    /\ At("release")
    /\ claimed' = claimed \ {cur}
    /\ IF cur \in cancelled \ queued THEN dpc' = "delete" /\ UNCHANGED cur ELSE Walk(nxt)
    /\ UNCHANGED <<blockVars, queued, stopped, cancelled, listVars, mutex, cmds, daemonVars, nxt,
                   runs, taken, callVars, history>>

DeleteTimer ==
    /\ At("delete") /\ Len(cmds) < QueueLen
    /\ cmds' = Append(cmds, Command("delete", cur, 0)) /\ dpc' = "free"
    /\ UNCHANGED <<blockVars, flagVars, listVars, mutex, daemonVars, cur, nxt, runs, taken, callVars,
                   history>>

FreeBlock ==
    /\ At("free")
    /\ alloc' = alloc \ {cur}
    /\ Walk(nxt)
    /\ UNCHANGED <<attached, fires, seq, left, resetTo, flagVars, listVars, mutex, cmds, daemonVars,
                   nxt, runs, taken, callVars, history>>

-----------------------------------------------------------------------------
Using(c) == \E t \in Timers : \/ ScheduleTask(c, t)
                              \/ \E o \in {"reset", "stop", "cancel"} : BeginCall(c, o, t)
Calling(c) == \/ LockCommands(c) \/ MarkReset(c) \/ MarkStop(c) \/ MarkCancel(c)
              \/ SendCommand(c) \/ EndCall(c)
Daemon == GiveSemaphore \/ RunCommand
Dispatching == \/ TakeSemaphore \/ DetachList \/ ReadNext \/ Claim \/ TakeExpiry \/ WaitCommands
               \/ LockRearm \/ RetakeExpiry \/ SendRearm \/ UnlockRearm \/ CheckRun \/ StartTask
               \/ EndTask \/ Release \/ DeleteTimer \/ FreeBlock

SchedulerNext ==
    \/ \E c \in Tasks : Using(c) \/ Calling(c)
    \/ Daemon
    \/ \E t \in Timers : Expire(t)
    \/ Dispatching

SchedulerSpec == SchedulerInit /\ [][SchedulerNext]_schedulerVars

-----------------------------------------------------------------------------
SchedulerTypeOK ==
    /\ fresh \subseteq Timers /\ alloc \subseteq Timers /\ attached \subseteq Timers
    /\ usable \subseteq Timers /\ active \subseteq Timers /\ deleted \subseteq Timers
    /\ queued \subseteq Timers /\ stopped \subseteq Timers /\ claimed \subseteq Timers
    /\ cancelled \subseteq Timers
    /\ fires \in [Timers -> 0..CatchUpMax] /\ seq \in [Timers -> 0..MaxSeq]
    /\ left \in [Timers -> 0..MaxSegs] /\ resetTo \in [Timers -> 0..MaxSegs]
    /\ head \in Timers \cup {NULL} /\ tail \in Timers \cup {NULL}
    /\ next \in [Timers -> Timers \cup {NULL}] /\ sem \in BOOLEAN
    /\ mutex \in Tasks \cup {NULL}
    /\ cmds \in Seq(Commands) /\ Len(cmds) <= QueueLen
    /\ daemon \in {"idle", "give"}
    /\ cur \in Timers \cup {NULL} /\ nxt \in Timers \cup {NULL}
    /\ runs \in 0..CatchUpMax /\ taken \in 0..MaxSeq
    /\ call \in [Tasks -> [op : Ops, timer : Timers \cup {NULL}]]
    /\ armSeq \in [Timers -> 0..MaxSeq] /\ fireSeq \in [Timers -> 0..MaxSeq]

(* The timers linked from t on: those in every set that contains t and     *)
(* what its members link to.                                               *)
From(t) == {x \in Timers : \A S \in SUBSET Timers :
                               {t} \cup {next[y] : y \in S} \subseteq S \cup {NULL} => x \in S}

Holding == dpc \notin {"wait", "detach"}
BeforeTake == dpc \in {"next", "claim", "take", "lock", "retake"}
(* What the dispatch task has still to visit of the list it detached.      *)
Batch == IF ~Holding THEN {}
         ELSE IF dpc = "next" THEN From(cur)
         ELSE From(nxt) \cup (IF BeforeTake THEN {cur} ELSE {})

(* Nobody touches a freed block or a deleted timer: the block in the       *)
(* dispatch task's hands, those still to visit, those in the pending list, *)
(* those a timer or a call in progress refers to are allocated, and no     *)
(* command waits behind the deletion of its timer.                         *)
NoUseAfterFree ==
    /\ (Holding /\ cur # NULL => cur \in alloc)
    /\ Batch \cup From(head) \cup attached \subseteq alloc
    /\ \A c \in Tasks : at[c] \in {"lock", "mark"} => call[c].timer \in attached
    /\ \A i \in 1..Len(cmds) :
        /\ cmds[i].timer \notin deleted
        /\ cmds[i].op = "delete" => \A j \in (i+1)..Len(cmds) : cmds[j].timer # cmds[i].timer

(* The QUEUED flag is the truth: a timer has it exactly when it is in the  *)
(* pending list or in the detached list in front of the dispatch task, and *)
(* it is in one of them only.  So no expiry is lost and no list is cut     *)
(* when a timer expires again while its entry waits.                       *)
QueuedIsLinked ==
    /\ queued = From(head) \cup Batch
    /\ From(head) \cap Batch = {}

(* An expiry of a delay that a reset replaced, or a stop ended, never      *)
(* waits to be run.                                                        *)
NoStaleExpiry == \A t \in Timers : fires[t] > 0 /\ t \notin stopped => fireSeq[t] = seq[t]

(* A cancelled block that is still allocated has one owner who will free   *)
(* it, and only one: the cancel in progress, or the dispatch task, which   *)
(* meets it in its lists, holds it or tears it down.                       *)
CancelledHasOwner ==
    \A t \in cancelled \cap alloc :
        LET caller == \E c \in Tasks : /\ call[c] = [op |-> "cancel", timer |-> t]
                                       /\ at[c] \in {"send", "free"}
            dispatcher == \/ t \in From(head) \cup Batch \cup claimed
                          \/ cur = t /\ dpc \in {"delete", "free"}
        IN  caller # dispatcher

(* A timer that nobody stopped is never forgotten: while segments of its   *)
(* delay are left, or it is periodic, it counts down, is about to be armed *)
(* or waits to be; an expiry that was counted is in a list the dispatch    *)
(* task will visit; and a list that is not empty has its wake-up.          *)
DueNotLost ==
    /\ \A t \in attached \ stopped :
        /\ left[t] > 0 \/ t \in Periodic =>
            \/ t \in active
            \/ \E i \in 1..Len(cmds) : cmds[i].op = "arm" /\ cmds[i].timer = t
            \/ \E c \in Tasks : call[c].timer = t
            \/ fires[t] > 0
            \/ cur = t /\ dpc = "rearm"
        /\ fires[t] > 0 => t \in From(head) \cup Batch
    /\ head # NULL => sem \/ daemon = "give" \/ dpc = "detach"
=============================================================================
