------------------------------ MODULE PosixSync ------------------------------
(***************************************************************************)
(* The queue, semaphores, event group and event loop of the OSAL on POSIX  *)
(* (queue_posix.c, semaphore_posix.c, event_group_posix.c,                 *)
(* event_loop_posix.c).  Each is a monitor: one mutex, one or two          *)
(* condition variables, and calls that test a condition, wait for it       *)
(* without a limit, with one or not at all, act, and signal.               *)
(*                                                                         *)
(* One step is one stay in the mutex: from the lock to the unlock or to    *)
(* the wait.  A signal wakes one waiting thread, a broadcast all; the      *)
(* thread has to get the mutex again, others may come first, and POSIX     *)
(* lets a thread wake for no reason.  The objects share nothing, so a      *)
(* behaviour is about one of them.                                         *)
(***************************************************************************)
EXTENDS Integers, FiniteSets

CONSTANTS
    Threads,    \* threads that call
    Worker,     \* the thread of the event loop
    Bits,       \* bits of the event group
    Handlers,   \* event handlers
    Capacity,   \* capacity of the queues, highest count of the semaphore
    MaxDepth,   \* bound: depth of the recursive mutex
    MaxEntries  \* bound: calls made

(* What is assumed of the constants.                                       *)
PosixConstants == /\ IsFiniteSet(Threads) /\ {Worker, "nobody"} \cap Threads = {}
                  /\ Capacity \in Nat \ {0} /\ MaxDepth \in Nat /\ MaxEntries \in Nat

VARIABLES
    object,             \* what the behaviour is about
    th,                 \* th[t]: the call t is in, and where
    count,              \* items, units or events
    owner, depth,       \* the mutex
    bits,               \* the event group
    running, live,      \* the event loop: its flag; it is not freed
    handlers, copied,   \* handlers registered; those the worker has still to call
    entries,            \* calls counted against MaxEntries
    dropped,            \* history: events accepted and never dispatched
    swallowed           \* history: a signal woke a thread that left the condition true

mutex == <<owner, depth>>
loop  == <<running, live, handlers, copied, dropped>>
vars  == <<object, th, count, mutex, bits, loop, entries, swallowed>>

Everyone == Threads \cup {Worker}
NoOne    == "nobody"
Objects  == {"queue", "semaphore", "plain", "mutex", "group", "loop"}
Limits   == {"zero", "timed", "forever"}

-----------------------------------------------------------------------------
(* The calls of an object.                                                 *)
Call(n)     == [name |-> n, mask |-> {}, add |-> {}, all |-> TRUE, clear |-> FALSE]
Masks       == SUBSET Bits \ {{}}
WaitBits    == [name : {"wait"}, mask : Masks, add : {{}}, all : BOOLEAN, clear : BOOLEAN]
Sync        == [name : {"sync"}, mask : Masks, add : SUBSET Bits, all : {TRUE}, clear : {TRUE}]
SetBits     == [name : {"set"}, mask : {{}}, add : Masks, all : {TRUE}, clear : {FALSE}]
ClearBits   == [name : {"clear"}, mask : Masks, add : {{}}, all : {TRUE}, clear : {FALSE}]

QueueCalls     == {Call("send"), Call("receive"), Call("peek")}
SemaphoreCalls == {Call("take"), Call("give")}
PlainCalls     == {Call("take_mutex"), Call("give_mutex")}
RecursiveCalls == {Call("take_recursive"), Call("give_recursive")}

Calls == CASE object = "queue"     -> QueueCalls
           [] object = "semaphore" -> SemaphoreCalls
           [] object = "plain"     -> PlainCalls
           [] object = "mutex"     -> RecursiveCalls
           [] object = "group"     -> WaitBits \cup Sync \cup SetBits \cup ClearBits
           [] OTHER                -> {Call("post")}

Idle == [call |-> Call("none"), limit |-> "zero", at |-> "idle"]

(* The condition a call waits for, and the condition variable it waits on. *)
Met(c, b) == IF c.all THEN c.mask \subseteq b ELSE c.mask \cap b # {}

Ready(t, c) ==
    CASE c.name = "send" -> count < Capacity
      [] c.name = "post" -> count < Capacity \/ ~running
      [] c.name \in {"receive", "peek", "take"} -> count > 0
      [] c.name = "dequeue" -> count > 0 \/ ~running
      [] c.name = "take_mutex" -> owner = NoOne
      [] c.name = "take_recursive" -> owner \in {NoOne, t}
      [] c.name \in {"wait", "sync"} -> Met(c, bits \cup c.add)
      [] OTHER -> TRUE

Cond(c) == IF c.name \in {"send", "post"} THEN "not_full" ELSE "not_empty"

Waiting(v) == {u \in Everyone : th[u].at = "wait" /\ Cond(th[u].call) = v}

(* pthread_cond_signal and pthread_cond_broadcast: who may be woken.       *)
Signal(v)    == IF Waiting(v) = {} THEN {{}} ELSE {{u} : u \in Waiting(v)}
Broadcast(v) == {Waiting(v)}
Nobody       == {{}}

(* Mutant of Wakes: a sender signals only when the queue was empty, and    *)
(* set_bits wakes one of the waiting threads.                              *)
WakesTheFirst(c) ==
    CASE c.name \in {"send", "post"} -> IF count = 0 THEN Signal("not_empty") ELSE Nobody
      [] c.name \in {"receive", "dequeue"} -> Signal("not_full")
      [] c.name = "give" -> IF count < Capacity THEN Signal("not_empty") ELSE Nobody
      [] c.name \in {"give_mutex", "give_recursive"} -> IF depth = 1 THEN Signal("not_empty") ELSE Nobody
      [] c.name \in {"set", "sync"} -> Signal("not_empty")
      [] OTHER -> Nobody

(* Whom a call wakes when it has done its work.                            *)
Wakes(c) ==
    CASE c.name \in {"send", "post"} -> IF running THEN Signal("not_empty") ELSE Nobody
      [] c.name \in {"receive", "dequeue"} -> Signal("not_full")
      [] c.name = "give" -> IF count < Capacity THEN Signal("not_empty") ELSE Nobody
      [] c.name \in {"give_mutex", "give_recursive"} -> IF depth = 1 THEN Signal("not_empty") ELSE Nobody
      [] c.name \in {"set", "sync"} -> Broadcast("not_empty")
      [] OTHER -> Nobody

(* What a call does to the object.  A full semaphore refuses a give.       *)
Effect(t, c) ==
    /\ count' = CASE c.name \in {"send", "post"} /\ running -> count + 1
                  [] c.name \in {"receive", "take"} -> count - 1
                  [] c.name = "dequeue" /\ count > 0 -> count - 1
                  [] c.name = "give" /\ count < Capacity -> count + 1
                  [] OTHER -> count
    /\ owner' = CASE c.name \in {"take_mutex", "take_recursive"} -> t
                  [] c.name \in {"give_mutex", "give_recursive"} /\ depth = 1 -> NoOne
                  [] OTHER -> owner
    /\ depth' = CASE c.name \in {"take_mutex", "take_recursive"} -> depth + 1
                  [] c.name \in {"give_mutex", "give_recursive"} -> depth - 1
                  [] OTHER -> depth
    /\ bits' = (bits \cup c.add) \ (IF c.clear \/ c.name = "clear" THEN c.mask ELSE {})

Moved(t, mine, woken) ==
    [u \in Everyone |-> IF u = t THEN mine
                        ELSE IF u \in woken THEN [th[u] EXCEPT !.at = "awake"] ELSE th[u]]

-----------------------------------------------------------------------------
(* A call finds its condition met, is refused because it may not wait, or  *)
(* waits.  osal_event_group_sync sets its bits and broadcasts before it    *)
(* waits.  Only the owner gives a mutex: from others nothing changes.      *)
Enter(t) ==
    /\ th[t].at = "idle" /\ entries < MaxEntries /\ live
    /\ entries' = entries + 1
    /\ \E c \in Calls, l \in Limits :
          /\ c.name = "take_recursive" /\ owner = t => depth < MaxDepth
          /\ c.name \in {"give_mutex", "give_recursive"} => owner = t
          /\ IF Ready(t, c)
             THEN /\ Effect(t, c)
                  /\ \E w \in Wakes(c) : th' = Moved(t, Idle, w)
             ELSE /\ bits' = bits \cup c.add
                  /\ \E w \in IF c.name = "sync" THEN Broadcast("not_empty") ELSE Nobody :
                        th' = Moved(t, IF l = "zero" THEN Idle
                                       ELSE [call |-> c, limit |-> l, at |-> "wait"], w)
                  /\ UNCHANGED <<count, mutex>>
    /\ UNCHANGED <<object, loop, swallowed>>

(* A thread that was woken has the mutex again: it goes on or waits again. *)
Resume(t) ==
    LET c == th[t].call
    IN  /\ t \in Threads /\ th[t].at = "awake"
        /\ IF Ready(t, c)
           THEN /\ Effect(t, [c EXCEPT !.add = {}])
                /\ \E w \in IF c.name = "sync" THEN Nobody ELSE Wakes(c) : th' = Moved(t, Idle, w)
                /\ swallowed' = (swallowed \/ c.name = "peek")
           ELSE /\ th' = [th EXCEPT ![t].at = "wait"]
                /\ UNCHANGED <<count, mutex, bits, swallowed>>
        /\ UNCHANGED <<object, loop, entries>>

(* pthread_cond_timedwait returns ETIMEDOUT: the call gives up without     *)
(* another look at the condition.                                          *)
TimeOut(t) ==
    /\ th[t].at = "wait" /\ th[t].limit = "timed"
    /\ th' = [th EXCEPT ![t] = Idle]
    /\ UNCHANGED <<object, count, mutex, bits, loop, entries, swallowed>>

Spurious(t) ==
    /\ th[t].at = "wait"
    /\ th' = [th EXCEPT ![t].at = "awake"]
    /\ UNCHANGED <<object, count, mutex, bits, loop, entries, swallowed>>

-----------------------------------------------------------------------------
(* The thread of the event loop takes an event and a copy of the handlers, *)
(* or leaves when the loop is to end and no event is left; and calls the   *)
(* handlers without the mutex.                                             *)
Dequeue ==
    /\ object = "loop" /\ th[Worker].at \in {"idle", "awake"} /\ copied = {}
    /\ \/ /\ count > 0
          /\ Effect(Worker, Call("dequeue"))
          /\ \E w \in Wakes(Call("dequeue")) : th' = Moved(Worker, Idle, w)
          /\ copied' = handlers
       \/ /\ count = 0
          /\ th' = [th EXCEPT ![Worker] = [call |-> Call("dequeue"), limit |-> "forever",
                                           at |-> IF running THEN "wait" ELSE "gone"]]
          /\ UNCHANGED <<count, mutex, bits, copied>>
    /\ UNCHANGED <<object, running, live, handlers, dropped, entries, swallowed>>

Handle ==
    /\ \E h \in copied : copied' = copied \ {h}
    /\ UNCHANGED <<object, th, count, mutex, bits, running, live, handlers, dropped, entries,
                   swallowed>>

(* osal_event_handler_register and _unregister                             *)
Register(t, h) ==
    /\ object = "loop" /\ th[t].at = "idle" /\ entries < MaxEntries /\ live
    /\ handlers' = IF h \in handlers THEN handlers \ {h} ELSE handlers \cup {h}
    /\ entries' = entries + 1
    /\ UNCHANGED <<object, th, count, mutex, bits, running, live, copied, dropped, swallowed>>

(* osal_event_loop_delete_default: the flag and both broadcasts, ...       *)
Delete(t) ==
    /\ object = "loop" /\ th[t].at = "idle" /\ running
    /\ running' = FALSE
    /\ th' = Moved(t, [call |-> Call("delete"), limit |-> "forever", at |-> "join"],
                   Waiting("not_empty") \cup Waiting("not_full"))
    /\ UNCHANGED <<object, count, mutex, bits, live, handlers, copied, dropped, entries, swallowed>>

(* ... and when the worker has been joined, what is left is freed.         *)
Free(t) ==
    /\ th[t].at = "join" /\ th[Worker].at = "gone"
    /\ dropped' = dropped + count /\ count' = 0
    /\ live' = FALSE
    /\ th' = [th EXCEPT ![t] = Idle]
    /\ UNCHANGED <<object, mutex, bits, running, handlers, copied, entries, swallowed>>

-----------------------------------------------------------------------------
Init ==
    /\ object \in Objects
    /\ th = [t \in Everyone |-> Idle]
    /\ count = 0
    /\ owner = NoOne /\ depth = 0
    /\ bits = {}
    /\ running = TRUE /\ live = TRUE
    /\ handlers = {} /\ copied = {}
    /\ entries = 0 /\ dropped = 0 /\ swallowed = FALSE

Next == \/ \E t \in Threads : Enter(t) \/ Resume(t) \/ TimeOut(t) \/ Delete(t) \/ Free(t)
        \/ \E t \in Everyone : Spurious(t)
        \/ \E t \in Threads, h \in Handlers : Register(t, h)
        \/ Dequeue \/ Handle

Spec == Init /\ [][Next]_vars

-----------------------------------------------------------------------------
TypeOK ==
    /\ object \in Objects
    /\ th \in [Everyone -> [call : {Call(n) : n \in {"none", "send", "receive", "peek", "take", "give",
                                                    "take_recursive", "take_mutex", "post",
                                                    "dequeue", "delete"}}
                                   \cup WaitBits \cup Sync,
                            limit : Limits, at : {"idle", "wait", "awake", "join", "gone"}]]
    /\ count \in 0..Capacity
    /\ owner \in Threads \cup {NoOne} /\ depth \in 0..MaxDepth /\ (depth = 0 <=> owner = NoOne)
    /\ bits \subseteq Bits /\ handlers \subseteq Handlers /\ copied \subseteq Handlers
    /\ {running, live, swallowed} \subseteq BOOLEAN /\ entries \in 0..MaxEntries /\ dropped \in Nat

(* What there is to take: items and units to receive, room to send, the    *)
(* mutex, or anything once the loop is to end.                             *)
Units(v) == IF v = "not_full" THEN Capacity - count
            ELSE IF object \in {"plain", "mutex"} THEN IF owner = NoOne THEN 1 ELSE 0
            ELSE count

(* No wake-up is lost: a thread that waits for something that is there is  *)
(* behind as many woken threads as there is to take, each of which will    *)
(* take one or find it gone; one that waits for bits that are set has been *)
(* woken itself, and nobody waits in a loop that ends.  Excepted is a      *)
(* peek, which may be woken in place of a receiver and leaves the item.    *)
NoLostWakeup ==
    /\ object # "group" /\ ~swallowed =>
         \A v \in {"not_empty", "not_full"} :
            Waiting(v) = {} \/ Cardinality({u \in Everyone : th[u].at = "awake" /\ Cond(th[u].call) = v})
                                 >= Units(v)
    /\ object = "group" => \A u \in Waiting("not_empty") : ~Ready(u, [th[u].call EXCEPT !.add = {}])
    /\ object = "loop" /\ ~running => Waiting("not_empty") \cup Waiting("not_full") = {}

(* "Free remaining queued items": the loop is freed under nobody's feet.   *)
(* A thread that osal_event_loop_delete_default woke from a full queue     *)
(* still has to take the mutex.                                            *)
FreedIsUnused == ~live => \A t \in Threads : th[t].at # "awake"

(* Every event the loop accepted is dispatched before it is freed.         *)
NoneDropped == dropped = 0
=============================================================================
