----------------------------- MODULE MCBackoff -----------------------------
(***************************************************************************)
(* The retry context and the POSIX primitives, checked side by side: part  *)
(* says which one a behaviour is about, the other stays as it began.       *)
(*                                                                         *)
(* retry: three tasks and three addresses of timers.  posix: three threads *)
(* make up to four calls in all of a queue, semaphore, mutex, event group  *)
(* or event loop.  Tasks or threads, and addresses, are interchangeable.   *)
(***************************************************************************)
EXTENDS Backoff, TLC

CONSTANTS Worker, Bits, Handlers, Capacity, MaxDepth, MaxEntries

VARIABLES
    part,
    object, th, count, owner, depth, bits, running, live, handlers, copied, entries, dropped,
    swallowed

Posix == INSTANCE PosixSync WITH Threads <- Procs

ASSUME PosixAssumption == Posix!PosixConstants

posixVars == <<object, th, count, owner, depth, bits, running, live, handlers, copied, entries,
               dropped, swallowed>>

BackoffInit ==
    /\ part \in {"retry", "posix"}
    /\ Init /\ Posix!Init
    /\ part # "posix" => object = "queue"

BackoffNext ==
    \/ part = "retry" /\ Next /\ UNCHANGED <<part, posixVars>>
    \/ part = "posix" /\ Posix!Next /\ UNCHANGED <<part, vars>>

BackoffSpec == BackoffInit /\ [][BackoffNext]_<<part, vars, posixVars>>

Symmetry == Permutations(Procs) \cup Permutations(Handles)

(* No wake-up of a waiting thread is lost (queue_posix.c,                  *)
(* semaphore_posix.c, event_group_posix.c, event_loop_posix.c).            *)
NoLostWakeup == Posix!NoLostWakeup
=============================================================================
