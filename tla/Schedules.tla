------------------------------ MODULE Schedules ------------------------------
(***************************************************************************)
(* The schedule service of one node                                        *)
(* (esp_rmaker_neo/src/services/schedules.c).  The cloud's details are     *)
(* installed by a work-queue task that replaces the node's list of handles *)
(* wholesale, arms them, and stores the list as it then stands; the timer  *)
(* thread copies a due schedule into a fire task; the fire task runs the   *)
(* action and takes a spent one-shot off the list and out of NVS; a boot   *)
(* rebuilds the list from NVS.                                             *)
(*                                                                         *)
(* Three threads: the worker (one task at a time, in order), the timer     *)
(* thread, and the cloud side that queues.  A handle list is only touched  *)
(* under the node's lock, so a task is as many steps as it has locked      *)
(* regions and NVS writes; the power may fail between any two.             *)
(*                                                                         *)
(* A schedule is its cloud id, the edit that made it, and its kind:        *)
(*   dated     one instant, once (a date arm with a year)                  *)
(*   relative  once, "at" seconds after it is armed                        *)
(*   weekday   the next time of day "at", once                             *)
(*   daily     every time of day "at"                                      *)
(* Timers are those of module TimerDispatch: a deleted handle's callback   *)
(* is not running any more (the port's cancel waits for it).               *)
(***************************************************************************)
EXTENDS Integers, Sequences, FiniteSets

CONSTANTS
    Ids,        \* cloud ids
    Kinds,      \* the kinds of schedule the cloud makes
    Day,        \* instants in a day
    MaxTime,    \* bound: instants
    MaxEdits,   \* bound: edits made in the cloud
    MaxQueue,   \* the capacity of the work queue
    MaxFaults   \* bound: faults of the environment

ASSUME KindsAssumption == Kinds \subseteq {"dated", "relative", "weekday", "daily"}
ASSUME BoundsAssumption == /\ Day \in Nat \ {0} /\ MaxTime \in Nat /\ MaxEdits \in Nat
                           /\ MaxQueue \in Nat /\ MaxFaults \in Nat

VARIABLES
    now,        \* the wall clock, as it should read
    synced,     \* osal_timesync_is_synced()
    timeReady,  \* __time_ready: arm_all has run since the boot
    cloud,      \* the schedules the cloud holds
    cloudVer,   \* their version, one more with every edit
    version,    \* the version persisted by the node, or -1
    nvs,        \* the persisted details: schedules and their "ts"
    live,       \* the node's handles
    queue,      \* tasks in the work queue
    wpc,        \* the worker: "boot", "idle", "remove" (after a fire),
                \* "store" (what was installed) or "persist"
    work,       \* the schedule that the fire task has to remove
    fired,      \* history: how often the action of every edit was run
    due,        \* history: the instant every edit was first armed for
    lost,       \* history: edits the node dropped without a trace
    again,      \* history: one-shots whose instant the node does not know
    faults      \* faults of the environment so far

vars == <<now, synced, timeReady, cloud, cloudVer, version, nvs, live, queue, wpc, work, fired, due,
          lost, again, faults>>

clockVars == <<now, synced, timeReady>>
cloudVars == <<cloud, cloudVer>>
history   == <<fired, due, lost, again>>

Edits     == 1..MaxEdits
Instants  == 0..MaxTime
Never     == 0
Targets   == 0..(2 * MaxTime + Day)
Schedule  == [id : Ids, edit : Edits, kind : Kinds, at : 1..MaxTime]
(* A persisted schedule and the instant it was armed for ("ts").           *)
Stored    == [s : Schedule, ts : Targets]
(* A handle: its schedule, the instant a relative trigger counts down to,  *)
(* next_fire_ts, and whether its timer runs.                               *)
Handle    == [s : Schedule, target : Targets, ts : Targets, armed : BOOLEAN]

OneShot(s) == s.kind # "daily"
Faults(n) == faults + n <= MaxFaults /\ faults' = faults + n
Fault == Faults(1)
HasRoom == Len(queue) < MaxQueue

Init ==
    /\ now = 0 /\ synced \in BOOLEAN /\ timeReady = FALSE
    /\ cloud = {} /\ cloudVer = 0
    /\ version = 0 /\ nvs = {} /\ live = {}
    /\ queue = <<>> /\ wpc = "idle" /\ work = <<>>
    /\ fired = [k \in Edits |-> 0] /\ due = [k \in Edits |-> Never]
    /\ lost = {} /\ again = {}
    /\ faults = 0

-----------------------------------------------------------------------------
(* Arming                                                                  *)

(* External: when esp_schedule arms schedule s for, if ever again.         *)
NextFire(s, target) ==
    CASE s.kind = "dated"    -> IF s.at > now THEN s.at ELSE Never
      [] s.kind = "relative" -> IF target = Never THEN now + s.at
                                ELSE IF target > now THEN target ELSE Never
      [] OTHER               -> CHOOSE t \in (now + 1)..(now + Day) : t % Day = s.at % Day

(* esp_schedule_enable and the timestamp callback it makes or does not.    *)
Enable(h) ==
    LET t == NextFire(h.s, h.target) IN
    [h EXCEPT !.ts = t, !.armed = (t # Never),
              !.target = IF h.s.kind = "relative" /\ t # Never THEN t ELSE @]

MayArm == timeReady \/ synced
ArmOrDefer(h) == IF MayArm THEN Enable(h) ELSE h

(* Mutant of Spent: a handle that was not armed yet counts as spent.       *)
SpentUnarmed(h) == h.ts = Never

(* __schedule_is_spent: nothing left to fire, and a clock to tell it by.   *)
Spent(h) == MayArm /\ synced /\ h.ts = Never

(* Mutant of AlreadyDue: a replay does not look at "ts".                   *)
AlreadyDueUnseen(x) == FALSE

(* A stored one-shot whose instant has passed is not restored.             *)
AlreadyDue(x) == OneShot(x.s) /\ x.ts # Never /\ synced /\ x.ts <= now

(* __parse_trigger: a replayed "ts" is the end of a relative countdown.    *)
NewHandle(x) == [s |-> x.s, target |-> IF x.s.kind = "relative" THEN x.ts ELSE Never,
                 ts |-> Never, armed |-> FALSE]

(* __build_schedule_details_for_node_locked, of the entries S that can be  *)
(* built.                                                                  *)
Build(S) ==
    LET armed == {ArmOrDefer(NewHandle(x)) : x \in {y \in S : ~AlreadyDue(y)}}
    IN  {h \in armed : ~Spent(h)}

(* __serialize_node_schedules_locked: "ts" for one-shots that were armed.  *)
Serialized == {[s |-> h.s, ts |-> IF OneShot(h.s) THEN h.ts ELSE Never] : h \in live}

(* The instants the edits are armed for, as first seen.                    *)
NoteDue(handles) ==
    due' = [k \in Edits |->
              IF due[k] = Never /\ \E h \in handles : h.s.edit = k /\ h.armed
              THEN (CHOOSE h \in handles : h.s.edit = k /\ h.armed).ts ELSE due[k]]

EditsOf(S) == {x.s.edit : x \in S}

(* Of the entries in "all" those of S are built.  One that cannot be       *)
(* parsed, allocated or created, or is beyond MAX_SCHEDULES_PER_NODE, is   *)
(* skipped, and nobody is told.                                            *)
Skips(all, S) ==
    \/ S = all /\ UNCHANGED <<lost, faults>>
    \/ S # all /\ Fault /\ lost' = lost \cup EditsOf(all \ S)

(* The version is voided, or stays because that write failed, too.         *)
Voids(unstored) ==
    \/ Fault /\ version' = -1 /\ UNCHANGED lost
    \/ Faults(2) /\ version' = version /\ lost' = lost \cup unstored

-----------------------------------------------------------------------------
(* The cloud                                                               *)

(* External: a user edits, or deletes, a schedule.                         *)
Edit(id, kind, at) ==
    /\ cloudVer < MaxEdits
    /\ kind = "dated" => at > now
    /\ kind \in {"weekday", "daily"} => at <= Day
    /\ cloudVer' = cloudVer + 1
    /\ cloud' = {s \in cloud : s.id # id}
                  \cup {[id |-> id, edit |-> cloudVer + 1, kind |-> kind, at |-> at]}
    /\ UNCHANGED <<clockVars, version, nvs, live, queue, wpc, work, history, faults>>

Delete(id) ==
    /\ cloudVer < MaxEdits
    /\ \E s \in cloud : s.id = id
    /\ cloudVer' = cloudVer + 1
    /\ cloud' = {s \in cloud : s.id # id}
    /\ UNCHANGED <<clockVars, version, nvs, live, queue, wpc, work, history, faults>>

Installs == {i \in 1..Len(queue) : queue[i].task = "install"}
Queued == UNION {EditsOf(queue[i].arg) : i \in Installs}
Delivered(k) == due[k] # Never \/ k \in EditsOf(live) \cup EditsOf(nvs) \cup Queued

Payload == {[s |-> s, ts |-> Never] : s \in cloud}

(* esp_rmaker_cloud_event_response_getSchedDetails: the install is queued  *)
(* and the version committed at once.  Details the node had already are    *)
(* sent again only when it voided its version, or could not read or write  *)
(* it.                                                                     *)
DetailsArrive ==
    /\ wpc # "boot" /\ HasRoom
    /\ queue' = Append(queue, [task |-> "install", arg |-> Payload])
    /\ \/ version # cloudVer /\ version' = cloudVer /\ UNCHANGED faults
       \/ Fault /\ version' \in {version, cloudVer}
    /\ again' = again \cup {k \in EditsOf(Payload) : Delivered(k)}
    /\ UNCHANGED <<clockVars, cloudVars, nvs, live, wpc, work, fired, due, lost>>

(* A full queue (or no memory) refuses the install; the version is         *)
(* committed all the same.                                                 *)
DetailsRefused ==
    /\ wpc # "boot" /\ version # cloudVer
    /\ Fault
    /\ version' = cloudVer
    /\ lost' = lost \cup EditsOf(Payload) \cup (EditsOf(live) \ EditsOf(nvs))
    /\ UNCHANGED <<clockVars, cloudVars, nvs, live, queue, wpc, work, fired, due, again>>

-----------------------------------------------------------------------------
(* The worker                                                              *)

Takes(t) == wpc = "idle" /\ queue # <<>> /\ Head(queue).task = t

Idle == wpc' = "idle" /\ work' = <<>>

(* __update_details_work_queue_task builds the new list ...                *)
Install ==
    /\ Takes("install")
    /\ \E S \in SUBSET Head(queue).arg :
          live' = Build(S) /\ NoteDue(live') /\ Skips(Head(queue).arg, S)
    /\ queue' = Tail(queue)
    /\ wpc' = "store" /\ work' = <<>>
    /\ UNCHANGED <<clockVars, cloudVars, version, nvs, fired, again>>

(* ... or, without memory to parse it, has only released the old one (not  *)
(* even that, if a child's NVS key cannot be derived): that stays in NVS   *)
(* and the version stays committed.                                        *)
InstallFails ==
    /\ Takes("install") /\ Fault
    /\ live' \in {{}, live}
    /\ queue' = Tail(queue)
    /\ lost' = lost \cup EditsOf(Head(queue).arg) \cup (EditsOf(live') \ EditsOf(nvs))
    /\ UNCHANGED <<clockVars, cloudVars, version, nvs, wpc, work, fired, due, again>>

(* ... and __reserialize_and_persist stores the list.                      *)
Persist ==
    /\ wpc \in {"store", "persist"}
    /\ nvs' = Serialized
    /\ Idle
    /\ UNCHANGED <<clockVars, cloudVars, version, live, queue, history, faults>>

(* Mutant of PersistFails: the version is kept.                            *)
PersistFailsKeeps ==
    /\ wpc \in {"store", "persist"} /\ Fault
    /\ Idle
    /\ UNCHANGED <<clockVars, cloudVars, version, nvs, live, queue, history>>

(* When the write fails, an install voids the version.                     *)
PersistFails ==
    /\ \/ wpc = "store" /\ Voids(EditsOf(live) \ EditsOf(nvs))
       \/ wpc = "persist" /\ Fault /\ UNCHANGED <<version, lost>>
    /\ Idle
    /\ UNCHANGED <<clockVars, cloudVars, nvs, live, queue, fired, due, again>>

(* Mutant of Fire: only a schedule whose timer still runs is fired.        *)
FireIfArmed ==
    /\ Takes("fire")
    /\ LET s == Head(queue).arg IN
        /\ fired' = [fired EXCEPT ![s.edit] =
                        IF \E h \in live : h.s = s /\ h.armed THEN @ + 1 ELSE @]
        /\ IF OneShot(s) THEN wpc' = "remove" /\ work' = <<s>> ELSE UNCHANGED <<wpc, work>>
    /\ queue' = Tail(queue)
    /\ UNCHANGED <<clockVars, cloudVars, version, nvs, live, due, lost, again, faults>>

(* __schedule_fire_task runs the action; a spent one-shot is ...           *)
Fire ==
    /\ Takes("fire")
    /\ LET s == Head(queue).arg IN
        /\ fired' = [fired EXCEPT ![s.edit] = @ + 1]
        /\ IF OneShot(s) THEN wpc' = "remove" /\ work' = <<s>> ELSE UNCHANGED <<wpc, work>>
    /\ queue' = Tail(queue)
    /\ UNCHANGED <<clockVars, cloudVars, version, nvs, live, due, lost, again, faults>>

(* The handles with a cloud id.                                            *)
Named(id) == {h \in live : h.s.id = id}

(* ... removed by its cloud id, and the list stored without it.  The       *)
(* handle found may be one that an install has put there since.            *)
Remove ==
    /\ wpc = "remove"
    /\ live' = live \ Named(Head(work).id)
    /\ lost' = lost \cup {h.s.edit : h \in {g \in Named(Head(work).id) : g.s # Head(work)}}
    /\ IF Named(Head(work).id) # {} THEN wpc' = "persist" /\ work' = <<>> ELSE Idle
    /\ UNCHANGED <<clockVars, cloudVars, version, nvs, queue, fired, due, again, faults>>

(* Arming every handle again; those with nothing left to fire are removed  *)
(* and, if there were any, the list is stored.  A weekday one-shot whose   *)
(* fire task is still queued gets another day.                             *)
Rearmed == {h \in {ArmOrDefer(g) : g \in live} : ~Spent(h)}
RescheduleNode ==
    /\ live' = Rearmed /\ NoteDue(Rearmed)
    /\ again' = again \cup {h.s.edit : h \in {g \in live : g.s.kind = "weekday" /\ g.ts # Never /\ ~g.armed}}
    /\ IF Cardinality(Rearmed) < Cardinality(live) THEN wpc' = "persist" /\ work' = <<>> ELSE UNCHANGED <<wpc, work>>

(* __reschedule_all, after a change of the time zone.                      *)
Reschedule ==
    /\ Takes("rearm")
    /\ RescheduleNode
    /\ queue' = Tail(queue)
    /\ UNCHANGED <<clockVars, cloudVars, version, nvs, fired, lost, faults>>

(* The time-sync poll finds the clock synchronised:                        *)
(* esp_rmaker_schedule_service_arm_all.                                    *)
ArmAll ==
    /\ wpc = "idle" /\ synced /\ ~timeReady
    /\ timeReady' = TRUE
    /\ RescheduleNode
    /\ UNCHANGED <<now, synced, cloudVars, version, nvs, queue, fired, lost, faults>>

Worker == Install \/ InstallFails \/ Persist \/ PersistFails \/ Fire \/ Remove \/ Reschedule \/ ArmAll

-----------------------------------------------------------------------------
(* The timer thread, the clock and the power                               *)

IsDue(h) == h.armed /\ h.ts <= now

(* External: esp_schedule arms a repeating schedule again after it fired.  *)
AfterFire(h) == IF OneShot(h.s) THEN [h EXCEPT !.armed = FALSE] ELSE Enable(h)

(* __schedule_trigger_callback queues a copy of the schedule ...           *)
Trigger(h) ==
    /\ IsDue(h) /\ HasRoom
    /\ queue' = Append(queue, [task |-> "fire", arg |-> h.s])
    /\ live' = (live \ {h}) \cup {AfterFire(h)}
    /\ UNCHANGED <<clockVars, cloudVars, version, nvs, wpc, work, history, faults>>

(* ... or loses it, when there is no memory or no room in the queue.       *)
TriggerRefused(h) ==
    /\ IsDue(h) /\ Fault
    /\ live' = (live \ {h}) \cup {AfterFire(h)}
    /\ lost' = lost \cup {h.s.edit}
    /\ UNCHANGED <<clockVars, cloudVars, version, nvs, queue, wpc, work, fired, due, again>>

TimezoneChanges ==
    /\ wpc # "boot" /\ HasRoom /\ Fault
    /\ queue' = Append(queue, [task |-> "rearm", arg |-> {}])
    /\ UNCHANGED <<clockVars, cloudVars, version, nvs, live, wpc, work, history>>

Tick ==
    /\ now < MaxTime
    /\ now' = now + 1
    /\ UNCHANGED <<synced, timeReady, cloudVars, version, nvs, live, queue, wpc, work, history, faults>>

Sync ==
    /\ ~synced
    /\ synced' = TRUE
    /\ UNCHANGED <<now, timeReady, cloudVars, version, nvs, live, queue, wpc, work, history, faults>>

(* A one-shot that was armed and that a boot will arm afresh: it is stored *)
(* without its "ts", or there is no clock to compare a "ts" with that does *)
(* not itself say when to fire.                                            *)
Afresh(x, clock) == /\ OneShot(x.s) /\ due[x.s.edit] # Never
                    /\ x.ts = Never \/ (x.s.kind = "weekday" /\ ~clock)

(* External: the power fails, or the service is stopped and started; the   *)
(* clock may have to be synchronised again.                                *)
Restart ==
    /\ Fault
    /\ synced' \in BOOLEAN /\ timeReady' = FALSE
    /\ live' = {} /\ queue' = <<>> /\ wpc' = "boot" /\ work' = <<>>
    /\ lost' = lost \cup Queued
                    \cup (IF wpc = "store" THEN EditsOf(live) ELSE {})
    /\ again' = again \cup EditsOf({x \in nvs : Afresh(x, synced')})
    /\ UNCHANGED <<now, cloudVars, version, nvs, fired, due>>

(* esp_rmaker_schedule_service_on_start: __reload_for_node replays the     *)
(* stored list and, if that changed it, stores it again.                   *)
Reload ==
    /\ wpc = "boot"
    /\ \E S \in SUBSET nvs : live' = Build(S) /\ NoteDue(live') /\ Skips(nvs, S)
    /\ IF Serialized' # nvs THEN wpc' = "persist" /\ work' = <<>> ELSE Idle
    /\ UNCHANGED <<clockVars, cloudVars, version, nvs, queue, fired, again>>

(* A stored list that cannot be built voids the version; one that cannot   *)
(* be read looks like none, and the version is kept.                       *)
ReloadFails ==
    /\ wpc = "boot"
    /\ \/ Voids(EditsOf(nvs))
       \/ Fault /\ version' = version /\ lost' = lost \cup EditsOf(nvs)
    /\ live' = {}
    /\ Idle
    /\ UNCHANGED <<clockVars, cloudVars, nvs, queue, fired, due, again>>

-----------------------------------------------------------------------------
Cloud == \/ \E id \in Ids, kind \in Kinds, at \in 1..MaxTime : Edit(id, kind, at)
         \/ \E id \in Ids : Delete(id)
         \/ DetailsArrive \/ DetailsRefused
Timer == \E h \in live : Trigger(h) \/ TriggerRefused(h)
Booting == Reload \/ ReloadFails

Next == Cloud \/ Worker \/ Timer \/ TimezoneChanges \/ Tick \/ Sync \/ Restart \/ Booting

(* The worker runs, due timers go off, the poll sees the clock, a boot     *)
(* gets to its end; nobody has to edit, and the clock need not be right.   *)
Fairness == /\ WF_vars(Worker) /\ WF_vars(Booting)
            /\ WF_vars(\E h \in live : Trigger(h))
            /\ WF_vars(Sync) /\ WF_vars(DetailsArrive /\ UNCHANGED faults)

Spec == Init /\ [][Next]_vars
FairSpec == Spec /\ Fairness

-----------------------------------------------------------------------------
TypeOK ==
    /\ now \in Instants /\ synced \in BOOLEAN /\ timeReady \in BOOLEAN
    /\ cloud \subseteq Schedule /\ cloudVer \in 0..MaxEdits
    /\ version \in -1..MaxEdits
    /\ nvs \subseteq Stored /\ live \subseteq Handle
    /\ \A i \in 1..Len(queue) :
        \/ queue[i].task = "install" /\ queue[i].arg \subseteq Stored
        \/ queue[i].task = "fire" /\ queue[i].arg \in Schedule
        \/ queue[i].task = "rearm"
    /\ Len(queue) <= MaxQueue
    /\ wpc \in {"boot", "idle", "remove", "store", "persist"}
    /\ work \in {<<>>} \cup {<<s>> : s \in Schedule}
    /\ fired \in [Edits -> Nat] /\ due \in [Edits -> Targets]
    /\ lost \subseteq Edits /\ again \subseteq Edits
    /\ faults \in 0..MaxFaults
    \* one handle and one stored entry for an id
    /\ \A g, h \in live : g.s.id = h.s.id => g = h
    /\ \A x, y \in nvs : x.s.id = y.s.id => x = y

(* The action of a one-shot is run at most once, whatever power failures   *)
(* fall between the action, the removal and its write ("so a reboot does   *)
(* not resurrect it"), unless the cloud sent the schedule again or a boot  *)
(* did not know its instant.                                               *)
FiresOnce ==
    \A s \in cloud \cup {h.s : h \in live} \cup {x.s : x \in nvs} :
        OneShot(s) => fired[s.edit] <= 1 \/ s.edit \in again

(* A schedule the cloud holds and the node has committed to is there until *)
(* its time: in the list, or in an install that is queued.  Excepted are   *)
(* the schedules that a failure dropped under the committed version.       *)
StillToCome(s) == IF s.kind = "dated" THEN s.at > now
                  ELSE due[s.edit] = Never \/ due[s.edit] > now
Scheduled ==
    (version = cloudVer /\ wpc # "boot") =>
        \A s \in cloud : (s.kind = "daily" \/ (StillToCome(s) /\ fired[s.edit] = 0)) =>
            \/ \E h \in live : h.s = s
            \/ s.edit \in Queued \cup lost

(* What runs is what a reboot would bring back: between two tasks every    *)
(* handle is in NVS, unless the version was voided to fetch it again.      *)
StoredIsLive ==
    (wpc = "idle" /\ Installs = {} /\ version # -1) =>
        \A h \in live : (\E x \in nvs : x.s = h.s) \/ h.s.edit \in lost

(* A relative one-shot keeps the instant it was first armed for: "without  *)
(* [the timestamp] a relative one-shot would recompute now + rsec".        *)
CountdownKept ==
    \A h \in live : (h.s.kind = "relative" /\ h.armed) => h.ts = due[h.s.edit] \/ h.s.edit \in again

(* "a concurrent getSchedDetails may have replaced the set (a stale        *)
(* pointer would be a use-after-free; a stale id just misses)": the fire   *)
(* task never removes another schedule than the one that fired.            *)
StaleIdMisses == wpc = "remove" => \A h \in Named(Head(work).id) : h.s = Head(work)

(* A schedule that comes due is run, unless the cloud replaces it or sends *)
(* it again; neither a fault nor a task that arms again is on the way (it  *)
(* would take a schedule that is due and not dispatched for spent).        *)
Undisturbed == faults = MaxFaults /\ timeReady /\ \A i \in 1..Len(queue) : queue[i].task # "rearm"
DueFires ==
    \A k \in Edits :
        (Undisturbed /\ \E h \in live : h.s.edit = k /\ IsDue(h))
            ~> (fired[k] > 0 \/ k \in again \cup lost \/ ~\E s \in cloud : s.edit = k)

(* After the last fault every schedule of the cloud that is still to come  *)
(* is armed: nothing waits for ever for the clock or the version.          *)
AllArmed ==
    <>[](\A s \in cloud : \/ s.edit \in lost \/ fired[s.edit] > 0
                          \/ OneShot(s) /\ ~StillToCome(s)
                          \/ \E h \in live : h.s = s /\ h.armed)
=============================================================================
