# A TLA+ model of the RainMaker Neo firmware SDK

This directory models the parts of the SDK whose correctness depends on order: what runs
between two atomic accesses, what arrives after a cancel, what is left after a publish that
failed, what a restart finds. TLC checks the modules on small instances, and TLAPS proves most
of their safety properties and one refinement for every value of the constants. `PROJECT.json`
ties every definition to the lines it models.

Paths below are relative to `src/components/`.

## 1. The system

The SDK connects a device (and, when it is a bridge, its child nodes) to a cloud over MQTT. An
application creates a node with devices and parameters, calls `esp_rmaker_start`, and from then
on parameter changes travel to the node's named and indexed shadows, remote changes and
schedules come back, and jobs (firmware updates) run. It is layered: `osal` (tasks, queues,
timers, MQTT, storage on FreeRTOS and on POSIX), `esp_rmaker_neo_common` (work queue, backoff,
runtime gate, credentials), `esp_rmaker_neo` (core, network, data model, services, bridge) and
`esp_rmaker_neo_ota`.

Five kinds of thread meet in it, with few locks between them: the application's tasks, the
worker of the work queue, the event loop that delivers MQTT completions and connection events,
the MQTT client that delivers messages, and the timer task of the scheduler. Almost every hard
behaviour is one of these overtaking another, or a restart between two of their steps.

### Inventory

| Component | State | Operations | Interacts with | Hard part | What makes it correct |
|---|---|---|---|---|---|
| Work queue (`work_queue.c`) | atomic state, an immortal FIFO, the worker | init, start, stop, deinit, add_task | everybody adds tasks; the core runs its lifecycle | producers race with the lifecycle, worker starts before `RUNNING` is stored | one worker; no entry outlives a lifecycle; stop and deinit end |
| Backoff (`retry/backoff.c`) | atomic handle, reset generation, delay | fire, retry, reset | report pipeline, retry manager, OTA, MQTT | lock-free, addresses reused | a timer has one owner; a reset is final |
| Scheduler, FreeRTOS (`scheduler_freertos.c`) | timer blocks, pending list, flags, command mutex | schedule, reset, stop, cancel; expiry, dispatch | every timer of the SDK | blocks freed by whoever holds them last; expiries merged | no use after free; no lost and no stale expiry |
| Timer chain (`osal_timer_chain.h`) | epoch, segment start | clamp, boundary, next | scheduler | clock that reads short, late dispatch | never early, nothing lost |
| State report (`network_state_report.c`, `dm_state_changes.c`) | per-node lists, tag hashes, debounce timer | update, tag, full report, report task, PUBACK | work queue, backoff, MQTT, bridge | list cleared before the PUBACK; PUBACKs name no node | no change is forgotten; a failed report is repeated |
| Core (`esp_rmaker_core.c`, `retry_manager.c`, `runtime_gate.c`) | trackers bit-fields, retry contexts, gate | node_init, start, stop, node_deinit, start/stop/setup tasks | work queue, MQTT, event loop, every subsystem | bit-fields shared without a lock; calls that only queue work | teardown after the worker; states tell the truth |
| Cloud manager and events (`network/cloud/`) | SUBACK gate, inbox, version and details in progress | start listening, requests, answers, commit of a version | event loop, retry manager, services | expected count lowered while acks arrive; the two halves of a handshake cross | a listening node is subscribed; a committed version is held; the node catches up |
| Schedules (`services/schedules.c`) | handles in memory, entries in storage, version | install, arm, fire, remove, re-arm, reload | work queue, `esp_schedule`, storage, time zone | memory, timer, storage and version disagree after a failure or a restart | a one-shot fires once; what is stored is what runs; what is due fires |
| OTA jobs (`ota_jobs.c`, `esp_rmaker_ota.c`, `ota_nvs.c`) | job, state, deferred event, boot slots, verdict in storage | events, timeouts, recovery, reboot check | work queue, backoff, MQTT, storage, bootloader | stale events, restarts between verdict and report | success is true; a verdict is kept and delivered; a job ends |
| OTA download (`image/`) | bitmap, request count, tracker in storage, partition | request, block, timeout, resume, subscription | work queue, scheduler, MQTT, storage | late, doubled and lost blocks; power loss between writes; file types that cannot resume or compute an MD5 | a success is the whole image; the tracker is true; a download ends |
| OTA status (`ota_status.c`) | cache of final statuses with versions and timers | send, answer, retry, resend | OTA jobs, scheduler, event loop | three tasks on one entry; lost and reordered answers | a decided status reaches the cloud and is never replaced |
| Bridge and node configuration (`bridge/`, `node/`) | child pool, request table, pending list, checksums | add, remove, commit, drain, acks and answers | work queue, MQTT client, event loop, retry manager, storage | slots reused while answers are under way; configurations that return to an earlier one; two mutexes | a READY child is known; a configuration is not forgotten |
| MQTT client (`osal/mqtt`) | connection flags, subscription list, command pool, agent task | connect, disconnect, force reconnect, publish, subscribe, unsubscribe; completions | everything on the network | completions after a disconnect, sessions resumed or not, full pool | what is believed subscribed is; every operation completes |
| POSIX primitives (`osal/**/*_posix.c`) | one mutex and condition variables per object | queue, semaphores, mutexes, event group, event loop | every component of a POSIX build | signals that wake the wrong thread, time-outs, spurious wake-ups | no wake-up is lost |
| POSIX scheduler (`scheduler_posix.c`) | flags, due time, a thread per task | reset, stop, cancel, expiry | every timer of a POSIX build | a call between the end of the timed wait and the callback | what is armed runs, a cancel returns |
| Claiming (`claim/`) | factory partition, claim data, session, event group | the four commands, session events, perform | provisioning app, factory partition | power cuts and failed writes between four writes; a context freed under a command | a claimed node's credentials belong together; a command has its context |
| Credentials and migration (`credentials/`) | providers in memory, flags, stored host and id | check, start, events, time-out, write-back | boot loader, event loop, OTA | a roll-back after the new host was stored | the old image never meets the new host; an image that cannot connect is given up, if the time-out starts and the roll-back is accepted |
| Automation, budget, node core, storage, host control, local control, data model, discovery, HTTP, console | see `PROJECT.json` | | | | |

`PROJECT.json` lists all 34 parts; those without a module say why (section 6 sums it up).

## 2. The modules

Each module has its own Init, one action per operation or step, Next, Spec and (where liveness
is checked) FairSpec. Operators that a comment calls a mutant stand before the definition they
vary; they are plausible bugs used to see that a property can fail and are never part of Next.

**WorkQueue** (`work_queue.c`). One step per access of the atomic `queue_state` and per queue
operation. `queueState`, `queue` are the C variables, `pc`, `item`, `ret` the local state of
the tasks. The application's calls are `InitLoad`..`DeinitPark`, a producer's
`AddTask`/`AddGate`/`AddSend`, the worker's `WorkerLoop`/`WorkerReceive`/`WorkerRun`/
`WorkerExit`; an entry may itself call `esp_rmaker_work_queue_stop`, as the core's stop task
does. Lifecycle calls come from one task (the application), as the API expects.

**Backoff** (`retry/backoff.c`). One step per atomic access or scheduler call. A handle is an
address that may be handed out again after a cancel, so the ABA cases exist. `calledSince`,
`owed` and `steps` are history.

**TimerDispatch** (`scheduler_freertos.c`). One step per critical section, semaphore operation
or command to the FreeRTOS timer task, whose command queue is bounded. User tasks run in the
dispatch task and may call the scheduler themselves. Flags of a block are sets of timers. Time
is counted in segments. `From` is a linked list as a set. Left out: creation failures, init and
deinit of the backend, and periodic timers longer than one timer period (TimerChain has their
arithmetic).

**TimerChain** (`osal_timer_chain.h`, `osal_tick_math.h` and their use in
`scheduler_freertos.c`). The pure operators are `SplitDelay`, `Clamp`, `Boundary`, `Target`
and `Step`; a small machine of ticks, expiries and late dispatches drives them, and the
reference they are checked against is `Elapsed`, the number of delays really over.

**StateReport** (`network_state_report.c`, the update in `dm_param.c`). A parameter's value is a
version number. One step per critical section: store the value (`SetParam`), insert it into
the list (`Insert`), arm the debounce timer (`Fire`); the timer queues the report task, whose
visit to one node is one step because it holds that node's lock. The broker (external)
applies publishes in order and may lose a publish or its PUBACK; the handler sees the shadow
and the status of a completion and no node. Failures modelled: either publish refused, no
memory for payload or list entry, lost publish, lost PUBACK, full work queue. A list entry
that found no memory is a known loss (`refused`). Left out: timeseries records, notify
fields, `updates_pending`, the runtime gate, the addition and removal of children.

**Core** (`esp_rmaker_core.c`, `retry_manager.c`). `trackers` is one byte of bit-fields that
the application and the worker write without a lock, so a store is a load and a store-back
and either may be lost. The start and stop tasks are taken apart at their error exits and at
the points another task can see. The retry context is shown for the cloud setup. One
application task. Left out: failures of node_init, a second node_init, the online status.

**CloudSync** (`esp_rmaker_core.c`, `network/cloud/cloud_manager.c`, `cloud_events.c`,
`retry_manager.c`, the filters of `bridge_subscriber.c`). What happens after every connection:
`Listen` subscribes, the event loop counts SUBACKs (`SubscribeAck`, `CompareAck`) while the
worker lowers the target (`Lower`, `Check`), `GetCloudInfo` asks for group and version, and the
handshake commits a version once its details are there. The connection breaks, publishes and
subscribes are refused or lost, and the cloud edits and pushes meanwhile. One of the services
with a version is modelled. Left out: stop_listening, session resumption, the children's paths.

**Schedules** (`services/schedules.c`). `live` are the handles, `nvs` the stored entries,
`version` what the node has committed to. The install task, the fire task and the re-arm task
are as many steps as they have locked regions and writes, and the power may fail between any
two. Every write, and the building of every single entry, may fail: an entry that cannot be
parsed, allocated or created, or is beyond the maximum, is skipped under the committed version
(`Skips`); a write that fails voids the version, or does not even manage that (`Voids`); a stored
list that cannot be read at boot counts as none. Instants are small numbers; the four kinds of
schedule are those of the trigger fields; a disabled schedule is as one that is absent.
`esp_schedule` is external. Left out: children's schedules, erase_node, unload_node, an arming
that `esp_schedule` refuses.

**OtaStatus** (`ota_status.c`) and **JobReport**. OtaStatus has one entry per job with the
expected version, the cached final status and its timer, used by the worker, the event loop
and the retry task; the Jobs service and a network that loses, reorders and duplicates are
external. JobReport is the abstract specification of what it promises: the cloud's record of a
job ends only in a status the device decided, and never changes after that. `Report == INSTANCE
JobReport` maps the record and the decisions (variables of the same name), and the run checks
`ImplementsReport == Report!Spec`.

**OtaJobs** (`ota_jobs.c`, `esp_rmaker_ota.c`, `ota_nvs.c`). One action is one case of one
`handle_state_*()` function, run by the worker on one event of its queue; cloud, timers,
download and application post in any order. What survives a restart is `nvs` (the job that
awaits verification) and `boot` (slots, trial, roll-back). OtaStatus and OtaImage appear as
what they promise: a cached status is settled at last, a download ends. The error exits between
the verdict and its report are taken one by one (`Enable`, `EnableFails`, `MarkValid`,
`MarkInvalid`, `Posted`, `PostDownload`, `Forget`). The history `holes` notes where the code itself
gives up what the properties promise: "flash", "queue" and "untimed" are a write, an event and a
timer that failed unseen, "enable" a call that failed after its timers were armed, "verdict" a
verdict lost on the way to the flash, "trial" an image that stays on trial with nobody to judge it,
and "mixed" a success that a main job takes although it was meant for another job (items 23 to
25). Left out: disable and deinit, the pool of event buffers.

**OtaImage** (`image/ota_mqtt_downloader.c`, `ota_mqtt_downloader_bitmap.c`,
`ota_image_handler.c`, `ota_timeout_handler.c`, the tracker of `ota_nvs.c`). `dl` is the
request in progress, `net` the blocks that may arrive in any order and more than once, `flash`
the image every block of the partition comes from, `nvs` the tracker. Power may fail in any
state and inside the task that writes a block. A file type may lack the two optional callbacks:
`Hashed` are the images whose MD5 can be computed, `Resumable` those whose partition can be
reopened; the bitmap is resumed for all of them, as in the code. Every timer may fail to start
and every write of the tracker may fail. Left out: the HTTP downloader, progress reports, the
content of hash and signature, partitions of their own for custom file types, and a tracker that
cannot be erased at the end of a download when the next one goes to the other partition.

**Bridge** (`bridge/esp_rmaker_bridge.c`, `bridge_events.c`, `bridge_child_nvs.c`,
`bridge_subscriber.c`, `node/node_config.c`, `node_config_pending.c`, with the node-config
retry context and the inbox of the cloud manager). `slots` is the node and the pool, `requests`
the table of bridgeAcks awaited, `pend` and `inflight` the flags of the pending list, `nvs` the
checksums, `inbox` the callbacks. `lockB` and `lockP` are the two mutexes where one is held
across a step. A configuration is a revision of a child's devices: `ChangeNode` attaches a device
or takes one off, `Content` says what the document of each revision says, and a revision may say
what an earlier one said. The code compares documents (`SameSum`), and so cannot tell two such
revisions apart (`Mistaken`). The application, the worker, the MQTT client (which runs a child's answers
itself), the event loop and the retry timer interleave; the cloud answers late, twice, never
or with a rejection. Left out: a child's cloud information, triggers and schedules, deinit.

**MqttClient** (`osal_mqtt_core_impl.c`, `osal_mqtt_subscription_manager.c`,
`core_agent_command_pool.c`). One step per access of a variable another task can see. `keep`,
`alive`, `xIsConnected`, `bits` are the flags by which the calls and the agent task see each
other, `list` the subscriptions, `xCommandQueue` and `pending` the commands that hold an element
of the pool. The agent library, the TLS connection and the broker are external; the broker keeps
a persistent session until it drops it. Left out: `drop()`, deinit, the delivery of messages.

**PosixSync** (`queue_posix.c`, `semaphore_posix.c`, `event_group_posix.c`,
`event_loop_posix.c`). Each object is a monitor, and one step is one stay in its mutex: from the
lock to the unlock or to the wait. A signal makes one waiter runnable, which has to get the
mutex again; waits time out and end for no reason, as POSIX allows. Left out: task metadata.

**PosixTimer** (`scheduler_posix.c`). The thread of one task, the end of its timed wait apart
from the callback, with reset, stop and cancel from outside and from the callback itself.

**Claim** (`claim.c`, `claim_rules.c`, the pre-provisioning calls of `esp_rmaker_core.c`). `ep`
is the command that runs under `claim_ctx_lock`; every write to the factory partition is a step
and may fail, power may fail between any two, replies may be lost. A certificate is the pair of
id and key it was issued for. `Retire` and `Release` are the end of `perform`, which frees the
context while the session may still be up. Left out: self claiming, challenge-response.

**Migration** (`migration.c`, `credentials/common.c`, `factory_part.c`). `flags` and `providers`
are the C variables, `events` the event loop, `image` and `pending` what the boot loader
(external) runs and may still roll back. These may fail: the initialisation, at any of its exits
(`NodeInitFails`), the start of the time-out, the roll-back, each write. Left out: the text of keys
and certificates.

*Modules side by side.* Small components share a run with a larger one: **MCWorkQueue** has
WorkQueue, PosixTimer and Migration, **MCBackoff** has Backoff and PosixSync, **MCCore** has Core
and Claim, **MCOsal** has TimerChain and MqttClient. OtaImage is in two of them: MCCore has its
safety with three images, MCWorkQueue its liveness with one. The variable `part` says which
component a behaviour is about; the others stay in one initial state. They share no variable, so
the run explores the sum of their states, and the properties of the guest
(`Claiming!ClaimedIsWhole`, say) are given a name in the host. Where a guest has an action enabled
from the beginning, fairness is asked of it in its own part only. In the same way `box` of
**MCBridge** says which of two sets of bounds a behaviour keeps to.

How they fit: the modules above the OSAL use the work queue by what a caller sees of it (a
bounded FIFO that may refuse) and a backoff timer as armed or not; WorkQueue and Backoff have
the inside. Backoff uses the scheduler as if its calls took effect at once; TimerDispatch has
that inside, and TimerChain the arithmetic of TimerDispatch's segments. Core starts and stops
the worker and queues the setup, CloudSync has the inside of the setup, Bridge what the setup
kicks, Schedules what becomes of the details CloudSync commits. OtaJobs rests on OtaStatus and
OtaImage. MqttClient is what all of them assume of the network on this side: an accepted
operation completes, in success or failure. PosixSync and PosixTimer stand under them in a POSIX
build. Claim and Migration come before a start: they decide which credentials Core connects with.

### Known gaps as history variables

Where the code gives something up (section 5), a property would fail at once and say no more.
These modules record the event in a history variable that no action reads, and the property
excepts exactly the states after it: `holes` (OtaJobs, CloudSync, Bridge), `lost` and `again`
(Schedules), `bare` (CloudSync), `spoiled` (the images under whose tracker the partition
was erased) and `starved` (OtaImage), `unarmed` and `crashed` (OtaStatus), `stuck` and `deaf`
(Bridge), `givenUp` (Migration: a start that no time-out watches), `unsure`, `orphans` and `skipped` (MqttClient),
`swallowed` (PosixSync), `stale` (PosixTimer). Each is set at the line of the code that loses
something, so a property still shows that nothing *else* loses it.

## 3. The runs

| Run | Instance | Distinct states | Shows |
|---|---|---|---|
| `work_queue` | WorkQueue: 1 producer, 2 worker identities, queue of 2, 2 lifecycles. PosixTimer: 4 calls. Migration: 3 initialisations, 1 failed call or write, 3 events. OtaImage: 1 image with all callbacks, 3 blocks, 2 per request, 2 starts, 1 fault. Fair | 165,359 | `AtMostOneWorker`, `NoStaleEntryRuns`, `StopCompletes`; `ArmedRuns`; `RollbackKeepsHost`, `NotStranded`; `DownloadEnds` |
| `state_report` | 1 node, 2 parameters (1 indexed), 2 tag sets, 1 failure, 2 publishes in flight; fair | 884,700 | `NoOwnUpdateForgotten`, `FailedReportRetried` |
| `backoff` | Backoff: 3 tasks, 3 addresses, 2 resets, delays 1..4. PosixSync: 3 threads and the worker, capacity 2, 2 bits, 4 calls | 363,293 | `OneOwner`, `ResetIsFinal`; `NoLostWakeup` |
| `timer_dispatch` | one-shot of up to 2 segments and periodic timer, 1 caller, 2 resets or stops, catch-up 2 | 3,933,804 | `NoUseAfterFree`, `NoStaleExpiry`, `DueNotLost` |
| `osal` | TimerChain: 5 delays from below a tick to three periods, slack 1, skew 1, lateness 2. MqttClient: 1 task, 1 topic, 2 operations, 3 calls, 2 broken connections; fair | 939,491 | `NeverEarly`, `NoneLost`; `BelievedIsSubscribed`, `AcceptedCompletes` |
| `core` | Core: queue of 3, 7 lifecycle calls. Claim: 2 ids, 2 keys, 2 fragments, 7 commands, 2 faults. OtaImage: 3 images (a: MD5, all callbacks; b: no MD5, no callbacks; c: MD5 that cannot be computed, resumable), 3 blocks, 2 per request, 2 starts, 1 fault | 5,212,025 | `TeardownAlone`, `StartedIsUp`; `ClaimedIsWhole`, `CommandHasContext`; `WholeImage` |
| `cloud_sync` | a bridge with one filter, 1 edit, 1 lost connection, 1 fault; fair | 1,555,696 | `CommittedIsHeld`, `GateOpens`, `Synced` |
| `schedules` | 1 id, 2 edits, 4 kinds, 3 instants, 2 faults (restarts among them); fair | 1,032,064 | `FiresOnce`, `Scheduled`, `StoredIsLive`, `DueFires` |
| `ota_status` | 1 job, 2 entries, 2 sends, 1 fault; fair | 442,048 | `NotForgotten`, `ReportSettled`, `ImplementsReport` |
| `ota_jobs` | 7 sets of job documents (one or two jobs; image, data, custom, windowed, malformed, unknown type), up to 2 faults; fair | 362,078 | `SuccessIsTrue`, `JobEnds`, `VerdictDelivered` |
| `bridge` | the node and one slot. Wide box: 2 children in turn, table of 1, 2 configurations, 3 calls, 1 fault. Deep box: 1 child, 3 configurations of which the third says what the first said, 4 calls, no faults | 5,137,445 | `ReadyIsKnown`, `ConfigNotForgotten`, `NothingStranded` |
| `bridge_sync` | the same instance; it fails in the deep box, without a fault | violated | `AlreadyInSync` does not hold (item 17) |

*What the less obvious ones say.* `DueNotLost`: a running timer always counts down, is about to
be armed or has its expiry in a list the dispatch task will be woken for. `GateOpens`: no SUBACK
falls between the count and the target. `CommittedIsHeld`: a persisted version is that of the
details the node has. `Scheduled`: what the committed version asks for is held until its time.
`StoredIsLive`: a restart brings back what runs. `WholeImage`: a download reported as succeeded left
the whole image; for image c, whose MD5 is not checked, that rests on the tracker alone
(`TrackerTrue`, which is proved, and was checked on the same instance). `ConfigNotForgotten`: a committed configuration that is off the pending list, or a later one, has
been accepted by the cloud. `SuccessIsTrue`: a firmware job ends in success
only when its image ran and was found valid. `NothingStranded`: a configuration on the pending
list has a retry, a drain, a publish or an answer to come. `BelievedIsSubscribed`: a topic whose
SUBACK the service has seen, on a connection reported up, is subscribed at the broker (for tasks
that do not share a topic).
`NoLostWakeup`: no thread sleeps while the condition it waits for holds and nobody is on the way
to it. `RollbackKeepsHost`: while the old image runs the stored host is the old one.

*Why the bounds are enough.* Two worker identities suffice to see a second worker; two
lifecycles to see an entry cross from one to the next; a queue of two (three in Core, where
start, stop and setup tasks wait together) fills. Three tasks on one backoff context include
one that takes the handle, one that resets and one that re-uses the address. A catch-up of two
is the least at which expiries merge; two timers the least at which the pending list has a link
to break. Seven lifecycle calls are init, start, start, stop, deinit and two of the next
lifecycle. Three calls of the bridge are add, remove, add again, or add and two commits; the
four of its deep box are add and three commits: a configuration, another, and the first again. Two
edits of one schedule id are the replacement of one by another; two blocks of three per request
leave a second batch that late blocks of the first can meet; of the three images one is checked in
full, one has no tracker and one is resumed without a check. Liveness of the download is
looked at with one image, since `DownloadEnds` speaks of one download at a time; a block that never
comes is no fault there, so one fault is enough for a request without a timer to be lost. One fault
leaves the retry it causes in plain view. TimerChain's horizon covers three of the longest periods. Seven
commands of the claim are one whole claim and the beginning of a second. Three initialisations of
a migration are the first start, the restart and the roll-back. Larger
instances that take too long to keep as runs were checked once without an error: `cloud_sync`
with two faults (2,967,000 states), `timer_dispatch` with a command queue of two (12,822,060),
OtaImage with two faults (9,467,160, and 428,298 of one image with `DownloadEnds`).
`CHECK_DEADLOCK FALSE` appears where the bounds end every behaviour (calls, edits or jobs used
up, horizon reached); in Bridge the two mutexes can also lock each other out (section 5).

The type invariants are not listed in the runs: those of the modules with a proof module are
proved (those of Bridge, OtaJobs and MqttClient without the bounds of their runs, the last two for
the variables the argument speaks of), the others were checked on the instances above. The same
holds of further properties that the modules state and that were checked once: `QueuedIsLinked`, `CancelledHasOwner`,
`DelayCountsRetries`, `StoppedIsDown`, `SetupNotForgotten`, `AllArmed`, `ListeningIsLive`,
`BatchEnds`, `NotDeaf`, `CountdownKept`, `VerdictKept`, `PerformEnds`; and the
inductive invariants of section 4, each on the instance of its run before it was proved.

*Fairness.* Weak fairness of every task that is inside a call, of the worker, of the event
loop, of the MQTT client and of the timer's dispatch task: they are tasks of a preemptive
scheduler that nothing blocks for ever. A timer that is armed fires, and the MQTT client
completes every publish it accepted, in success or failure. `StopCompletes` assumes the
producers fall silent in the end, since a producer that always adds keeps the worker draining
(`work_queue.c:54`). OtaImage assumes nothing of the network: a block, a SUBACK or a connection
may never come, and the download still ends, unless one of its requests had no timer. OtaStatus assumes that the Jobs service answers
and that of the updates sent again and again one that can end the job gets through (strong
fairness; losses are finite). OtaJobs assumes that the cloud answers, a download ends, a boot
completes and the application, or its timer, reports, unless the failure of that timer, of the
roll-back or of the call to enable has been noted in `holes`; a SUBACK and an answer to a final status
find room in the queue at last (strong). CloudSync assumes that the network delivers and
reconnects. Schedules assumes that the worker, due timers and the poll of the clock run; the
details the cloud owes arrive and find room; nobody has to edit, and the clock need not ever be
right. MqttClient assumes that its agent task runs,
that the broker acknowledges what was sent unless the connection breaks first, and that a
connection is accepted in the end. PosixTimer assumes that its thread runs and that time passes;
Migration that the node is initialised, the network comes up and the event loop runs. Nobody is
obliged to make a call. Bridge, Backoff, PosixSync, TimerDispatch, TimerChain, Core and Claim are
checked for safety only.

## 4. The proofs

Eight modules hold theorems. Each proves Init => Inv and Inv /\ [Next]_vars => Inv' for an
inductive Inv, one step per action, and concludes with PTL. They use only the named ASSUMEs of
the modules, which TLC evaluates in every run: that bounds are natural numbers, that a sentinel
(`NULL`, `None`) is not one of the values it stands beside, that two threads are different. None
bounds the number of tasks, nodes, parameters, timers, jobs, images, blocks, ids or keys.

* **WorkQueue_proofs**. `LifecycleSafety` and `SingleWorker` (`AtMostOneWorker`): the invariant
  says which worker and application labels each queue state allows, and (`FreshQueue`) that every
  entry in the queue is of the present lifecycle except during the flush of init;
  `NoStaleEntryRuns` alone says nothing of entries not yet taken. `MigrationSafety`
  (`RollbackKeepsHost`): `Verified` says that an image that still waits for verification has
  not the flag "valid", nor an event in the loop that would set it, and `OldImage` what an old
  image's memory and event loop may hold. The FreeRTOS scheduler (TimerDispatch), for any timers,
  tasks, queue length and number of resets: `FreedSafety` (`NoUseAfterFree`), `ExpirySafety`
  (`NoStaleExpiry`) and `DueSafety` (`DueNotLost`) from one invariant of seven parts.
  `SchedulerTypes`; `CallsOK`, what a call in progress knows of its timer and may still send;
  `Blocks`, which flags, handles and tasks keep a block allocated; `Links`, that the QUEUED flag
  is exactly membership in one of the two lists, that the tail is the end of the pending list
  and that no list runs in a circle; `Deletions`, that a delete command is the last for its
  timer and its block's last owner sends it; `Seqs`, that a stop of the daemon stands between an
  old count-down and the publication that clears the flag which drops its expiries; `Dues`, that
  what is left of a delay has an arm command, a count-down or an expiry in a list.
  A linked list is the least set that contains its first timer and is closed under `next`
  (`From`), not a recursion: that a list grows, is cut or stays by an assignment to `next`
  follows from it by set theory alone (lemmas `ReachLeast` to `ReachCut`).
* **Reports_proofs**. State reports, `OwnUpdatesSafe` (`NoOwnUpdateForgotten`) for any nodes,
  parameters and tasks. The strengthening is `Ordered`: along cloud, wire and current value
  versions only grow, so a publish that arrives late cannot take the shadow back past what a
  later one brought; and `TargetOK`, what the call in progress is about. The status of an update:
  `TypeCorrect`; `StatusKept` (`NotForgotten`), from `Named` (a call, an update and a resend name
  the entry they are about), `Decided` (only a decided status travels) and `Concluded` (what the
  node was told to be over is); and `ReportImplemented`, the refinement
  `Spec => ImplementsReport`: every step of the detailed module, whatever of it is lost, doubled
  or reordered, is a step of JobReport or a stutter.
* **Retry_proofs**. The retry context, `BackoffSafety` (`OneOwner`) and `ResetSafety` (`ResetIsFinal`) for any
  number of tasks and addresses. `LocalsOK` types the locals by label, `ArmedIsRecorded` says a
  call that saw the latest generation is on record, and `HandleDoomed` that a timer the context
  holds after a reset, before a new call armed one, has a call about to remove it.
  `WakeUpSafety` (`NoLostWakeup` of PosixSync) for any threads, capacity and bits: `Counted` says
  that whoever waits is behind as many woken threads as there is to take, by a count that every
  step keeps (`Enough`); `GroupMet` that nobody waits for bits that are set; `Ended` that nobody
  waits in a loop that ends; `Waiters` which call a waiting thread may be in.
  The timer chain, for any delays, tick rate, longest period, slack, skew and lateness:
  `EarlySafety` (`NeverEarly`) and `LostSafety` (`NoneLost`). `Window` bounds an expiry's dispatch;
  `OneShot` says that a one-shot task is armed, due or served; `ShortPeriod` that expiries lie on
  the grid and that runs and expiries together count the periods behind the next one;
  `LongPeriod` that every period before the boundary ahead of the segment (`Ahead`) is served or
  decided (`Covered`), and that the timer expires at most one late arm after it. The quotients of
  `Boundary` and `Elapsed` are replaced by the multiples they count (`BoundaryFacts`,
  `ElapsedFacts`). The download, `WholeImageSafety` (`WholeImage`) and `TrackerSafety`
  (`TrackerTrue`), for any images and file types: `Streams` (a queued task belongs to the download
  in progress), `Partition` (a block no longer to do is in the partition, of this image, unless
  the partition was erased under its tracker), `Tracker` (so is what the tracker counts as
  received) and `Reported` (a success was reported on a complete partition).
* **Agreement_proofs**. The OTA job machine, `SuccessSafety` (`SuccessIsTrue`) for any jobs, file
  types, faults and length of the event queue. `Phases` says which states may have an error recorded, a status
  queued or a boot under way. The rest holds until a hole noted that the file type of the
  running job was overwritten or a success mixed up (`Astray`): `Place`, that the states which
  act on the job's fields act on those of its own document; `Writing`, that while a main image is
  written no other is staged, on trial or unjudged; `Awaited`, that what the flash keeps of the
  job to verify says where its image is; `Founded`, that no success is cached or delivered for a
  main job whose image did not run. Without "mixed" the invariant is not inductive, and the
  counterexamples to induction are runs of the code with more faults than the run has: item 24.
  The MQTT client, `SubscribedSafety` (`BelievedIsSubscribed`) for any tasks, topics, pool,
  operations, calls and lost connections, under one hypothesis: no two tasks are at once in calls
  that change the subscription of one topic (`Alone`). With one task it always holds
  (`OneTaskSubscribed`), without it the property fails (item 9). `Whereabouts` and `Calls` tie the
  state of an operation to where it is; `Connection` says that nothing is pending or believed
  without the connection it belongs to, and that what is queued while none is served is noted as
  an orphan; `Sorted` and `Turn` that the operations on a topic are queued, sent and answered in
  the order they began, and that the one of the call at hand is the last. Hence what is promised
  of each topic without orphans (`Kept`): a SUBSCRIBE under way has its entry unless an
  UNSUBSCRIBE comes behind it (`InList`); a believed topic has one (`Trusted`); who is about to
  take an entry out leaves nobody that counts on it (`Taken`); and an entry is subscribed at the
  broker, unsure, or a command that sees to it is on its way (`Served`, `Renewed`, `Sent`). TLC
  checked all of it with two tasks on one topic under `Alone` before it was proved: 10,031,787
  distinct states.
* **Bridge_proofs**, for any ids, slots, tables, queues, calls and faults; each invariant was
  checked by TLC on the run's instance before it was proved.
  `KnownSafety` (`ReadyIsKnown`): requests reach the cloud in the order of their numbers and are
  answered in it (`InOrder`, `Answered`), so a bridgeAck that finds its add in the table
  (`Tables`) leaves no removal of that child on the way (`Asking`), and the cloud has it (`Held`).
  `StrandedSafety` (`NothingStranded`): a listed node in flight has its configuration or an answer
  on the way (`Travelling`), any other has a drain, a timer or a reconnection to come (`Coming`);
  a lost connection comes back with an event (`ComesBack`), the gateway's own answers are the only
  ones in its work queue (`OwnQueue`), and a child that is not added yet is not listed
  (`NewUnlisted`). `ForgottenSafety` (`ConfigNotForgotten`): the configurations of a child reach
  the cloud in their order (`Rising`), so one that was accepted is never undone by another on its
  way (`Accepted`), and answers, the stored checksum and the callback speak of accepted ones only
  (`Granted`, `Stored`). It holds for any contents of the configurations, because a checksum that
  is taken for that of another revision is noted as a hole (`Mistaken`): any other that equals the
  node's is of the node's own revision. For a slot that is used again this rests on the order of the messages:
  what an earlier child of the same id sent goes before the add (`Before`), what came back for it
  before the bridgeAck (`After`), so a child that becomes READY finds nothing of it (`Unused`,
  `Freeing`), and the gateway's own configuration is never taken for a child's (`Own`).
* **Core_proofs**. `TeardownSafety` (`TeardownAlone`): `WorkerOwnsQueue` ties the existence of
  the worker to the queue's state, with the one exception between the task's creation and the
  store of RUNNING; `FullWhileAlive` says that no byte about to be stored back can turn
  `is_init_full` off behind the application's back. `StartedSafety` (`StartedIsUp`) adds
  `LinkInv`: the connection and the handler are up wherever STARTED is stored or about to be,
  but while the worker takes them down. `ClaimSafety` (`ClaimedIsWhole`) and `ContextSafety`
  (`CommandHasContext`): `ClaimInv` follows a claim through its request, its response and the
  verdict in the event group, and says who may hold the lock while the context lives.
* **CloudSync_proofs**. `TypeCorrect`; `VersionSafety` (`CommittedIsHeld`) from `Held`: until
  details come without their version no half of the handshake waits for another, and the version
  is that of the details; `GateSafety` (`GateOpens`) from `Gate`: the SUBACKs counted in
  start_listening are those of this attempt, the ones under way come after any lost connection
  in the event loop, and what was compared and met is the bit.
* **Schedules_proofs**, for any number of ids, any day length and any clock. `RebootSafety`
  (`StoredIsLive`) from `Ident` (an edit made once is one schedule wherever it is) and `Backed`
  (what the storage has is live, or an install or the boot is about to bring it);
  `ScheduledSafety` (`Scheduled`) from `Instant` (a due time, a handle and a stored entry agree
  on the instant), `Committed` and `Kept` (what is committed is live, in an installation to come,
  or over); `FiresOnceSafety` (`FiresOnce`) from `Once` (one task for a schedule and none for
  one that is over, save where the history `again` says so), `Cross` (a handle and its stored
  entry have one instant) and `New` (what has not been installed has no trace).

Model-checked only, because fairness is out of the prover's reach: every liveness property.
Every invariant the runs list is stated by a theorem. Of the properties checked once,
`DelayCountsRetries` (a power of a variable) and the others of section 3 that no bullet above
names stay with TLC.

## 5. Where code and documents disagree, and what the code gives up

Properties in quotation of a comment, document or test are stated in the modules and known not
to hold; each was seen to fail with TLC. One of them has a run of its own, which TLC must find
violated (`bridge_sync`, item 17); no run lists the others.

*Lifecycle, reports and timers.*

1. `NoStrandedUpdate` (StateReport): a change made while a report runs, after its node was
   visited, arms the debounce timer; the reset at the end of the report task
   (`network_state_report.c:948`) cancels it. "A state change schedules the report after"
   (`docs/en/specs/state_management.md:105`).
2. `NoUpdateForgotten` (StateReport): a failed PUBACK of a bridge child repeats the node's own
   state (`network_state_report.c:502`), and the child's change is lost. "A failed shadow PUBACK
   schedules a subsequent **full** state report" (`state_management.md:129`).
3. `CommittedTagsArrived` (one node's PUBACK commits every node's tags) and `TagUpdateReported`
   (a tag update alone meets an empty list) in StateReport.
4. `OnGrid` (TimerChain): a boundary reached one tick early within the slack is served twice
   when the period takes several segments. "periodic cadence measured from the epoch cannot
   drift" (`osal_timer_chain.h:18`).
5. TimerDispatch: a run that has passed its last check starts after a cancel.
   `FireSurvives` (Backoff): ABA on the handle.
6. `NoStaleTaskRuns` (a producer preempted between the gate and the send crosses a whole
   lifecycle) and `QueuedWorkRunsBeforeExit` in WorkQueue.
7. `DeinitAfterStop` (Core): start, start, stop, node_deinit can end in "still running". "Start
   twice should be OK (idempotent)" (`test_core_start_stop.c:52`). Also `GateClosedWhenStopped`,
   `RetriesStopped`, `StartedHasWorker`; and the late stores of STARTING
   (`esp_rmaker_core.c:1740`) and STOP_REQUESTED (`:1758`) may overwrite what the worker stored
   meanwhile, after which node_deinit may poll for ever, so no liveness of Core is claimed.

*MQTT client and POSIX.*

8. `StartConnects` (MqttClient): connect() that finds the agent of the lifecycle before on its way
   out starts none, and the start task waits for the connected bit; a disconnect whose flag is set
   between the connection and the agent's loop leaves the stop task waiting.
9. `CleanOnlyOnce` (MqttClient): "Reset the clean session flag to the configured default for
   future reconnect attempts" (`osal_mqtt_core_impl.c:799`), but the parameter `xCleanSession`
   shadows the global one. Also: the entry of a failed SUBSCRIBE stays in the list, and gets a
   simulated SUBACK when a session is resumed (`unsure`); a command that is queued while the
   connection is replaced may be dropped without a completion (`orphans`); resubscribe_all is
   refused because `xIsConnected` is not set yet. unsubscribe removes every entry of its topic
   after it queued the command (`osal_mqtt_core_impl.c:1357`): a second task that subscribed the
   topic in between is subscribed at the broker and has no entry. With two tasks on one topic
   `BelievedIsSubscribed` therefore fails; the run has one task, and the theorem about several
   assumes that no two are at it at once (`Alone`).
10. `FreedIsUnused`, `NoneDropped` (PosixSync): osal_event_loop_delete_default frees the loop under
   a poster it woke, and drops what is queued. A peek takes the signal meant for a receiver
   (`swallowed`). In event_group_sync and waits that clear, the first to leave clears the bits the
   others wait for. A handler that is unregistered after the worker copied it is still called.
11. `NoStaleFire`, `SelfCancelIsSafe` (PosixTimer): a thread whose wait is over looks at `running`
   only, so it fires after a reset or a stop; a task that cancels itself is freed under its own
   thread, against "Safe from inside a task callback, including on that callback's own handle"
   (`osal_scheduler.h:103`).

*Claiming and migration.*

12. Power that fails between the writes of the certificate and of the host leaves a node that has a
   certificate, is taken for claimed, and has no host; claiming is skipped from then on.
13. `UsesTarget` (Migration): an initialisation that fails after the certificate's name went in use
   (`migration.c:285`) leaves the flag for that name alone; the next one "sees our own providers, so
   keep the first result" (`migration.c:268`) and never moves to the target host. A time-out that
   cannot be scheduled (`:351`) and a roll-back that is refused (`:216`) are only logged: a pending
   image that never connects then stays (`givenUp`).

*Bridge and node configuration.*

14. `OneWayLocks`: the pending list's comment says the lock order is one-way, bridge then pending
   (`node_config_pending.c:21-24`). The drain and the disconnection take the pending mutex first
   and walk the children inside it; `__free_child_locked` resets the node, which takes the
   pending mutex, under the bridge mutex (`node_core.c:239`). Worker, event loop and application
   can wait for each other for ever.
15. A commit that falls between the stale-answer comparison and `node_config_pending_remove` is
   dropped from the list. An answer takes whatever callback the inbox has for the node, also
   that of a newer publish, so a configuration can be marked accepted before its own answer.
16. `bridge_child_nvs_erase` is never called ("Used on remove_child", `bridge_child_nvs.h:97`):
    a child removed and added again with the same configuration is not published, and a callback
    that outlives the removal stores a checksum of the old life. A checksum that cannot be stored
    is only logged (`node_config.c:322`).
17. `AlreadyInSync` (Bridge), "Already in-sync: drop from pending list" (`node_config.c:488`): the
    stored checksum is that of the last *accepted* configuration. A is stored, B (a device attached)
    is committed and sent, the device is taken off (`esp_rmaker_node_remove_device`) and A
    committed again: A counts as unchanged and the node leaves the list, while the cloud takes B.
    B's answer is stale, and nobody sends A. No fault is needed. In the same way the answer to an
    earlier publish of A is taken for that of a later one (`node_config.c:366`).
18. A lost or expired bridgeAck leaves a child PENDING_ADD for good, a failed removal leaves it
    PENDING_REMOVE. The entries of removed children outlive their slots, so the table, sized for
    one request per slot, can be full.
19. "the retry context will refire" (`node_config.c`) after a rejection or a stale answer: nobody
    kicks it. The PUBACK of one node stops the retry another one needs. A failed PUBACK re-arms
    the retry but leaves the node in flight, so the drain skips it until the connection is lost.
    A reconnection whose task finds the queue full (`esp_rmaker_core.c:338`) is not noticed.

*Cloud setup and schedules.*

20. SUBACKs of an attempt that timed out are counted for the next one; a connection lost during
    start_listening is not noticed; a payload that finds the queue full is dropped; a late
    PUBACK stops the retry of a newer request; details without a version are committed under
    whatever version comes next (`bare`).
21. A version is committed when its details are handed to the work queue, not when they are
    installed (`cloud_events.c:671`, against `cloud_communication.md:48,51`); a refused task or a
    restart in between loses them. Of the details that arrive, an entry that cannot be allocated,
    parsed or created is skipped (`schedules.c:1502-1538`), and those beyond the maximum are cut off
    (`:1441`), while the version of all stays committed. Stored schedules that cannot be read at
    boot count as none (`:1717`), and a version that should be voided stays if that write fails,
    too (`:962`): the cloud has no reason to send them again (`lost`).
22. `StaleIdMisses` (Schedules): "a stale id just misses", but an edit under the same id is
    removed in place of the schedule that fired. A relative one-shot whose instant was not
    stored starts its countdown again, also when the cloud sends it unchanged; a weekday
    one-shot whose removal was cut off re-arms for the next day; the re-arm after a change of
    time prunes a one-shot that is due and not dispatched; a fire task the queue refuses leaves
    a spent one-shot in place.

*OTA.*

23. `TypeKept` (OtaJobs): file type and handler of the running job are overwritten by those of a
    document that is then rejected or ignored (`custom_filetypes.md:71`).
24. POST_DOWNLOAD ignores a rejected update, and an acceptance is hidden by another job's cached
    status; a refused re-enqueue of the download's success, or of the recovery of a custom job,
    leaves the job waiting; job notifications are ignored in REBOOT_CHECK; a response timeout
    that fires late is an error of the next job, whose download goes on; power lost between
    set_boot and the write of the verdict reports REJECTED for an image that was installed.
    A success can reach the wrong job ("mixed"): the application's late report for a custom job,
    or the DL_OK of a download that an error of its job left running, is taken by the main job
    that came after it; the record of the job to verify keeps an earlier record's file type,
    since `esp_rmaker_ota_nvs_set_job_pending_verification` writes one only if it is given one
    (`ota_nvs.c:73`, `ota_jobs.c:2594`); and a main job that starts while an earlier verdict is
    awaited finds that verdict for an image of its own that never ran.
25. The exits between a verdict and its report (OtaJobs). `mark_valid` returns without verdict or
    event when the roll-back timer cannot be freed or the flash not written
    (`esp_rmaker_ota.c:603-616`); an image it could not mark (`:593`) is reported FAILED and stays
    on trial with its timer gone. `mark_invalid` whose roll-back is refused (`:647`), or whose
    timer cannot be freed, leaves the image on trial with nobody to judge it. REBOOT_CHECK may find no
    room, and the verdict of a boot may not be written: neither result is looked at (`:212-213`,
    `:619`). The roll-back timer, and the status timers of a download and of a custom file type's
    reboot, may fail to start (`:248`, `ota_image_handler.c:184`). The record of the job to verify
    may not be written before the restart (`ota_jobs.c:2596`), nor cleared after the report
    (`:1598`), nor when it is given up at the initialisation (`:1470`). Status flags that cannot be
    read count as a failure (`:1540`). After any of these the job waits in its state for a
    restart or for ever, and so does the cloud; no false success comes of them.
26. `ResumeNeverHarms` (OtaImage): when resuming the partition fails and it is begun afresh, the
    resumed bitmap is kept (`ota_image_handler.c:277`, against `docs/en/specs/ota/job_document.md`),
    so the checks fail a job that a download from the start would have completed. `AsksForAll`, "if
    you leave this `NULL`, your filetype never resumes" (`custom_filetypes.md:34`): the bitmap is
    resumed for every handler (`ota_mqtt_downloader.c:1343-1409`), also for one whose partition is
    begun afresh because it has no `on_download_resume`; when it has no `get_md5_hash` either, or
    when resuming failed for such a one, the MD5 check is skipped (`ota_image_handler.c:108`) and a
    partial image is reported SUCCEEDED. A job without an MD5 overwrites the partition under another
    job's tracker. A request that fails before its context exists has no timer, nor has one whose
    timer could not be started (`ota_mqtt_downloader.c:832`) or restarted (`:986`): if its blocks
    are lost the download never ends (`starved`). A timeout callback that runs during the cleanup
    uses a freed handler.
27. `NoFreedEntryUsed` (OtaStatus): the retry task reads the entry after it left the cache lock;
    an answer may have freed it.

## 6. Not modelled, and what is left

Not modelled because there is no control to check: notification and topic text, console, event
loop registration, time synchronisation flag, HTTP, discovery, protocomm, network status, heap
monitor (input and output over external libraries); cryptography, base64 and the signing port
(pure conversions of external code); generated protobuf code; the codecs. Host control and local
control run one command at a time and call the public functions modelled here (host control
counts the entries of a command in a byte, `host_ctrl_processing_impl.c:42`).

Left to model: the MQTT budget; automation triggers (trigger tables, evaluation on a change,
storage and version); the key-value file of the POSIX storage and the image backends with
restarts; the HTTP downloader; disable and deinit of OTA; the children's schedules and triggers;
local endpoints.

Left to prove: the invariants that section 3 lists as checked once and section 4 does not name.
