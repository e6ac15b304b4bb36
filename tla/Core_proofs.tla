----------------------------- MODULE Core_proofs -----------------------------
(***************************************************************************)
(* Proofs that the subsystems are taken down only when the worker is gone, *)
(* and that STARTED means up, for every queue size and any number of       *)
(* lifecycle calls.  Then claiming: whole credentials and no command on a  *)
(* freed context, for every number of fragments, commands and faults.      *)
(***************************************************************************)
EXTENDS MCCore, TLAPS

(* add_task never exceeds the queue's capacity.                            *)
LEMMA AddTaskType ==
    ASSUME TypeOK, NEW task \in Tasks, AddTask(task)
    PROVE  queue' \in Seq(Tasks) /\ Len(queue') <= QueueSize
<1>1. CASE CanAdd
  BY <1>1, CoreSizeAssumption DEF TypeOK, ControlType, AddTask, CanAdd
<1>2. CASE ~CanAdd
  BY <1>2 DEF TypeOK, ControlType, AddTask
<1> QED
  BY <1>1, <1>2

(* The queue without its oldest task.                                      *)
LEMMA TailType ==
    ASSUME TypeOK, queue # <<>>
    PROVE  /\ Head(queue) \in Tasks
           /\ Tail(queue) \in Seq(Tasks) /\ Len(Tail(queue)) <= QueueSize
  BY CoreSizeAssumption DEF TypeOK, ControlType

(* The node before its first initialisation.                               *)
LEMMA InitInv == Init => CoreInv
<1> SUFFICES ASSUME Init PROVE CoreInv
  OBVIOUS
<1> USE CoreThreadsAssumption DEF Init
<1>1. DataType
  BY DEF Down, DataType, TrackersType, States
<1>2. ControlType
  BY CoreSizeAssumption DEF ControlType, AppLabels, WorkerLabels
<1>3. FlagType
  BY DEF FlagType
<1>4. WorkerOwnsQueue /\ FullWhileAlive
  BY DEF WorkerOwnsQueue, FullWhileAlive
<1> QED
  BY <1>1, <1>2, <1>3, <1>4 DEF CoreInv, TypeOK

(* Every step of the application and of the worker preserves the invariant.*)
LEMMA StepInv == CoreInv /\ [Next]_vars => CoreInv'
<1> SUFFICES ASSUME CoreInv, [Next]_vars PROVE CoreInv'
  OBVIOUS
<1> USE CoreThreadsAssumption
<1>0. TypeOK /\ WorkerOwnsQueue /\ FullWhileAlive
  BY DEF CoreInv
<1>1. CASE NodeInit
  <2>1. DataType'
    BY <1>1, <1>0
    DEF NodeInit, Call, cloudVars, historyVars, queueVars, TypeOK, DataType, TrackersType,
        States
  <2>2. ControlType'
    BY <1>1, <1>0, CoreSizeAssumption
    DEF NodeInit, Call, cloudVars, historyVars, queueVars, TypeOK, ControlType, AppLabels,
        WorkerLabels, Tasks
  <2>3. FlagType'
    BY <1>1, <1>0, Zenon DEF NodeInit, Call, cloudVars, historyVars, queueVars, TypeOK, FlagType
  <2>4. WorkerOwnsQueue'
    BY <1>1, <1>0
    DEF NodeInit, Call, cloudVars, historyVars, queueVars, TypeOK, ControlType, AppLabels,
        WorkerLabels, WorkerOwnsQueue, FullWhileAlive
  <2>5. FullWhileAlive'
    BY <1>1, <1>0
    DEF NodeInit, Call, cloudVars, historyVars, queueVars, TypeOK, DataType, ControlType,
        TrackersType, AppLabels, WorkerLabels, WorkerOwnsQueue, FullWhileAlive
  <2> QED
    BY <2>1, <2>2, <2>3, <2>4, <2>5 DEF CoreInv, TypeOK
<1>2. CASE StartCall
  <2>1. DataType'
    BY <1>2, <1>0
    DEF StartCall, Goto, Call, cloudVars, historyVars, queueVars, TypeOK, DataType,
        TrackersType, States
  <2>2. ControlType'
    BY <1>2, <1>0, CoreSizeAssumption
    DEF StartCall, Goto, Call, cloudVars, historyVars, queueVars, TypeOK, ControlType,
        AppLabels, WorkerLabels
  <2>3. FlagType'
    BY <1>2, <1>0, Zenon
    DEF StartCall, Goto, Call, cloudVars, historyVars, queueVars, TypeOK, FlagType
  <2>4. WorkerOwnsQueue'
    BY <1>2, <1>0
    DEF StartCall, Goto, Call, cloudVars, historyVars, queueVars, TypeOK, ControlType,
        AppLabels, WorkerLabels, WorkerOwnsQueue, FullWhileAlive
  <2>5. FullWhileAlive'
    BY <1>2, <1>0
    DEF StartCall, Goto, Call, cloudVars, historyVars, queueVars, TypeOK, DataType,
        ControlType, TrackersType, AppLabels, WorkerLabels, WorkerOwnsQueue, FullWhileAlive
  <2> QED
    BY <2>1, <2>2, <2>3, <2>4, <2>5 DEF CoreInv, TypeOK
<1>3. CASE StartAdd
  <2>1. DataType'
    BY <1>3, <1>0
    DEF StartAdd, Goto, cloudVars, historyVars, queueVars, TypeOK, DataType, TrackersType,
        States
  <2>2. ControlType'
    <3>1. AddTask("start") => queue' \in Seq(Tasks) /\ Len(queue') <= QueueSize
      BY <1>0, AddTaskType DEF Tasks
    <3> QED
      BY <1>3, <1>0, <3>1
      DEF StartAdd, Goto, cloudVars, historyVars, queueVars, TypeOK, ControlType, AppLabels,
          WorkerLabels
  <2>3. FlagType'
    BY <1>3, <1>0, Zenon DEF StartAdd, Goto, cloudVars, historyVars, queueVars, TypeOK, FlagType
  <2>4. WorkerOwnsQueue'
    BY <1>3, <1>0
    DEF StartAdd, Goto, cloudVars, historyVars, queueVars, TypeOK, ControlType, AppLabels,
        WorkerLabels, WorkerOwnsQueue, FullWhileAlive
  <2>5. FullWhileAlive'
    BY <1>3, <1>0
    DEF StartAdd, Goto, cloudVars, historyVars, queueVars, TypeOK, DataType, ControlType,
        TrackersType, AppLabels, WorkerLabels, WorkerOwnsQueue, FullWhileAlive
  <2> QED
    BY <2>1, <2>2, <2>3, <2>4, <2>5 DEF CoreInv, TypeOK
<1>4. CASE StartSpawn
  <2>1. DataType'
    BY <1>4, <1>0
    DEF StartSpawn, Goto, cloudVars, historyVars, queueVars, TypeOK, DataType, TrackersType,
        States
  <2>2. ControlType'
    BY <1>4, <1>0
    DEF StartSpawn, Goto, cloudVars, historyVars, queueVars, TypeOK, ControlType, AppLabels,
        WorkerLabels
  <2>3. FlagType'
    BY <1>4, <1>0, Zenon
    DEF StartSpawn, Goto, cloudVars, historyVars, queueVars, TypeOK, FlagType
  <2>4. WorkerOwnsQueue'
    BY <1>4, <1>0
    DEF StartSpawn, Goto, cloudVars, historyVars, queueVars, TypeOK, ControlType, AppLabels,
        WorkerLabels, WorkerOwnsQueue, FullWhileAlive
  <2>5. FullWhileAlive'
    BY <1>4, <1>0
    DEF StartSpawn, Goto, cloudVars, historyVars, queueVars, TypeOK, DataType, ControlType,
        TrackersType, AppLabels, WorkerLabels, WorkerOwnsQueue, FullWhileAlive
  <2> QED
    BY <2>1, <2>2, <2>3, <2>4, <2>5 DEF CoreInv, TypeOK
<1>5. CASE StartRunning
  <2>1. DataType'
    BY <1>5, <1>0
    DEF StartRunning, Goto, cloudVars, historyVars, queueVars, TypeOK, DataType, TrackersType,
        States
  <2>2. ControlType'
    BY <1>5, <1>0
    DEF StartRunning, Goto, cloudVars, historyVars, queueVars, TypeOK, ControlType, AppLabels,
        WorkerLabels
  <2>3. FlagType'
    BY <1>5, <1>0, Zenon
    DEF StartRunning, Goto, cloudVars, historyVars, queueVars, TypeOK, FlagType
  <2>4. WorkerOwnsQueue'
    BY <1>5, <1>0
    DEF StartRunning, Goto, cloudVars, historyVars, queueVars, TypeOK, ControlType, AppLabels,
        WorkerLabels, WorkerOwnsQueue, FullWhileAlive
  <2>5. FullWhileAlive'
    BY <1>5, <1>0
    DEF StartRunning, Goto, cloudVars, historyVars, queueVars, TypeOK, DataType, ControlType,
        TrackersType, AppLabels, WorkerLabels, WorkerOwnsQueue, FullWhileAlive
  <2> QED
    BY <2>1, <2>2, <2>3, <2>4, <2>5 DEF CoreInv, TypeOK
<1>6. CASE StartLoad
  <2>1. DataType'
    BY <1>6, <1>0
    DEF StartLoad, Goto, LoadTrackers, cloudVars, historyVars, queueVars, TypeOK, DataType,
        TrackersType, States
  <2>2. ControlType'
    BY <1>6, <1>0
    DEF StartLoad, Goto, LoadTrackers, cloudVars, historyVars, queueVars, TypeOK, ControlType,
        AppLabels, WorkerLabels
  <2>3. FlagType'
    BY <1>6, <1>0, Zenon
    DEF StartLoad, Goto, LoadTrackers, cloudVars, historyVars, queueVars, TypeOK, FlagType
  <2>4. WorkerOwnsQueue'
    BY <1>6, <1>0
    DEF StartLoad, Goto, LoadTrackers, cloudVars, historyVars, queueVars, TypeOK, ControlType,
        AppLabels, WorkerLabels, WorkerOwnsQueue, FullWhileAlive
  <2>5. FullWhileAlive'
    BY <1>6, <1>0
    DEF StartLoad, Goto, LoadTrackers, cloudVars, historyVars, queueVars, TypeOK, DataType,
        ControlType, TrackersType, AppLabels, WorkerLabels, WorkerOwnsQueue, FullWhileAlive
  <2> QED
    BY <2>1, <2>2, <2>3, <2>4, <2>5 DEF CoreInv, TypeOK
<1>7. CASE StartStore
  <2>1. DataType'
    BY <1>7, <1>0
    DEF StartStore, Goto, StoreTrackers, cloudVars, historyVars, queueVars, TypeOK, DataType,
        TrackersType, States
  <2>2. ControlType'
    BY <1>7, <1>0
    DEF StartStore, Goto, StoreTrackers, cloudVars, historyVars, queueVars, TypeOK,
        ControlType, AppLabels, WorkerLabels
  <2>3. FlagType'
    BY <1>7, <1>0, Zenon
    DEF StartStore, Goto, StoreTrackers, cloudVars, historyVars, queueVars, TypeOK, FlagType
  <2>4. WorkerOwnsQueue'
    BY <1>7, <1>0
    DEF StartStore, Goto, StoreTrackers, cloudVars, historyVars, queueVars, TypeOK,
        ControlType, AppLabels, WorkerLabels, WorkerOwnsQueue, FullWhileAlive
  <2>5. FullWhileAlive'
    BY <1>7, <1>0
    DEF StartStore, Goto, StoreTrackers, cloudVars, historyVars, queueVars, TypeOK, DataType,
        ControlType, TrackersType, AppLabels, WorkerLabels, WorkerOwnsQueue, FullWhileAlive
  <2> QED
    BY <2>1, <2>2, <2>3, <2>4, <2>5 DEF CoreInv, TypeOK
<1>8. CASE StopCall
  <2>1. DataType'
    BY <1>8, <1>0
    DEF StopCall, Goto, Call, cloudVars, historyVars, queueVars, TypeOK, DataType,
        TrackersType, States
  <2>2. ControlType'
    BY <1>8, <1>0, CoreSizeAssumption
    DEF StopCall, Goto, Call, cloudVars, historyVars, queueVars, TypeOK, ControlType,
        AppLabels, WorkerLabels
  <2>3. FlagType'
    BY <1>8, <1>0, Zenon
    DEF StopCall, Goto, Call, cloudVars, historyVars, queueVars, TypeOK, FlagType
  <2>4. WorkerOwnsQueue'
    BY <1>8, <1>0
    DEF StopCall, Goto, Call, cloudVars, historyVars, queueVars, TypeOK, ControlType,
        AppLabels, WorkerLabels, WorkerOwnsQueue, FullWhileAlive
  <2>5. FullWhileAlive'
    BY <1>8, <1>0
    DEF StopCall, Goto, Call, cloudVars, historyVars, queueVars, TypeOK, DataType, ControlType,
        TrackersType, AppLabels, WorkerLabels, WorkerOwnsQueue, FullWhileAlive
  <2> QED
    BY <2>1, <2>2, <2>3, <2>4, <2>5 DEF CoreInv, TypeOK
<1>9. CASE StopAdd
  <2>1. DataType'
    BY <1>9, <1>0
    DEF StopAdd, Goto, cloudVars, historyVars, queueVars, TypeOK, DataType, TrackersType,
        States
  <2>2. ControlType'
    <3>1. AddTask("stop") => queue' \in Seq(Tasks) /\ Len(queue') <= QueueSize
      BY <1>0, AddTaskType DEF Tasks
    <3> QED
      BY <1>9, <1>0, <3>1
      DEF StopAdd, Goto, cloudVars, historyVars, queueVars, TypeOK, ControlType, AppLabels,
          WorkerLabels
  <2>3. FlagType'
    BY <1>9, <1>0, Zenon DEF StopAdd, Goto, cloudVars, historyVars, queueVars, TypeOK, FlagType
  <2>4. WorkerOwnsQueue'
    BY <1>9, <1>0
    DEF StopAdd, Goto, cloudVars, historyVars, queueVars, TypeOK, ControlType, AppLabels,
        WorkerLabels, WorkerOwnsQueue, FullWhileAlive
  <2>5. FullWhileAlive'
    BY <1>9, <1>0
    DEF StopAdd, Goto, cloudVars, historyVars, queueVars, TypeOK, DataType, ControlType,
        TrackersType, AppLabels, WorkerLabels, WorkerOwnsQueue, FullWhileAlive
  <2> QED
    BY <2>1, <2>2, <2>3, <2>4, <2>5 DEF CoreInv, TypeOK
<1>10. CASE StopLoad
  <2>1. DataType'
    BY <1>10, <1>0
    DEF StopLoad, Goto, LoadTrackers, cloudVars, historyVars, queueVars, TypeOK, DataType,
        TrackersType, States
  <2>2. ControlType'
    BY <1>10, <1>0
    DEF StopLoad, Goto, LoadTrackers, cloudVars, historyVars, queueVars, TypeOK, ControlType,
        AppLabels, WorkerLabels
  <2>3. FlagType'
    BY <1>10, <1>0, Zenon
    DEF StopLoad, Goto, LoadTrackers, cloudVars, historyVars, queueVars, TypeOK, FlagType
  <2>4. WorkerOwnsQueue'
    BY <1>10, <1>0
    DEF StopLoad, Goto, LoadTrackers, cloudVars, historyVars, queueVars, TypeOK, ControlType,
        AppLabels, WorkerLabels, WorkerOwnsQueue, FullWhileAlive
  <2>5. FullWhileAlive'
    BY <1>10, <1>0
    DEF StopLoad, Goto, LoadTrackers, cloudVars, historyVars, queueVars, TypeOK, DataType,
        ControlType, TrackersType, AppLabels, WorkerLabels, WorkerOwnsQueue, FullWhileAlive
  <2> QED
    BY <2>1, <2>2, <2>3, <2>4, <2>5 DEF CoreInv, TypeOK
<1>11. CASE StopStore
  <2>1. DataType'
    BY <1>11, <1>0
    DEF StopStore, Goto, StoreTrackers, cloudVars, historyVars, queueVars, TypeOK, DataType,
        TrackersType, States
  <2>2. ControlType'
    BY <1>11, <1>0
    DEF StopStore, Goto, StoreTrackers, cloudVars, historyVars, queueVars, TypeOK, ControlType,
        AppLabels, WorkerLabels
  <2>3. FlagType'
    BY <1>11, <1>0, Zenon
    DEF StopStore, Goto, StoreTrackers, cloudVars, historyVars, queueVars, TypeOK, FlagType
  <2>4. WorkerOwnsQueue'
    BY <1>11, <1>0
    DEF StopStore, Goto, StoreTrackers, cloudVars, historyVars, queueVars, TypeOK, ControlType,
        AppLabels, WorkerLabels, WorkerOwnsQueue, FullWhileAlive
  <2>5. FullWhileAlive'
    BY <1>11, <1>0
    DEF StopStore, Goto, StoreTrackers, cloudVars, historyVars, queueVars, TypeOK, DataType,
        ControlType, TrackersType, AppLabels, WorkerLabels, WorkerOwnsQueue, FullWhileAlive
  <2> QED
    BY <2>1, <2>2, <2>3, <2>4, <2>5 DEF CoreInv, TypeOK
<1>12. CASE DeinitCall
  <2>1. DataType'
    BY <1>12, <1>0
    DEF DeinitCall, Goto, Call, cloudVars, historyVars, queueVars, TypeOK, DataType,
        TrackersType, States
  <2>2. ControlType'
    BY <1>12, <1>0, CoreSizeAssumption
    DEF DeinitCall, Goto, Call, cloudVars, historyVars, queueVars, TypeOK, ControlType,
        AppLabels, WorkerLabels
  <2>3. FlagType'
    BY <1>12, <1>0, Zenon
    DEF DeinitCall, Goto, Call, cloudVars, historyVars, queueVars, TypeOK, FlagType
  <2>4. WorkerOwnsQueue'
    BY <1>12, <1>0
    DEF DeinitCall, Goto, Call, cloudVars, historyVars, queueVars, TypeOK, ControlType,
        AppLabels, WorkerLabels, WorkerOwnsQueue, FullWhileAlive
  <2>5. FullWhileAlive'
    BY <1>12, <1>0
    DEF DeinitCall, Goto, Call, cloudVars, historyVars, queueVars, TypeOK, DataType,
        ControlType, TrackersType, AppLabels, WorkerLabels, WorkerOwnsQueue, FullWhileAlive
  <2> QED
    BY <2>1, <2>2, <2>3, <2>4, <2>5 DEF CoreInv, TypeOK
<1>13. CASE DeinitPoll
  <2>1. DataType'
    BY <1>13, <1>0
    DEF DeinitPoll, Goto, cloudVars, historyVars, queueVars, TypeOK, DataType, TrackersType,
        States
  <2>2. ControlType'
    BY <1>13, <1>0
    DEF DeinitPoll, Goto, cloudVars, historyVars, queueVars, TypeOK, ControlType, AppLabels,
        WorkerLabels
  <2>3. FlagType'
    BY <1>13, <1>0, Zenon
    DEF DeinitPoll, Goto, cloudVars, historyVars, queueVars, TypeOK, FlagType
  <2>4. WorkerOwnsQueue'
    BY <1>13, <1>0
    DEF DeinitPoll, Goto, cloudVars, historyVars, queueVars, TypeOK, ControlType, AppLabels,
        WorkerLabels, WorkerOwnsQueue, FullWhileAlive
  <2>5. FullWhileAlive'
    BY <1>13, <1>0
    DEF DeinitPoll, Goto, cloudVars, historyVars, queueVars, TypeOK, DataType, ControlType,
        TrackersType, AppLabels, WorkerLabels, WorkerOwnsQueue, FullWhileAlive
  <2> QED
    BY <2>1, <2>2, <2>3, <2>4, <2>5 DEF CoreInv, TypeOK
<1>14. CASE DeinitCheck
  <2>1. DataType'
    BY <1>14, <1>0
    DEF DeinitCheck, Goto, cloudVars, historyVars, queueVars, TypeOK, DataType, TrackersType,
        States
  <2>2. ControlType'
    BY <1>14, <1>0
    DEF DeinitCheck, Goto, cloudVars, historyVars, queueVars, TypeOK, ControlType, AppLabels,
        WorkerLabels
  <2>3. FlagType'
    BY <1>14, <1>0, Zenon
    DEF DeinitCheck, Goto, cloudVars, historyVars, queueVars, TypeOK, FlagType
  <2>4. WorkerOwnsQueue'
    BY <1>14, <1>0
    DEF DeinitCheck, Goto, cloudVars, historyVars, queueVars, TypeOK, ControlType, AppLabels,
        WorkerLabels, WorkerOwnsQueue, FullWhileAlive
  <2>5. FullWhileAlive'
    BY <1>14, <1>0
    DEF DeinitCheck, Goto, cloudVars, historyVars, queueVars, TypeOK, DataType, ControlType,
        TrackersType, AppLabels, WorkerLabels, WorkerOwnsQueue, FullWhileAlive
  <2> QED
    BY <2>1, <2>2, <2>3, <2>4, <2>5 DEF CoreInv, TypeOK
<1>15. CASE JoinStop
  <2>1. DataType'
    BY <1>15, <1>0
    DEF JoinStop, Goto, cloudVars, historyVars, queueVars, TypeOK, DataType, TrackersType,
        States
  <2>2. ControlType'
    <3>1. AddTask("empty") => queue' \in Seq(Tasks) /\ Len(queue') <= QueueSize
      BY <1>0, AddTaskType DEF Tasks
    <3> QED
      BY <1>15, <1>0, <3>1
      DEF JoinStop, Goto, cloudVars, historyVars, queueVars, TypeOK, ControlType, AppLabels,
          WorkerLabels
  <2>3. FlagType'
    BY <1>15, <1>0, Zenon
    DEF JoinStop, Goto, cloudVars, historyVars, queueVars, TypeOK, FlagType
  <2>4. WorkerOwnsQueue'
    BY <1>15, <1>0
    DEF JoinStop, Goto, cloudVars, historyVars, queueVars, TypeOK, ControlType, AppLabels,
        WorkerLabels, WorkerOwnsQueue, FullWhileAlive
  <2>5. FullWhileAlive'
    BY <1>15, <1>0
    DEF JoinStop, Goto, cloudVars, historyVars, queueVars, TypeOK, DataType, ControlType,
        TrackersType, AppLabels, WorkerLabels, WorkerOwnsQueue, FullWhileAlive
  <2> QED
    BY <2>1, <2>2, <2>3, <2>4, <2>5 DEF CoreInv, TypeOK
<1>16. CASE Join
  <2>1. DataType'
    BY <1>16, <1>0
    DEF Join, Goto, cloudVars, historyVars, queueVars, TypeOK, DataType, TrackersType, States
  <2>2. ControlType'
    <3>1. queue' \in Seq(Tasks) /\ Len(queue') <= QueueSize
      <4>1. CASE qState = "INIT_DONE"
        BY <1>16, <4>1, CoreSizeAssumption DEF Join
      <4>2. CASE qState # "INIT_DONE"
        BY <1>16, <4>2, <1>0 DEF Join, queueVars, TypeOK, ControlType
      <4> QED
        BY <4>1, <4>2
    <3> QED
      BY <1>16, <1>0, <3>1
      DEF Join, Goto, cloudVars, historyVars, queueVars, TypeOK, ControlType, AppLabels,
          WorkerLabels
  <2>3. FlagType'
    BY <1>16, <1>0, Zenon DEF Join, Goto, cloudVars, historyVars, queueVars, TypeOK, FlagType
  <2>4. WorkerOwnsQueue'
    BY <1>16, <1>0
    DEF Join, Goto, cloudVars, historyVars, queueVars, TypeOK, ControlType, AppLabels,
        WorkerLabels, WorkerOwnsQueue, FullWhileAlive
  <2>5. FullWhileAlive'
    BY <1>16, <1>0
    DEF Join, Goto, cloudVars, historyVars, queueVars, TypeOK, DataType, ControlType,
        TrackersType, AppLabels, WorkerLabels, WorkerOwnsQueue, FullWhileAlive
  <2> QED
    BY <2>1, <2>2, <2>3, <2>4, <2>5 DEF CoreInv, TypeOK
<1>17. CASE Teardown
  <2>1. DataType'
    <3>1. trackers' \in TrackersType
      <4>1. CASE trackers' = [state |-> "DEINIT", inQueue |-> FALSE, full |-> FALSE]
        BY <4>1 DEF TrackersType, States
      <4>2. CASE trackers' = [trackers EXCEPT !.inQueue = FALSE]
        BY <4>2, <1>0 DEF TypeOK, DataType, TrackersType
      <4> QED
        BY <1>17, <4>1, <4>2 DEF Teardown
    <3>2. reg' = reg /\ link' = Down
      BY <1>17 DEF Teardown
    <3> QED
      BY <3>1, <3>2, <1>0 DEF TypeOK, DataType, Down
  <2>2. ControlType'
    BY <1>17, <1>0
    DEF Teardown, Goto, Down, cloudVars, historyVars, queueVars, TypeOK, ControlType,
        AppLabels, WorkerLabels
  <2>3. FlagType'
    BY <1>17, <1>0, Zenon
    DEF Teardown, Goto, Down, cloudVars, historyVars, queueVars, TypeOK, FlagType
  <2>4. WorkerOwnsQueue'
    BY <1>17, <1>0
    DEF Teardown, Goto, Down, cloudVars, historyVars, queueVars, TypeOK, ControlType,
        AppLabels, WorkerLabels, WorkerOwnsQueue, FullWhileAlive
  <2>5. FullWhileAlive'
    BY <1>17, <1>0
    DEF Teardown, Goto, Down, cloudVars, historyVars, queueVars, TypeOK, DataType, ControlType,
        TrackersType, AppLabels, WorkerLabels, WorkerOwnsQueue, FullWhileAlive
  <2> QED
    BY <2>1, <2>2, <2>3, <2>4, <2>5 DEF CoreInv, TypeOK
<1>18. CASE WorkerLoop
  <2>1. DataType'
    BY <1>18, <1>0
    DEF WorkerLoop, Goto, cloudVars, historyVars, queueVars, TypeOK, DataType, TrackersType,
        States
  <2>2. ControlType'
    BY <1>18, <1>0
    DEF WorkerLoop, Goto, cloudVars, historyVars, queueVars, TypeOK, ControlType, AppLabels,
        WorkerLabels
  <2>3. FlagType'
    BY <1>18, <1>0, Zenon
    DEF WorkerLoop, Goto, cloudVars, historyVars, queueVars, TypeOK, FlagType
  <2>4. WorkerOwnsQueue'
    BY <1>18, <1>0
    DEF WorkerLoop, Goto, cloudVars, historyVars, queueVars, TypeOK, ControlType, AppLabels,
        WorkerLabels, WorkerOwnsQueue, FullWhileAlive
  <2>5. FullWhileAlive'
    BY <1>18, <1>0
    DEF WorkerLoop, Goto, cloudVars, historyVars, queueVars, TypeOK, DataType, ControlType,
        TrackersType, AppLabels, WorkerLabels, WorkerOwnsQueue, FullWhileAlive
  <2> QED
    BY <2>1, <2>2, <2>3, <2>4, <2>5 DEF CoreInv, TypeOK
<1>19. CASE WorkerReceive
  <2>1. DataType'
    BY <1>19, <1>0
    DEF WorkerReceive, Goto, FirstStep, cloudVars, historyVars, queueVars, TypeOK, DataType,
        TrackersType, States
  <2>2. ControlType'
    <3>1. CASE queue = <<>>
      BY <1>19, <1>0, <3>1
      DEF WorkerReceive, Goto, FirstStep, cloudVars, historyVars, queueVars, TypeOK,
          ControlType, AppLabels, WorkerLabels
    <3>2. CASE queue # <<>>
      <4>1. FirstStep(Head(queue)) \in WorkerLabels
        BY <3>2, <1>0, TailType DEF FirstStep, Tasks, WorkerLabels
      <4> QED
        BY <1>19, <1>0, <3>2, <4>1, TailType
        DEF WorkerReceive, Goto, cloudVars, historyVars, queueVars, TypeOK, ControlType
    <3> QED
      BY <3>1, <3>2
  <2>3. FlagType'
    BY <1>19, <1>0, Zenon
    DEF WorkerReceive, Goto, FirstStep, cloudVars, historyVars, queueVars, TypeOK, FlagType
  <2>4. WorkerOwnsQueue'
    <3>1. queue # <<>> => FirstStep(Head(queue))
               \notin {"none", "clearStore", "startedStore", "stoppedStore", "errorStore"}
      BY <1>0, TailType DEF FirstStep, Tasks
    <3> QED
      BY <1>19, <1>0, <3>1
      DEF WorkerReceive, Goto, cloudVars, historyVars, queueVars, TypeOK, ControlType,
          AppLabels, WorkerLabels, WorkerOwnsQueue, FullWhileAlive
  <2>5. FullWhileAlive'
    <3>1. queue # <<>> => FirstStep(Head(queue))
               \notin {"none", "clearStore", "startedStore", "stoppedStore", "errorStore"}
      BY <1>0, TailType DEF FirstStep, Tasks
    <3> QED
      BY <1>19, <1>0, <3>1
      DEF WorkerReceive, Goto, cloudVars, historyVars, queueVars, TypeOK, ControlType,
          AppLabels, WorkerLabels, WorkerOwnsQueue, FullWhileAlive
  <2> QED
    BY <2>1, <2>2, <2>3, <2>4, <2>5 DEF CoreInv, TypeOK
<1>20. CASE ClearLoad
  <2>1. DataType'
    BY <1>20, <1>0
    DEF ClearLoad, Goto, LoadTrackers, cloudVars, historyVars, queueVars, TypeOK, DataType,
        TrackersType, States
  <2>2. ControlType'
    BY <1>20, <1>0
    DEF ClearLoad, Goto, LoadTrackers, cloudVars, historyVars, queueVars, TypeOK, ControlType,
        AppLabels, WorkerLabels
  <2>3. FlagType'
    BY <1>20, <1>0, Zenon
    DEF ClearLoad, Goto, LoadTrackers, cloudVars, historyVars, queueVars, TypeOK, FlagType
  <2>4. WorkerOwnsQueue'
    BY <1>20, <1>0
    DEF ClearLoad, Goto, LoadTrackers, cloudVars, historyVars, queueVars, TypeOK, ControlType,
        AppLabels, WorkerLabels, WorkerOwnsQueue, FullWhileAlive
  <2>5. FullWhileAlive'
    BY <1>20, <1>0
    DEF ClearLoad, Goto, LoadTrackers, cloudVars, historyVars, queueVars, TypeOK, DataType,
        ControlType, TrackersType, AppLabels, WorkerLabels, WorkerOwnsQueue, FullWhileAlive
  <2> QED
    BY <2>1, <2>2, <2>3, <2>4, <2>5 DEF CoreInv, TypeOK
<1>21. CASE ClearStore
  <2>1. DataType'
    BY <1>21, <1>0
    DEF ClearStore, Goto, StoreTrackers, cloudVars, historyVars, queueVars, TypeOK, DataType,
        TrackersType, States
  <2>2. ControlType'
    BY <1>21, <1>0
    DEF ClearStore, Goto, StoreTrackers, cloudVars, historyVars, queueVars, TypeOK,
        ControlType, AppLabels, WorkerLabels
  <2>3. FlagType'
    BY <1>21, <1>0, Zenon
    DEF ClearStore, Goto, StoreTrackers, cloudVars, historyVars, queueVars, TypeOK, FlagType
  <2>4. WorkerOwnsQueue'
    BY <1>21, <1>0
    DEF ClearStore, Goto, StoreTrackers, cloudVars, historyVars, queueVars, TypeOK,
        ControlType, AppLabels, WorkerLabels, WorkerOwnsQueue, FullWhileAlive
  <2>5. FullWhileAlive'
    BY <1>21, <1>0
    DEF ClearStore, Goto, StoreTrackers, cloudVars, historyVars, queueVars, TypeOK, DataType,
        ControlType, TrackersType, AppLabels, WorkerLabels, WorkerOwnsQueue, FullWhileAlive
  <2> QED
    BY <2>1, <2>2, <2>3, <2>4, <2>5 DEF CoreInv, TypeOK
<1>22. CASE StartConnect
  <2>1. DataType'
    BY <1>22, <1>0
    DEF StartConnect, Goto, cloudVars, historyVars, queueVars, TypeOK, DataType, TrackersType,
        States
  <2>2. ControlType'
    BY <1>22, <1>0
    DEF StartConnect, Goto, cloudVars, historyVars, queueVars, TypeOK, ControlType, AppLabels,
        WorkerLabels
  <2>3. FlagType'
    BY <1>22, <1>0, Zenon
    DEF StartConnect, Goto, cloudVars, historyVars, queueVars, TypeOK, FlagType
  <2>4. WorkerOwnsQueue'
    BY <1>22, <1>0
    DEF StartConnect, Goto, cloudVars, historyVars, queueVars, TypeOK, ControlType, AppLabels,
        WorkerLabels, WorkerOwnsQueue, FullWhileAlive
  <2>5. FullWhileAlive'
    BY <1>22, <1>0
    DEF StartConnect, Goto, cloudVars, historyVars, queueVars, TypeOK, DataType, ControlType,
        TrackersType, AppLabels, WorkerLabels, WorkerOwnsQueue, FullWhileAlive
  <2> QED
    BY <2>1, <2>2, <2>3, <2>4, <2>5 DEF CoreInv, TypeOK
<1>23. CASE StartRegisterFails
  <2>1. DataType'
    BY <1>23, <1>0
    DEF StartRegisterFails, Goto, cloudVars, historyVars, queueVars, TypeOK, DataType,
        TrackersType, States
  <2>2. ControlType'
    BY <1>23, <1>0
    DEF StartRegisterFails, Goto, cloudVars, historyVars, queueVars, TypeOK, ControlType,
        AppLabels, WorkerLabels
  <2>3. FlagType'
    BY <1>23, <1>0, Zenon
    DEF StartRegisterFails, Goto, cloudVars, historyVars, queueVars, TypeOK, FlagType
  <2>4. WorkerOwnsQueue'
    BY <1>23, <1>0
    DEF StartRegisterFails, Goto, cloudVars, historyVars, queueVars, TypeOK, ControlType,
        AppLabels, WorkerLabels, WorkerOwnsQueue, FullWhileAlive
  <2>5. FullWhileAlive'
    BY <1>23, <1>0
    DEF StartRegisterFails, Goto, cloudVars, historyVars, queueVars, TypeOK, DataType,
        ControlType, TrackersType, AppLabels, WorkerLabels, WorkerOwnsQueue, FullWhileAlive
  <2> QED
    BY <2>1, <2>2, <2>3, <2>4, <2>5 DEF CoreInv, TypeOK
<1>24. CASE StartRegister
  <2>1. DataType'
    BY <1>24, <1>0
    DEF StartRegister, Goto, QueueSetup, cloudVars, historyVars, queueVars, TypeOK, DataType,
        TrackersType, States
  <2>2. ControlType'
    <3>1. AddTask("setup") => queue' \in Seq(Tasks) /\ Len(queue') <= QueueSize
      BY <1>0, AddTaskType DEF Tasks
    <3> QED
      BY <1>24, <1>0, <3>1
      DEF StartRegister, Goto, QueueSetup, cloudVars, historyVars, queueVars, TypeOK,
          ControlType, AppLabels, WorkerLabels
  <2>3. FlagType'
    BY <1>24, <1>0, Zenon
    DEF StartRegister, Goto, QueueSetup, cloudVars, historyVars, queueVars, TypeOK, FlagType
  <2>4. WorkerOwnsQueue'
    BY <1>24, <1>0
    DEF StartRegister, Goto, QueueSetup, cloudVars, historyVars, queueVars, TypeOK,
        ControlType, AppLabels, WorkerLabels, WorkerOwnsQueue, FullWhileAlive
  <2>5. FullWhileAlive'
    BY <1>24, <1>0
    DEF StartRegister, Goto, QueueSetup, cloudVars, historyVars, queueVars, TypeOK, DataType,
        ControlType, TrackersType, AppLabels, WorkerLabels, WorkerOwnsQueue, FullWhileAlive
  <2> QED
    BY <2>1, <2>2, <2>3, <2>4, <2>5 DEF CoreInv, TypeOK
<1>25. CASE StartedLoad
  <2>1. DataType'
    BY <1>25, <1>0
    DEF StartedLoad, Goto, EndLoad, LoadTrackers, cloudVars, historyVars, queueVars, TypeOK,
        DataType, TrackersType, States
  <2>2. ControlType'
    BY <1>25, <1>0
    DEF StartedLoad, Goto, EndLoad, LoadTrackers, cloudVars, historyVars, queueVars, TypeOK,
        ControlType, AppLabels, WorkerLabels
  <2>3. FlagType'
    BY <1>25, <1>0, Zenon
    DEF StartedLoad, Goto, EndLoad, LoadTrackers, cloudVars, historyVars, queueVars, TypeOK,
        FlagType
  <2>4. WorkerOwnsQueue'
    BY <1>25, <1>0
    DEF StartedLoad, Goto, EndLoad, LoadTrackers, cloudVars, historyVars, queueVars, TypeOK,
        ControlType, AppLabels, WorkerLabels, WorkerOwnsQueue, FullWhileAlive
  <2>5. FullWhileAlive'
    BY <1>25, <1>0
    DEF StartedLoad, Goto, EndLoad, LoadTrackers, cloudVars, historyVars, queueVars, TypeOK,
        DataType, ControlType, TrackersType, AppLabels, WorkerLabels, WorkerOwnsQueue,
        FullWhileAlive
  <2> QED
    BY <2>1, <2>2, <2>3, <2>4, <2>5 DEF CoreInv, TypeOK
<1>26. CASE StartedStore
  <2>1. DataType'
    BY <1>26, <1>0
    DEF StartedStore, Goto, EndStore, StoreTrackers, cloudVars, historyVars, queueVars, TypeOK,
        DataType, TrackersType, States
  <2>2. ControlType'
    BY <1>26, <1>0
    DEF StartedStore, Goto, EndStore, StoreTrackers, cloudVars, historyVars, queueVars, TypeOK,
        ControlType, AppLabels, WorkerLabels
  <2>3. FlagType'
    BY <1>26, <1>0, Zenon
    DEF StartedStore, Goto, EndStore, StoreTrackers, cloudVars, historyVars, queueVars, TypeOK,
        FlagType
  <2>4. WorkerOwnsQueue'
    BY <1>26, <1>0
    DEF StartedStore, Goto, EndStore, StoreTrackers, cloudVars, historyVars, queueVars, TypeOK,
        ControlType, AppLabels, WorkerLabels, WorkerOwnsQueue, FullWhileAlive
  <2>5. FullWhileAlive'
    BY <1>26, <1>0
    DEF StartedStore, Goto, EndStore, StoreTrackers, cloudVars, historyVars, queueVars, TypeOK,
        DataType, ControlType, TrackersType, AppLabels, WorkerLabels, WorkerOwnsQueue,
        FullWhileAlive
  <2> QED
    BY <2>1, <2>2, <2>3, <2>4, <2>5 DEF CoreInv, TypeOK
<1>27. CASE ErrorLoad
  <2>1. DataType'
    BY <1>27, <1>0
    DEF ErrorLoad, Goto, EndLoad, LoadTrackers, cloudVars, historyVars, queueVars, TypeOK,
        DataType, TrackersType, States
  <2>2. ControlType'
    BY <1>27, <1>0
    DEF ErrorLoad, Goto, EndLoad, LoadTrackers, cloudVars, historyVars, queueVars, TypeOK,
        ControlType, AppLabels, WorkerLabels
  <2>3. FlagType'
    BY <1>27, <1>0, Zenon
    DEF ErrorLoad, Goto, EndLoad, LoadTrackers, cloudVars, historyVars, queueVars, TypeOK,
        FlagType
  <2>4. WorkerOwnsQueue'
    BY <1>27, <1>0
    DEF ErrorLoad, Goto, EndLoad, LoadTrackers, cloudVars, historyVars, queueVars, TypeOK,
        ControlType, AppLabels, WorkerLabels, WorkerOwnsQueue, FullWhileAlive
  <2>5. FullWhileAlive'
    BY <1>27, <1>0
    DEF ErrorLoad, Goto, EndLoad, LoadTrackers, cloudVars, historyVars, queueVars, TypeOK,
        DataType, ControlType, TrackersType, AppLabels, WorkerLabels, WorkerOwnsQueue,
        FullWhileAlive
  <2> QED
    BY <2>1, <2>2, <2>3, <2>4, <2>5 DEF CoreInv, TypeOK
<1>28. CASE ErrorStore
  <2>1. DataType'
    BY <1>28, <1>0
    DEF ErrorStore, Goto, EndStore, StoreTrackers, cloudVars, historyVars, queueVars, TypeOK,
        DataType, TrackersType, States
  <2>2. ControlType'
    BY <1>28, <1>0
    DEF ErrorStore, Goto, EndStore, StoreTrackers, cloudVars, historyVars, queueVars, TypeOK,
        ControlType, AppLabels, WorkerLabels
  <2>3. FlagType'
    BY <1>28, <1>0, Zenon
    DEF ErrorStore, Goto, EndStore, StoreTrackers, cloudVars, historyVars, queueVars, TypeOK,
        FlagType
  <2>4. WorkerOwnsQueue'
    BY <1>28, <1>0
    DEF ErrorStore, Goto, EndStore, StoreTrackers, cloudVars, historyVars, queueVars, TypeOK,
        ControlType, AppLabels, WorkerLabels, WorkerOwnsQueue, FullWhileAlive
  <2>5. FullWhileAlive'
    BY <1>28, <1>0
    DEF ErrorStore, Goto, EndStore, StoreTrackers, cloudVars, historyVars, queueVars, TypeOK,
        DataType, ControlType, TrackersType, AppLabels, WorkerLabels, WorkerOwnsQueue,
        FullWhileAlive
  <2> QED
    BY <2>1, <2>2, <2>3, <2>4, <2>5 DEF CoreInv, TypeOK
<1>29. CASE StopRetry
  <2>1. DataType'
    BY <1>29, <1>0
    DEF StopRetry, Goto, cloudVars, historyVars, queueVars, TypeOK, DataType, TrackersType,
        States
  <2>2. ControlType'
    BY <1>29, <1>0
    DEF StopRetry, Goto, cloudVars, historyVars, queueVars, TypeOK, ControlType, AppLabels,
        WorkerLabels
  <2>3. FlagType'
    BY <1>29, <1>0, Zenon
    DEF StopRetry, Goto, cloudVars, historyVars, queueVars, TypeOK, FlagType
  <2>4. WorkerOwnsQueue'
    BY <1>29, <1>0
    DEF StopRetry, Goto, cloudVars, historyVars, queueVars, TypeOK, ControlType, AppLabels,
        WorkerLabels, WorkerOwnsQueue, FullWhileAlive
  <2>5. FullWhileAlive'
    BY <1>29, <1>0
    DEF StopRetry, Goto, cloudVars, historyVars, queueVars, TypeOK, DataType, ControlType,
        TrackersType, AppLabels, WorkerLabels, WorkerOwnsQueue, FullWhileAlive
  <2> QED
    BY <2>1, <2>2, <2>3, <2>4, <2>5 DEF CoreInv, TypeOK
<1>30. CASE StopUnregister
  <2>1. DataType'
    BY <1>30, <1>0
    DEF StopUnregister, Goto, cloudVars, historyVars, queueVars, TypeOK, DataType,
        TrackersType, States
  <2>2. ControlType'
    BY <1>30, <1>0
    DEF StopUnregister, Goto, cloudVars, historyVars, queueVars, TypeOK, ControlType,
        AppLabels, WorkerLabels
  <2>3. FlagType'
    BY <1>30, <1>0, Zenon
    DEF StopUnregister, Goto, cloudVars, historyVars, queueVars, TypeOK, FlagType
  <2>4. WorkerOwnsQueue'
    BY <1>30, <1>0
    DEF StopUnregister, Goto, cloudVars, historyVars, queueVars, TypeOK, ControlType,
        AppLabels, WorkerLabels, WorkerOwnsQueue, FullWhileAlive
  <2>5. FullWhileAlive'
    BY <1>30, <1>0
    DEF StopUnregister, Goto, cloudVars, historyVars, queueVars, TypeOK, DataType, ControlType,
        TrackersType, AppLabels, WorkerLabels, WorkerOwnsQueue, FullWhileAlive
  <2> QED
    BY <2>1, <2>2, <2>3, <2>4, <2>5 DEF CoreInv, TypeOK
<1>31. CASE StopDisconnect
  <2>1. DataType'
    BY <1>31, <1>0
    DEF StopDisconnect, Goto, cloudVars, historyVars, queueVars, TypeOK, DataType,
        TrackersType, States
  <2>2. ControlType'
    BY <1>31, <1>0
    DEF StopDisconnect, Goto, cloudVars, historyVars, queueVars, TypeOK, ControlType,
        AppLabels, WorkerLabels
  <2>3. FlagType'
    BY <1>31, <1>0, Zenon
    DEF StopDisconnect, Goto, cloudVars, historyVars, queueVars, TypeOK, FlagType
  <2>4. WorkerOwnsQueue'
    BY <1>31, <1>0
    DEF StopDisconnect, Goto, cloudVars, historyVars, queueVars, TypeOK, ControlType,
        AppLabels, WorkerLabels, WorkerOwnsQueue, FullWhileAlive
  <2>5. FullWhileAlive'
    BY <1>31, <1>0
    DEF StopDisconnect, Goto, cloudVars, historyVars, queueVars, TypeOK, DataType, ControlType,
        TrackersType, AppLabels, WorkerLabels, WorkerOwnsQueue, FullWhileAlive
  <2> QED
    BY <2>1, <2>2, <2>3, <2>4, <2>5 DEF CoreInv, TypeOK
<1>32. CASE StopQueue
  <2>1. DataType'
    BY <1>32, <1>0
    DEF StopQueue, Goto, cloudVars, historyVars, queueVars, TypeOK, DataType, TrackersType,
        States
  <2>2. ControlType'
    <3>1. AddTask("empty") => queue' \in Seq(Tasks) /\ Len(queue') <= QueueSize
      BY <1>0, AddTaskType DEF Tasks
    <3> QED
      BY <1>32, <1>0, <3>1
      DEF StopQueue, Goto, cloudVars, historyVars, queueVars, TypeOK, ControlType, AppLabels,
          WorkerLabels
  <2>3. FlagType'
    BY <1>32, <1>0, Zenon
    DEF StopQueue, Goto, cloudVars, historyVars, queueVars, TypeOK, FlagType
  <2>4. WorkerOwnsQueue'
    BY <1>32, <1>0
    DEF StopQueue, Goto, cloudVars, historyVars, queueVars, TypeOK, ControlType, AppLabels,
        WorkerLabels, WorkerOwnsQueue, FullWhileAlive
  <2>5. FullWhileAlive'
    BY <1>32, <1>0
    DEF StopQueue, Goto, cloudVars, historyVars, queueVars, TypeOK, DataType, ControlType,
        TrackersType, AppLabels, WorkerLabels, WorkerOwnsQueue, FullWhileAlive
  <2> QED
    BY <2>1, <2>2, <2>3, <2>4, <2>5 DEF CoreInv, TypeOK
<1>33. CASE StoppedLoad
  <2>1. DataType'
    BY <1>33, <1>0
    DEF StoppedLoad, Goto, EndLoad, LoadTrackers, cloudVars, historyVars, queueVars, TypeOK,
        DataType, TrackersType, States
  <2>2. ControlType'
    BY <1>33, <1>0
    DEF StoppedLoad, Goto, EndLoad, LoadTrackers, cloudVars, historyVars, queueVars, TypeOK,
        ControlType, AppLabels, WorkerLabels
  <2>3. FlagType'
    BY <1>33, <1>0, Zenon
    DEF StoppedLoad, Goto, EndLoad, LoadTrackers, cloudVars, historyVars, queueVars, TypeOK,
        FlagType
  <2>4. WorkerOwnsQueue'
    BY <1>33, <1>0
    DEF StoppedLoad, Goto, EndLoad, LoadTrackers, cloudVars, historyVars, queueVars, TypeOK,
        ControlType, AppLabels, WorkerLabels, WorkerOwnsQueue, FullWhileAlive
  <2>5. FullWhileAlive'
    BY <1>33, <1>0
    DEF StoppedLoad, Goto, EndLoad, LoadTrackers, cloudVars, historyVars, queueVars, TypeOK,
        DataType, ControlType, TrackersType, AppLabels, WorkerLabels, WorkerOwnsQueue,
        FullWhileAlive
  <2> QED
    BY <2>1, <2>2, <2>3, <2>4, <2>5 DEF CoreInv, TypeOK
<1>34. CASE StoppedStore
  <2>1. DataType'
    BY <1>34, <1>0
    DEF StoppedStore, Goto, EndStore, StoreTrackers, cloudVars, historyVars, queueVars, TypeOK,
        DataType, TrackersType, States
  <2>2. ControlType'
    BY <1>34, <1>0
    DEF StoppedStore, Goto, EndStore, StoreTrackers, cloudVars, historyVars, queueVars, TypeOK,
        ControlType, AppLabels, WorkerLabels
  <2>3. FlagType'
    BY <1>34, <1>0, Zenon
    DEF StoppedStore, Goto, EndStore, StoreTrackers, cloudVars, historyVars, queueVars, TypeOK,
        FlagType
  <2>4. WorkerOwnsQueue'
    BY <1>34, <1>0
    DEF StoppedStore, Goto, EndStore, StoreTrackers, cloudVars, historyVars, queueVars, TypeOK,
        ControlType, AppLabels, WorkerLabels, WorkerOwnsQueue, FullWhileAlive
  <2>5. FullWhileAlive'
    BY <1>34, <1>0
    DEF StoppedStore, Goto, EndStore, StoreTrackers, cloudVars, historyVars, queueVars, TypeOK,
        DataType, ControlType, TrackersType, AppLabels, WorkerLabels, WorkerOwnsQueue,
        FullWhileAlive
  <2> QED
    BY <2>1, <2>2, <2>3, <2>4, <2>5 DEF CoreInv, TypeOK
<1>35. CASE SetupRuns
  <2>1. DataType'
    BY <1>35, <1>0
    DEF SetupRuns, Goto, cloudVars, historyVars, queueVars, TypeOK, DataType, TrackersType,
        States
  <2>2. ControlType'
    BY <1>35, <1>0
    DEF SetupRuns, Goto, cloudVars, historyVars, queueVars, TypeOK, ControlType, AppLabels,
        WorkerLabels
  <2>3. FlagType'
    BY <1>35, <1>0, Zenon
    DEF SetupRuns, Goto, cloudVars, historyVars, queueVars, TypeOK, FlagType
  <2>4. WorkerOwnsQueue'
    BY <1>35, <1>0
    DEF SetupRuns, Goto, cloudVars, historyVars, queueVars, TypeOK, ControlType, AppLabels,
        WorkerLabels, WorkerOwnsQueue, FullWhileAlive
  <2>5. FullWhileAlive'
    BY <1>35, <1>0
    DEF SetupRuns, Goto, cloudVars, historyVars, queueVars, TypeOK, DataType, ControlType,
        TrackersType, AppLabels, WorkerLabels, WorkerOwnsQueue, FullWhileAlive
  <2> QED
    BY <2>1, <2>2, <2>3, <2>4, <2>5 DEF CoreInv, TypeOK
<1>36. CASE SetupAck
  <2>1. DataType'
    BY <1>36, <1>0
    DEF SetupAck, cloudVars, historyVars, queueVars, TypeOK, DataType, TrackersType, States
  <2>2. ControlType'
    BY <1>36, <1>0
    DEF SetupAck, cloudVars, historyVars, queueVars, TypeOK, ControlType, AppLabels,
        WorkerLabels
  <2>3. FlagType'
    BY <1>36, <1>0, Zenon DEF SetupAck, cloudVars, historyVars, queueVars, TypeOK, FlagType
  <2>4. WorkerOwnsQueue'
    BY <1>36, <1>0
    DEF SetupAck, cloudVars, historyVars, queueVars, TypeOK, ControlType, AppLabels,
        WorkerLabels, WorkerOwnsQueue, FullWhileAlive
  <2>5. FullWhileAlive'
    BY <1>36, <1>0
    DEF SetupAck, cloudVars, historyVars, queueVars, TypeOK, DataType, ControlType,
        TrackersType, AppLabels, WorkerLabels, WorkerOwnsQueue, FullWhileAlive
  <2> QED
    BY <2>1, <2>2, <2>3, <2>4, <2>5 DEF CoreInv, TypeOK
<1>37. CASE RetryFires
  <2>1. DataType'
    BY <1>37, <1>0
    DEF RetryFires, QueueSetup, cloudVars, historyVars, queueVars, TypeOK, DataType,
        TrackersType, States
  <2>2. ControlType'
    <3>1. AddTask("setup") => queue' \in Seq(Tasks) /\ Len(queue') <= QueueSize
      BY <1>0, AddTaskType DEF Tasks
    <3> QED
      BY <1>37, <1>0, <3>1
      DEF RetryFires, QueueSetup, cloudVars, historyVars, queueVars, TypeOK, ControlType,
          AppLabels, WorkerLabels
  <2>3. FlagType'
    BY <1>37, <1>0, Zenon
    DEF RetryFires, QueueSetup, cloudVars, historyVars, queueVars, TypeOK, FlagType
  <2>4. WorkerOwnsQueue'
    BY <1>37, <1>0
    DEF RetryFires, QueueSetup, cloudVars, historyVars, queueVars, TypeOK, ControlType,
        AppLabels, WorkerLabels, WorkerOwnsQueue, FullWhileAlive
  <2>5. FullWhileAlive'
    BY <1>37, <1>0
    DEF RetryFires, QueueSetup, cloudVars, historyVars, queueVars, TypeOK, DataType,
        ControlType, TrackersType, AppLabels, WorkerLabels, WorkerOwnsQueue, FullWhileAlive
  <2> QED
    BY <2>1, <2>2, <2>3, <2>4, <2>5 DEF CoreInv, TypeOK
<1>38. CASE OrphanFires
  <2>1. DataType'
    BY <1>38, <1>0
    DEF OrphanFires, cloudVars, historyVars, queueVars, TypeOK, DataType, TrackersType, States
  <2>2. ControlType'
    <3>1. AddTask("setup") => queue' \in Seq(Tasks) /\ Len(queue') <= QueueSize
      BY <1>0, AddTaskType DEF Tasks
    <3> QED
      BY <1>38, <1>0, <3>1
      DEF OrphanFires, cloudVars, historyVars, queueVars, TypeOK, ControlType, AppLabels,
          WorkerLabels
  <2>3. FlagType'
    BY <1>38, <1>0, Zenon DEF OrphanFires, cloudVars, historyVars, queueVars, TypeOK, FlagType
  <2>4. WorkerOwnsQueue'
    BY <1>38, <1>0
    DEF OrphanFires, cloudVars, historyVars, queueVars, TypeOK, ControlType, AppLabels,
        WorkerLabels, WorkerOwnsQueue, FullWhileAlive
  <2>5. FullWhileAlive'
    BY <1>38, <1>0
    DEF OrphanFires, cloudVars, historyVars, queueVars, TypeOK, DataType, ControlType,
        TrackersType, AppLabels, WorkerLabels, WorkerOwnsQueue, FullWhileAlive
  <2> QED
    BY <2>1, <2>2, <2>3, <2>4, <2>5 DEF CoreInv, TypeOK
<1>39. CASE UNCHANGED vars
  BY <1>39, <1>0 DEF vars, CoreInv, TypeOK, DataType, ControlType, FlagType, WorkerOwnsQueue,
     FullWhileAlive
<1> QED
  BY <1>1, <1>2, <1>3, <1>4, <1>5, <1>6, <1>7, <1>8, <1>9, <1>10, <1>11, <1>12, <1>13, <1>14, <1>15,
     <1>16, <1>17, <1>18, <1>19, <1>20, <1>21, <1>22, <1>23, <1>24, <1>25, <1>26, <1>27, <1>28,
     <1>29, <1>30, <1>31, <1>32, <1>33, <1>34, <1>35, <1>36, <1>37, <1>38, <1>39
  DEF Next, AppStep, WorkerStep

(* TypeOK and TeardownAlone hold in every reachable state: node_deinit     *)
(* frees subsystems and node (esp_rmaker_core.c:1603-1616) only after the  *)
(* worker has ended, whatever start, stop and failures came before.        *)
THEOREM TeardownSafety == Spec => [](TypeOK /\ TeardownAlone)
<1>1. CoreInv => TypeOK /\ TeardownAlone
  BY DEF CoreInv, TeardownAlone, WorkerOwnsQueue, FullWhileAlive
<1> QED
  BY InitInv, StepInv, <1>1, PTL DEF Spec

-----------------------------------------------------------------------------
(* STARTED means up.                                                       *)

LinkUp == link.mqtt /\ link.handler

(* The worker's stop task has begun to take the link down.                 *)
TakingDown == pc[Worker] \in {"disconnect", "shadowsOff", "stoppedLoad", "stoppedStore",
                              "errorLoad", "errorStore"}

(* What StartedIsUp rests on: the state says STARTED only with the link    *)
(* up, while the task that will change the state is under way, or after a  *)
(* node_deinit that failed half-way; the task that is about to store       *)
(* STARTED has the link up; and so has the start task that is about to     *)
(* store back a byte with STARTED in it.                                   *)
LinkInv ==
    /\ trackers.state = "STARTED" => LinkUp \/ TakingDown \/ qState = "PARKED"
    /\ pc[Worker] = "register" => link.mqtt
    /\ pc[Worker] \in {"startedLoad", "startedStore"} => LinkUp
    /\ pc[Worker] = "clearStore" /\ reg[Worker].state = "STARTED" => LinkUp

(* A step that leaves state, link, worker and queue state alone.           *)
LEMMA LinkStays ==
    ASSUME LinkInv, UNCHANGED <<trackers, link, qState>>, pc'[Worker] = pc[Worker],
           reg'[Worker] = reg[Worker]
    PROVE  LinkInv'
BY DEF LinkInv, LinkUp, TakingDown

(* A step of the worker that leaves state, link and queue state alone and  *)
(* is neither at the end of a stop nor on the way to a store of STARTED.   *)
LEMMA WorkerMoves ==
    ASSUME LinkInv, UNCHANGED <<trackers, link, qState>>, ~TakingDown,
           pc'[Worker] \notin {"register", "startedLoad", "startedStore", "clearStore"}
    PROVE  LinkInv'
BY DEF LinkInv, LinkUp, TakingDown

(* The application's calls: they store STARTING, STOP_REQUESTED, INIT_DONE *)
(* or DEINIT, and take the link down only with the queue parked.           *)
LEMMA AppLink == ASSUME CoreInv, LinkInv, AppStep PROVE LinkInv'
<1> USE CoreThreadsAssumption DEF Goto
<1>0. TypeOK /\ WorkerOwnsQueue
  BY DEF CoreInv
<1>t. pc \in [{App, Worker} -> AppLabels \cup WorkerLabels] /\ reg \in [{App, Worker} -> TrackersType]
      /\ trackers \in TrackersType
  BY <1>0 DEF TypeOK, ControlType, DataType
<1>1. CASE NodeInit
  BY <1>1, <1>t DEF NodeInit, LinkInv, LinkUp
<1>2. CASE StartCall \/ StartAdd \/ StopCall \/ StopAdd \/ DeinitCall \/ DeinitPoll \/ DeinitCheck
  BY <1>2, <1>t, LinkStays
     DEF StartCall, StartAdd, StopCall, StopAdd, DeinitCall, DeinitPoll, DeinitCheck, queueVars
<1>3. CASE StartLoad \/ StopLoad
  BY <1>3, <1>t, LinkStays DEF StartLoad, StopLoad, LoadTrackers, queueVars
<1>4. CASE StartSpawn
  <2>1. pc[Worker] = "none" \/ pc'[Worker] = pc[Worker]
    BY <1>4, <1>0, <1>t DEF StartSpawn, WorkerOwnsQueue
  <2>2. pc'[Worker] \in {"loop", pc[Worker]}
    BY <1>4, <1>t DEF StartSpawn
  <2> QED BY <1>4, <2>1, <2>2 DEF StartSpawn, queueVars, LinkInv, LinkUp, TakingDown
<1>5. CASE StartRunning
  BY <1>5, <1>0, <1>t DEF StartRunning, WorkerOwnsQueue, LinkInv, LinkUp, TakingDown
<1>6. CASE StartStore \/ StopStore
  <2>1. trackers'.state # "STARTED"
    BY <1>6, <1>t DEF StartStore, StopStore, StoreTrackers, TrackersType
  <2>2. pc'[Worker] = pc[Worker]
    BY <1>6, <1>t DEF StartStore, StopStore, StoreTrackers
  <2> QED BY <1>6, <2>1, <2>2 DEF StartStore, StopStore, StoreTrackers, LinkInv, LinkUp
<1>7. CASE JoinStop
  BY <1>7, <1>t DEF JoinStop, queueVars, LinkInv, LinkUp, TakingDown
<1>8. CASE Join
  BY <1>8, <1>t DEF Join, queueVars, LinkInv, LinkUp, TakingDown
<1>9. CASE Teardown
  <2>1. qState = "PARKED" /\ pc[Worker] = "none" /\ pc'[Worker] = "none" /\ qState' = "PARKED"
    BY <1>9, <1>0, <1>t DEF Teardown, WorkerOwnsQueue, queueVars
  <2> QED BY <2>1 DEF LinkInv
<1> QED
  BY <1>1, <1>2, <1>3, <1>4, <1>5, <1>6, <1>7, <1>8, <1>9 DEF AppStep

(* The worker's tasks.                                                     *)
LEMMA WorkerLink == ASSUME CoreInv, LinkInv, WorkerStep PROVE LinkInv'
<1> USE CoreThreadsAssumption DEF Goto
<1>0. TypeOK /\ WorkerOwnsQueue
  BY DEF CoreInv
<1>t. /\ pc \in [{App, Worker} -> AppLabels \cup WorkerLabels]
      /\ reg \in [{App, Worker} -> TrackersType] /\ trackers \in TrackersType
      /\ link \in [mqtt : BOOLEAN, handler : BOOLEAN, shadows : BOOLEAN]
  BY <1>0 DEF TypeOK, ControlType, DataType
<1>1. CASE WorkerLoop
  <2>1. pc'[Worker] \in {"none", "receive"} /\ ~TakingDown
    BY <1>1, <1>t DEF WorkerLoop, TakingDown
  <2> QED BY <1>1, <2>1, <1>0 DEF WorkerLoop, LinkInv, LinkUp, TakingDown, WorkerOwnsQueue
<1>2. CASE WorkerReceive
  <2>1. CASE queue = <<>>
    BY <1>2, <2>1, <1>t, WorkerMoves DEF WorkerReceive, TakingDown
  <2>2. CASE queue # <<>>
    <3>1. Head(queue) \in Tasks
      BY <1>0, <2>2, TailType
    <3>2. pc'[Worker] \in {"clearLoad", "stopRetry", "setup", "drain"}
      BY <1>2, <2>2, <3>1, <1>t DEF WorkerReceive, FirstStep, Tasks
    <3> QED BY <1>2, <3>2, WorkerMoves DEF WorkerReceive, TakingDown
  <2> QED BY <2>1, <2>2
<1>3. CASE ClearLoad
  <2>1. qState # "PARKED"
    BY <1>3, <1>0 DEF ClearLoad, LoadTrackers, WorkerOwnsQueue
  <2>2. reg'[Worker] = trackers /\ pc'[Worker] = "clearStore"
    BY <1>3, <1>t DEF ClearLoad, LoadTrackers
  <2> QED BY <1>3, <2>1, <2>2 DEF ClearLoad, LoadTrackers, LinkInv, LinkUp, TakingDown
<1>4. CASE ClearStore
  <2>1. trackers'.state = reg[Worker].state /\ pc'[Worker] = "connect" /\ pc[Worker] = "clearStore"
    BY <1>4, <1>t DEF ClearStore, StoreTrackers, TrackersType
  <2> QED BY <1>4, <2>1 DEF ClearStore, StoreTrackers, LinkInv, LinkUp, TakingDown
<1>5. CASE StartConnect
  <2>1. /\ pc[Worker] = "connect" /\ trackers' = trackers /\ qState' = qState
        /\ \/ pc'[Worker] = "register" /\ link'.mqtt
           \/ pc'[Worker] = "errorLoad"
        /\ link.mqtt => link'.mqtt
        /\ link'.handler = link.handler
    BY <1>5, <1>t DEF StartConnect, queueVars
  <2> QED BY <2>1 DEF LinkInv, LinkUp, TakingDown
<1>6. CASE StartRegisterFails
  BY <1>6, <1>t, WorkerMoves DEF StartRegisterFails, queueVars, TakingDown
<1>7. CASE StartRegister
  <2>1. pc[Worker] = "register" /\ pc'[Worker] = "startedLoad" /\ link'.handler /\ link'.mqtt = link.mqtt
    BY <1>7, <1>t DEF StartRegister
  <2> QED BY <1>7, <2>1 DEF StartRegister, LinkInv, LinkUp, TakingDown
<1>8. CASE StartedLoad
  <2>1. pc[Worker] = "startedLoad" /\ pc'[Worker] = "startedStore" /\ link' = link
    BY <1>8, <1>t DEF StartedLoad, EndLoad, LoadTrackers
  <2> QED BY <2>1 DEF LinkInv, LinkUp
<1>9. CASE StartedStore
  <2>1. pc[Worker] = "startedStore" /\ pc'[Worker] = "drain" /\ link' = link
    BY <1>9, <1>t DEF StartedStore, EndStore, StoreTrackers
  <2> QED BY <2>1 DEF LinkInv, LinkUp
<1>10. CASE ErrorLoad \/ StoppedLoad
  <2>1. TakingDown' /\ pc'[Worker] \in {"errorStore", "stoppedStore"}
    BY <1>10, <1>t DEF ErrorLoad, StoppedLoad, EndLoad, LoadTrackers, TakingDown
  <2> QED BY <2>1 DEF LinkInv
<1>11. CASE ErrorStore \/ StoppedStore
  <2>1. trackers'.state # "STARTED" /\ pc'[Worker] = "drain"
    BY <1>11, <1>t DEF ErrorStore, StoppedStore, EndStore, StoreTrackers, TrackersType
  <2> QED BY <2>1 DEF LinkInv
<1>12. CASE StopRetry
  BY <1>12, <1>t, WorkerMoves DEF StopRetry, queueVars, TakingDown
<1>13. CASE StopUnregister \/ StopDisconnect \/ StopQueue
  <2>1. TakingDown' /\ pc'[Worker] \in {"disconnect", "shadowsOff", "stoppedLoad", "errorLoad"}
    BY <1>13, <1>t DEF StopUnregister, StopDisconnect, StopQueue, TakingDown
  <2> QED BY <2>1 DEF LinkInv
<1>14. CASE SetupRuns
  BY <1>14, <1>t, WorkerMoves DEF SetupRuns, queueVars, TakingDown
<1> QED
  BY <1>1, <1>2, <1>3, <1>4, <1>5, <1>6, <1>7, <1>8, <1>9, <1>10, <1>11, <1>12, <1>13, <1>14
     DEF WorkerStep

(* Between calls and tasks, a state that says STARTED means connected with *)
(* completions handled (esp_rmaker_core.c), although two tasks store to    *)
(* the bit-fields without a lock and any step of a start or stop may fail. *)
THEOREM StartedSafety == Spec => []StartedIsUp
<1>1. Init => CoreInv /\ LinkInv
  BY InitInv DEF Init, LinkInv, Down, CoreInv, WorkerOwnsQueue
<1>2. CoreInv /\ LinkInv /\ [Next]_vars => CoreInv' /\ LinkInv'
  <2> SUFFICES ASSUME CoreInv, LinkInv, [Next]_vars PROVE LinkInv'
    BY StepInv
  <2>1. CASE SetupAck \/ RetryFires \/ OrphanFires
    BY <2>1, LinkStays DEF SetupAck, RetryFires, OrphanFires, queueVars
  <2>2. CASE UNCHANGED vars
    BY <2>2, LinkStays DEF vars
  <2> QED BY <2>1, <2>2, AppLink, WorkerLink DEF Next
<1>3. CoreInv /\ LinkInv => StartedIsUp
  BY DEF LinkInv, LinkUp, TakingDown, StartedIsUp, AtRest
<1> QED
  BY <1>1, <1>2, <1>3, PTL DEF Spec

-----------------------------------------------------------------------------
(* Claiming.  The stored credentials belong together from the write of the *)
(* host on, and nothing may write them again until they are erased.  That  *)
(* takes the whole protocol: which commands the state allows, that one     *)
(* command at a time runs under claim_ctx_lock, and that the certificate   *)
(* the app holds was issued for the id and the key the node now stores.    *)

(* The certificate is for the stored id and key, and there is a host.      *)
Whole == cert # None /\ cert = [id |-> id, key |-> key] /\ host = TRUE

(* The context lives as long as perform needs it, and no longer.           *)
Waiting ==
    /\ perform \in {"ready", "wait"} => ctx = "live"
    /\ ctx = "live" => perform # "off" /\ group = TRUE /\ claimed = FALSE /\ key \in Keys

(* A command runs under the lock, on a context that is neither released    *)
(* nor done.                                                               *)
Locked ==
    ep.at # "idle" => /\ ctx = "live" /\ lock = "endpoint" /\ state # Claiming!VERIFY_DONE
                      /\ ep.piece < Pieces

(* The request that is being sent names the stored id, and so does the     *)
(* certificate the app got for it: a new id makes the app start over.      *)
Request ==
    /\ state = Claiming!INIT_DONE => cursor < Pieces
    /\ ep.at = "sign" => id \in Ids /\ state = Claiming!INIT
    /\ ctx = "live" => /\ state = Claiming!INIT => app.cert = None
                       /\ state = Claiming!INIT_DONE => csr = id /\ id \in Ids
                       /\ app.cert # None => app.cert = [id |-> id, key |-> key]

(* The response that is being stored is the certificate of the app.        *)
Response ==
    /\ ep.at \in {"verify", "certificate", "host"} =>
           app.cert # None /\ state = Claiming!VERIFY_PENDING
    /\ ep.at = "host" => cert = app.cert

(* The verdict, the success of perform and the end of the claim each come  *)
(* with whole credentials.                                                 *)
Verdict ==
    /\ ctx = "live" /\ "done" \in bits => state = Claiming!VERIFY_DONE /\ Whole
    /\ ctx = "live" /\ perform = "success" => state = Claiming!VERIFY_DONE
    /\ perform = "success" \/ claimed = TRUE => Whole

ClaimInv == Claiming!TypeOK /\ Waiting /\ Locked /\ Request /\ Response /\ Verdict

(* The initial state satisfies the invariant.                              *)
LEMMA ClaimInit == Claiming!Init => ClaimInv
  <1> SUFFICES ASSUME Claiming!Init PROVE ClaimInv
    OBVIOUS
  <1> USE DEF Claiming!Init, Claiming!NoApp, Claiming!PK_GENERATED, Claiming!INIT,
              Claiming!INIT_DONE, Claiming!VERIFY_PENDING, Claiming!VERIFY_DONE
  <1>1. Claiming!TypeOK
    <2>1. /\ 0 \in 0..Claiming!VERIFY_DONE /\ 0 \in 0..Pieces /\ 0 \in 0..MaxCmds /\ 0 \in 0..MaxClaimFaults
      BY ClaimAssumption DEF Claiming!ClaimConstants
    <2>2. /\ ep \in [at : {"idle", "start", "init", "sign", "verify", "certificate", "host", "abort"},
                     piece : 0..Pieces]
          /\ app \in [have : 0..Pieces, cert : [id : Ids, key : Keys] \cup {None}]
      BY <2>1
    <2>3. host \in BOOLEAN /\ group \in BOOLEAN /\ registered \in BOOLEAN /\ claimed \in BOOLEAN
      BY Zenon
    <2> QED BY <2>1, <2>2, <2>3 DEF Claiming!TypeOK
  <1>2. Waiting /\ Locked /\ Request /\ Response /\ Verdict
    BY DEF Waiting, Locked, Request, Response, Verdict
  <1> QED BY <1>1, <1>2 DEF ClaimInv

(* Every step of the endpoint, of perform, of the session, a power cut and *)
(* an erasure preserve the invariant.                                      *)
LEMMA ClaimStep == ClaimInv /\ [Claiming!Next]_(Claiming!vars) => ClaimInv'
  <1> SUFFICES ASSUME ClaimInv, [Claiming!Next]_(Claiming!vars) PROVE ClaimInv'
    OBVIOUS
  <1> USE DEF Claiming!PK_GENERATED, Claiming!INIT, Claiming!INIT_DONE, Claiming!VERIFY_PENDING,
              Claiming!VERIFY_DONE, Claiming!Finish, Claiming!Goto, Claiming!NoApp,
              Claiming!part, Claiming!claim, Claiming!endpoint, Claiming!events
  <1>0. Claiming!TypeOK /\ Waiting /\ Locked /\ Request /\ Response /\ Verdict
    BY DEF ClaimInv
  <1>1. ASSUME NEW cmd \in {"start", "init", "verify", "abort"}, NEW p \in 0..(Pieces - 1), Claiming!Command(cmd, p)
        PROVE  ClaimInv'
    <2>0. Claiming!Allowed(cmd) => state # Claiming!VERIFY_DONE /\ (cmd = "verify" => state = Claiming!VERIFY_PENDING)
      BY DEF Claiming!Allowed
    <2>1. Claiming!TypeOK'
      BY <1>0, <1>1, <2>0, ClaimAssumption DEF Claiming!Command, Claiming!TypeOK,
         Claiming!ClaimConstants, Waiting, Locked, Request, Response
    <2>2. Waiting'
      BY <1>0, <1>1, <2>0 DEF Claiming!Command, Waiting, Locked, Verdict, Whole, Claiming!TypeOK
    <2>3. Locked'
      BY <1>0, <1>1, <2>0, ClaimAssumption DEF Claiming!Command, Locked, Waiting, Claiming!TypeOK,
         Claiming!ClaimConstants
    <2>4. Request'
      BY <1>0, <1>1, <2>0, ClaimAssumption DEF Claiming!Command, Request, Locked, Waiting,
         Claiming!TypeOK, Claiming!ClaimConstants
    <2>5. Response'
      BY <1>0, <1>1, <2>0 DEF Claiming!Command, Response, Locked, Waiting, Claiming!TypeOK
    <2>6. Verdict'
      BY <1>0, <1>1, <2>0, ClaimAssumption DEF Claiming!Command, Verdict, Whole, Locked, Request,
         Response, Waiting, Claiming!TypeOK, Claiming!ClaimConstants
    <2> QED BY <2>1, <2>2, <2>3, <2>4, <2>5, <2>6 DEF ClaimInv
  <1>2. CASE Claiming!Start
    <2>1. Claiming!TypeOK'
      BY <1>0, <1>2, ClaimAssumption DEF Claiming!Start, Claiming!TypeOK, Claiming!ClaimConstants,
         Waiting, Locked, Request, Response
    <2>2. Waiting'
      BY <1>0, <1>2 DEF Claiming!Start, Waiting, Locked, Verdict, Whole, Claiming!TypeOK
    <2>3. Locked'
      BY <1>0, <1>2, ClaimAssumption DEF Claiming!Start, Locked, Waiting, Claiming!TypeOK,
         Claiming!ClaimConstants
    <2>4. Request'
      BY <1>0, <1>2, ClaimAssumption DEF Claiming!Start, Request, Locked, Waiting, Claiming!TypeOK,
         Claiming!ClaimConstants
    <2>5. Response'
      BY <1>0, <1>2 DEF Claiming!Start, Response, Locked, Waiting, Claiming!TypeOK
    <2>6. Verdict'
      BY <1>0, <1>2, ClaimAssumption DEF Claiming!Start, Verdict, Whole, Locked, Request, Response,
         Waiting, Claiming!TypeOK, Claiming!ClaimConstants
    <2> QED BY <2>1, <2>2, <2>3, <2>4, <2>5, <2>6 DEF ClaimInv
  <1>3. CASE Claiming!StoreId
    <2>1. Claiming!TypeOK'
      BY <1>0, <1>3, ClaimAssumption DEF Claiming!StoreId, Claiming!TypeOK, Claiming!ClaimConstants,
         Waiting, Locked, Request, Response
    <2>2. Waiting'
      BY <1>0, <1>3 DEF Claiming!StoreId, Waiting, Locked, Verdict, Whole, Claiming!TypeOK
    <2>3. Locked'
      BY <1>0, <1>3, ClaimAssumption DEF Claiming!StoreId, Locked, Waiting, Claiming!TypeOK,
         Claiming!ClaimConstants
    <2>4. Request'
      BY <1>0, <1>3, ClaimAssumption DEF Claiming!StoreId, Request, Locked, Waiting,
         Claiming!TypeOK, Claiming!ClaimConstants
    <2>5. Response'
      BY <1>0, <1>3 DEF Claiming!StoreId, Response, Locked, Waiting, Claiming!TypeOK
    <2>6. Verdict'
      BY <1>0, <1>3, ClaimAssumption DEF Claiming!StoreId, Verdict, Whole, Locked, Request,
         Response, Waiting, Claiming!TypeOK, Claiming!ClaimConstants
    <2> QED BY <2>1, <2>2, <2>3, <2>4, <2>5, <2>6 DEF ClaimInv
  <1>4. CASE Claiming!Sign
    <2>1. Claiming!TypeOK'
      BY <1>0, <1>4, ClaimAssumption DEF Claiming!Sign, Claiming!TypeOK, Claiming!ClaimConstants,
         Waiting, Locked, Request, Response
    <2>2. Waiting'
      BY <1>0, <1>4 DEF Claiming!Sign, Waiting, Locked, Verdict, Whole, Claiming!TypeOK
    <2>3. Locked'
      BY <1>0, <1>4, ClaimAssumption DEF Claiming!Sign, Locked, Waiting, Claiming!TypeOK,
         Claiming!ClaimConstants
    <2>4. Request'
      BY <1>0, <1>4, ClaimAssumption DEF Claiming!Sign, Request, Locked, Waiting, Claiming!TypeOK,
         Claiming!ClaimConstants
    <2>5. Response'
      BY <1>0, <1>4 DEF Claiming!Sign, Response, Locked, Waiting, Claiming!TypeOK
    <2>6. Verdict'
      BY <1>0, <1>4, ClaimAssumption DEF Claiming!Sign, Verdict, Whole, Locked, Request, Response,
         Waiting, Claiming!TypeOK, Claiming!ClaimConstants
    <2> QED BY <2>1, <2>2, <2>3, <2>4, <2>5, <2>6 DEF ClaimInv
  <1>5. CASE Claiming!SendPiece
    <2>1. Claiming!TypeOK'
      BY <1>0, <1>5, ClaimAssumption DEF Claiming!SendPiece, Claiming!TypeOK,
         Claiming!ClaimConstants, Waiting, Locked, Request, Response
    <2>2. Waiting'
      BY <1>0, <1>5 DEF Claiming!SendPiece, Waiting, Locked, Verdict, Whole, Claiming!TypeOK
    <2>3. Locked'
      BY <1>0, <1>5, ClaimAssumption DEF Claiming!SendPiece, Locked, Waiting, Claiming!TypeOK,
         Claiming!ClaimConstants
    <2>4. Request'
      BY <1>0, <1>5, ClaimAssumption DEF Claiming!SendPiece, Request, Locked, Waiting,
         Claiming!TypeOK, Claiming!ClaimConstants
    <2>5. Response'
      BY <1>0, <1>5 DEF Claiming!SendPiece, Response, Locked, Waiting, Claiming!TypeOK
    <2>6. Verdict'
      BY <1>0, <1>5, ClaimAssumption DEF Claiming!SendPiece, Verdict, Whole, Locked, Request,
         Response, Waiting, Claiming!TypeOK, Claiming!ClaimConstants
    <2> QED BY <2>1, <2>2, <2>3, <2>4, <2>5, <2>6 DEF ClaimInv
  <1>6. CASE Claiming!Receive
    <2>1. Claiming!TypeOK'
      BY <1>0, <1>6, ClaimAssumption DEF Claiming!Receive, Claiming!InSequence, Claiming!TypeOK,
         Claiming!ClaimConstants, Waiting, Locked, Request, Response
    <2>2. Waiting'
      BY <1>0, <1>6 DEF Claiming!Receive, Claiming!InSequence, Waiting, Locked, Verdict, Whole,
         Claiming!TypeOK
    <2>3. Locked'
      BY <1>0, <1>6, ClaimAssumption DEF Claiming!Receive, Claiming!InSequence, Locked, Waiting,
         Claiming!TypeOK, Claiming!ClaimConstants
    <2>4. Request'
      BY <1>0, <1>6, ClaimAssumption DEF Claiming!Receive, Claiming!InSequence, Request, Response,
         Locked, Waiting, Claiming!TypeOK, Claiming!ClaimConstants
    <2>5. Response'
      BY <1>0, <1>6 DEF Claiming!Receive, Claiming!InSequence, Response, Locked, Waiting,
         Claiming!TypeOK
    <2>6. Verdict'
      BY <1>0, <1>6, ClaimAssumption DEF Claiming!Receive, Claiming!InSequence, Verdict, Whole,
         Locked, Request, Response, Waiting, Claiming!TypeOK, Claiming!ClaimConstants
    <2> QED BY <2>1, <2>2, <2>3, <2>4, <2>5, <2>6 DEF ClaimInv
  <1>7. CASE Claiming!StoreCertificate
    <2>1. Claiming!TypeOK'
      BY <1>0, <1>7, ClaimAssumption DEF Claiming!StoreCertificate, Claiming!TypeOK,
         Claiming!ClaimConstants, Waiting, Locked, Request, Response
    <2>2. Waiting'
      BY <1>0, <1>7 DEF Claiming!StoreCertificate, Waiting, Locked, Verdict, Whole, Claiming!TypeOK
    <2>3. Locked'
      BY <1>0, <1>7, ClaimAssumption DEF Claiming!StoreCertificate, Locked, Waiting,
         Claiming!TypeOK, Claiming!ClaimConstants
    <2>4. Request'
      BY <1>0, <1>7, ClaimAssumption DEF Claiming!StoreCertificate, Request, Locked, Waiting,
         Claiming!TypeOK, Claiming!ClaimConstants
    <2>5. Response'
      BY <1>0, <1>7 DEF Claiming!StoreCertificate, Response, Locked, Waiting, Claiming!TypeOK
    <2>6. Verdict'
      BY <1>0, <1>7, ClaimAssumption DEF Claiming!StoreCertificate, Verdict, Whole, Locked, Request,
         Response, Waiting, Claiming!TypeOK, Claiming!ClaimConstants
    <2> QED BY <2>1, <2>2, <2>3, <2>4, <2>5, <2>6 DEF ClaimInv
  <1>8. CASE Claiming!StoreHost
    <2>1. Claiming!TypeOK'
      <3>1. host' \in BOOLEAN
        BY <1>0, <1>8, Zenon DEF Claiming!StoreHost, Claiming!TypeOK
      <3>2. state' \in 0..Claiming!VERIFY_DONE /\ claimFaults' \in 0..MaxClaimFaults /\ 0 \in 0..Pieces
        BY <1>0, <1>8, ClaimAssumption DEF Claiming!StoreHost, Claiming!TypeOK,
           Claiming!ClaimConstants
      <3>3. bits' \subseteq {"done", "abandoned"} /\ lock' \in {"free", "endpoint"}
        BY <1>0, <1>8 DEF Claiming!StoreHost, Claiming!TypeOK
      <3> QED BY <1>0, <1>8, <3>1, <3>2, <3>3 DEF Claiming!StoreHost, Claiming!TypeOK
    <2>2. Waiting'
      BY <1>0, <1>8 DEF Claiming!StoreHost, Waiting, Locked, Verdict, Whole, Claiming!TypeOK
    <2>3. Locked'
      BY <1>0, <1>8, ClaimAssumption DEF Claiming!StoreHost, Locked, Waiting, Claiming!TypeOK,
         Claiming!ClaimConstants
    <2>4. Request'
      BY <1>0, <1>8, ClaimAssumption DEF Claiming!StoreHost, Request, Locked, Waiting,
         Claiming!TypeOK, Claiming!ClaimConstants
    <2>5. Response'
      BY <1>0, <1>8 DEF Claiming!StoreHost, Response, Locked, Waiting, Claiming!TypeOK
    <2>6. Verdict'
      BY <1>0, <1>8, ClaimAssumption DEF Claiming!StoreHost, Verdict, Whole, Locked, Request,
         Response, Waiting, Claiming!TypeOK, Claiming!ClaimConstants
    <2> QED BY <2>1, <2>2, <2>3, <2>4, <2>5, <2>6 DEF ClaimInv
  <1>9. CASE Claiming!Abort
    <2>1. Claiming!TypeOK'
      BY <1>0, <1>9, ClaimAssumption DEF Claiming!Abort, Claiming!TypeOK, Claiming!ClaimConstants,
         Waiting, Locked, Request, Response
    <2>2. Waiting'
      BY <1>0, <1>9 DEF Claiming!Abort, Waiting, Locked, Verdict, Whole, Claiming!TypeOK
    <2>3. Locked'
      BY <1>0, <1>9, ClaimAssumption DEF Claiming!Abort, Locked, Waiting, Claiming!TypeOK,
         Claiming!ClaimConstants
    <2>4. Request'
      BY <1>0, <1>9, ClaimAssumption DEF Claiming!Abort, Request, Locked, Waiting, Claiming!TypeOK,
         Claiming!ClaimConstants
    <2>5. Response'
      BY <1>0, <1>9 DEF Claiming!Abort, Response, Locked, Waiting, Claiming!TypeOK
    <2>6. Verdict'
      BY <1>0, <1>9, ClaimAssumption DEF Claiming!Abort, Verdict, Whole, Locked, Request, Response,
         Waiting, Claiming!TypeOK, Claiming!ClaimConstants
    <2> QED BY <2>1, <2>2, <2>3, <2>4, <2>5, <2>6 DEF ClaimInv
  <1>10. CASE Claiming!PreProvInit
    <2>1. Claiming!TypeOK'
      BY <1>0, <1>10, ClaimAssumption DEF Claiming!PreProvInit, Claiming!TypeOK,
         Claiming!ClaimConstants, Waiting, Locked, Request, Response
    <2>2. Waiting'
      BY <1>0, <1>10 DEF Claiming!PreProvInit, Waiting, Locked, Verdict, Whole, Claiming!TypeOK
    <2>3. Locked'
      BY <1>0, <1>10, ClaimAssumption DEF Claiming!PreProvInit, Locked, Waiting, Claiming!TypeOK,
         Claiming!ClaimConstants
    <2>4. Request'
      BY <1>0, <1>10, ClaimAssumption DEF Claiming!PreProvInit, Request, Locked, Waiting,
         Claiming!TypeOK, Claiming!ClaimConstants
    <2>5. Response'
      BY <1>0, <1>10 DEF Claiming!PreProvInit, Response, Locked, Waiting, Claiming!TypeOK
    <2>6. Verdict'
      BY <1>0, <1>10, ClaimAssumption DEF Claiming!PreProvInit, Verdict, Whole, Locked, Request,
         Response, Waiting, Claiming!TypeOK, Claiming!ClaimConstants
    <2> QED BY <2>1, <2>2, <2>3, <2>4, <2>5, <2>6 DEF ClaimInv
  <1>11. CASE Claiming!SessionStart
    BY <1>0, <1>11 DEF Claiming!SessionStart, ClaimInv, Claiming!TypeOK, Waiting, Locked, Request,
       Response, Verdict, Whole
  <1>12. CASE Claiming!SessionStop
    BY <1>0, <1>12 DEF Claiming!SessionStop, ClaimInv, Claiming!TypeOK, Waiting, Locked, Request,
       Response, Verdict, Whole
  <1>13. CASE Claiming!SessionEnded
    BY <1>0, <1>13 DEF Claiming!SessionEnded, ClaimInv, Claiming!TypeOK, Waiting, Locked, Request,
       Response, Verdict, Whole
  <1>14. CASE Claiming!PerformCheck
    BY <1>0, <1>14 DEF Claiming!PerformCheck, ClaimInv, Claiming!TypeOK, Waiting, Locked, Request,
       Response, Verdict, Whole
  <1>15. CASE Claiming!PerformWait
    <2>1. Claiming!TypeOK'
      BY <1>0, <1>15, ClaimAssumption DEF Claiming!PerformWait, Claiming!TypeOK,
         Claiming!ClaimConstants, Waiting, Locked, Request, Response
    <2>2. Waiting'
      BY <1>0, <1>15 DEF Claiming!PerformWait, Waiting, Locked, Verdict, Whole, Claiming!TypeOK
    <2>3. Locked'
      BY <1>0, <1>15, ClaimAssumption DEF Claiming!PerformWait, Locked, Waiting, Claiming!TypeOK,
         Claiming!ClaimConstants
    <2>4. Request'
      BY <1>0, <1>15, ClaimAssumption DEF Claiming!PerformWait, Request, Locked, Waiting,
         Claiming!TypeOK, Claiming!ClaimConstants
    <2>5. Response'
      BY <1>0, <1>15 DEF Claiming!PerformWait, Response, Locked, Waiting, Claiming!TypeOK
    <2>6. Verdict'
      BY <1>0, <1>15, ClaimAssumption DEF Claiming!PerformWait, Verdict, Whole, Locked, Request,
         Response, Waiting, Claiming!TypeOK, Claiming!ClaimConstants
    <2> QED BY <2>1, <2>2, <2>3, <2>4, <2>5, <2>6 DEF ClaimInv
  <1>16. CASE Claiming!Retire
    <2>1. Claiming!TypeOK'
      BY <1>0, <1>16, ClaimAssumption DEF Claiming!Retire, Claiming!TypeOK, Claiming!ClaimConstants,
         Waiting, Locked, Request, Response
    <2>2. Waiting'
      BY <1>0, <1>16 DEF Claiming!Retire, Waiting, Locked, Verdict, Whole, Claiming!TypeOK
    <2>3. Locked'
      BY <1>0, <1>16, ClaimAssumption DEF Claiming!Retire, Locked, Waiting, Claiming!TypeOK,
         Claiming!ClaimConstants
    <2>4. Request'
      BY <1>0, <1>16, ClaimAssumption DEF Claiming!Retire, Request, Locked, Waiting,
         Claiming!TypeOK, Claiming!ClaimConstants
    <2>5. Response'
      BY <1>0, <1>16 DEF Claiming!Retire, Response, Locked, Waiting, Claiming!TypeOK
    <2>6. Verdict'
      BY <1>0, <1>16, ClaimAssumption DEF Claiming!Retire, Verdict, Whole, Locked, Request,
         Response, Waiting, Claiming!TypeOK, Claiming!ClaimConstants
    <2> QED BY <2>1, <2>2, <2>3, <2>4, <2>5, <2>6 DEF ClaimInv
  <1>17. CASE Claiming!Release
    <2>1. Claiming!TypeOK'
      BY <1>0, <1>17, ClaimAssumption DEF Claiming!Release, Claiming!TypeOK,
         Claiming!ClaimConstants, Waiting, Locked, Request, Response
    <2>2. Waiting'
      BY <1>0, <1>17 DEF Claiming!Release, Waiting, Locked, Verdict, Whole, Claiming!TypeOK
    <2>3. Locked'
      BY <1>0, <1>17, ClaimAssumption DEF Claiming!Release, Locked, Waiting, Claiming!TypeOK,
         Claiming!ClaimConstants
    <2>4. Request'
      BY <1>0, <1>17, ClaimAssumption DEF Claiming!Release, Request, Locked, Waiting,
         Claiming!TypeOK, Claiming!ClaimConstants
    <2>5. Response'
      BY <1>0, <1>17 DEF Claiming!Release, Response, Locked, Waiting, Claiming!TypeOK
    <2>6. Verdict'
      BY <1>0, <1>17, ClaimAssumption DEF Claiming!Release, Verdict, Whole, Locked, Request,
         Response, Waiting, Claiming!TypeOK, Claiming!ClaimConstants
    <2> QED BY <2>1, <2>2, <2>3, <2>4, <2>5, <2>6 DEF ClaimInv
  <1>18. CASE Claiming!Provision
    BY <1>0, <1>18 DEF Claiming!Provision, ClaimInv, Claiming!TypeOK, Waiting, Locked, Request,
       Response, Verdict, Whole
  <1>19. CASE Claiming!PowerCut
    <2>1. Claiming!TypeOK'
      <3>1. 0 \in 0..Claiming!VERIFY_DONE /\ 0 \in 0..Pieces /\ claimFaults' \in 0..MaxClaimFaults
        BY <1>0, <1>19, ClaimAssumption DEF Claiming!PowerCut, Claiming!TypeOK,
           Claiming!ClaimConstants
      <3>2. group' \in BOOLEAN /\ registered' \in BOOLEAN
        BY <1>19, Zenon DEF Claiming!PowerCut
      <3> QED BY <1>0, <1>19, <3>1, <3>2 DEF Claiming!PowerCut, Claiming!TypeOK
    <2>2. Waiting'
      BY <1>0, <1>19 DEF Claiming!PowerCut, Waiting, Locked, Verdict, Whole, Claiming!TypeOK
    <2>3. Locked'
      BY <1>0, <1>19, ClaimAssumption DEF Claiming!PowerCut, Locked, Waiting, Claiming!TypeOK,
         Claiming!ClaimConstants
    <2>4. Request'
      BY <1>0, <1>19, ClaimAssumption DEF Claiming!PowerCut, Request, Locked, Waiting,
         Claiming!TypeOK, Claiming!ClaimConstants
    <2>5. Response'
      BY <1>0, <1>19 DEF Claiming!PowerCut, Response, Locked, Waiting, Claiming!TypeOK
    <2>6. Verdict'
      BY <1>0, <1>19, ClaimAssumption DEF Claiming!PowerCut, Verdict, Whole, Locked, Request,
         Response, Waiting, Claiming!TypeOK, Claiming!ClaimConstants
    <2> QED BY <2>1, <2>2, <2>3, <2>4, <2>5, <2>6 DEF ClaimInv
  <1>20. CASE Claiming!Erase
    <2>1. Claiming!TypeOK'
      BY <1>0, <1>20, ClaimAssumption DEF Claiming!Erase, Claiming!TypeOK, Claiming!ClaimConstants,
         Waiting, Locked, Request, Response
    <2>2. Waiting'
      BY <1>0, <1>20 DEF Claiming!Erase, Waiting, Locked, Verdict, Whole, Claiming!TypeOK
    <2>3. Locked'
      BY <1>0, <1>20, ClaimAssumption DEF Claiming!Erase, Locked, Waiting, Claiming!TypeOK,
         Claiming!ClaimConstants
    <2>4. Request'
      BY <1>0, <1>20, ClaimAssumption DEF Claiming!Erase, Request, Locked, Waiting, Claiming!TypeOK,
         Claiming!ClaimConstants
    <2>5. Response'
      BY <1>0, <1>20 DEF Claiming!Erase, Response, Locked, Waiting, Claiming!TypeOK
    <2>6. Verdict'
      BY <1>0, <1>20, ClaimAssumption DEF Claiming!Erase, Verdict, Whole, Locked, Request, Response,
         Waiting, Claiming!TypeOK, Claiming!ClaimConstants
    <2> QED BY <2>1, <2>2, <2>3, <2>4, <2>5, <2>6 DEF ClaimInv
  <1>21. CASE UNCHANGED Claiming!vars
    BY <1>0, <1>21 DEF Claiming!vars, ClaimInv, Claiming!TypeOK, Waiting, Locked, Request, Response,
       Verdict, Whole
  <1> QED
    BY <1>1, <1>2, <1>3, <1>4, <1>5, <1>6, <1>7, <1>8, <1>9, <1>10, <1>11, <1>12, <1>13, <1>14,
       <1>15, <1>16, <1>17, <1>18, <1>19, <1>20, <1>21 DEF Claiming!Next, Claiming!Endpoint,
       Claiming!Perform

(* A claim that perform reported as successful left a certificate that is  *)
(* for the stored id and key, and a host (claim.c), whatever commands came *)
(* in whatever order, for any number of fragments, failed writes and power *)
(* cuts.                                                                   *)
THEOREM ClaimSafety == Claiming!Spec => []ClaimedIsWhole
  <1>1. ClaimInv => ClaimedIsWhole
    BY DEF ClaimInv, Verdict, Whole, ClaimedIsWhole, Claiming!ClaimedIsWhole, Claiming!TypeOK
  <1> QED BY <1>1, ClaimInit, ClaimStep, PTL DEF Claiming!Spec

(* No command of the endpoint runs on a claim context or an event group    *)
(* that esp_rmaker_assisted_claim_perform has released (claim.c).          *)
THEOREM ContextSafety == Claiming!Spec => []CommandHasContext
  <1>1. ClaimInv => CommandHasContext
    BY DEF ClaimInv, Locked, Waiting, CommandHasContext, Claiming!CommandHasContext
  <1> QED BY <1>1, ClaimInit, ClaimStep, PTL DEF Claiming!Spec
=============================================================================
