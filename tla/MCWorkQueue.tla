---------------------------- MODULE MCWorkQueue ----------------------------
(***************************************************************************)
(* The work queue, a task of the POSIX scheduler, the migration of the     *)
(* node's credentials and the end of an image download, checked side by    *)
(* side: part says which one a behaviour is about, the others stay as they *)
(* began.                                                                  *)
(*                                                                         *)
(* queue: one producer, two worker identities and a queue of two entries.  *)
(* timer: four calls of reset, stop and cancel.  migration: three          *)
(* initialisations, one failed call.  download: two downloads of one image *)
(* and one fault; run core has the safety, with three images.  The last    *)
(* three may come to an end.                                               *)
(***************************************************************************)
EXTENDS WorkQueue, TLC

CONSTANTS MaxResets, MaxQueue, MaxInits, MaxFaults,
          Images, None, Md5, Hashed, Resumable, N, PerRequest, Factor, Word, MaxWork, MaxStarts

VARIABLES
    part,
    running, is_active, has_due, is_periodic, past, thread, canceller, resets, stale,
    id, host, image, pending, up, flags, providers, events, timer, online, connected, inits, faults,
    givenUp,
    dl, late, work, linked, sub, subRetry, net, nvs, flash, out, starts, failures, spoiled, starved

Timer     == INSTANCE PosixTimer
Migrating == INSTANCE Migration
Download  == INSTANCE OtaImage WITH online <- linked, faults <- failures, MaxQueue <- MaxWork

ASSUME MigrationAssumption == Migrating!MigrationConstants

timerVars     == <<running, is_active, has_due, is_periodic, past, thread, canceller, resets, stale>>
migrationVars == <<id, host, image, pending, up, flags, providers, events, timer, online,
                   connected, inits, faults, givenUp>>
downloadVars  == <<dl, late, work, linked, sub, subRetry, net, nvs, flash, out, starts, failures,
                   spoiled, starved>>
allVars       == <<part, vars, timerVars, migrationVars, downloadVars>>

CommonInit ==
    /\ part \in {"queue", "timer", "migration", "download"}
    /\ Init /\ Timer!Init /\ Migrating!Init /\ Download!DownloadInit
    /\ part # "timer" => ~is_periodic
    /\ part # "migration" => ~id /\ host = "old" /\ ~pending

CommonNext ==
    \/ part = "queue" /\ Next /\ UNCHANGED <<part, timerVars, migrationVars, downloadVars>>
    \/ part = "timer" /\ Timer!Next /\ UNCHANGED <<part, vars, migrationVars, downloadVars>>
    \/ part = "migration" /\ Migrating!Next /\ UNCHANGED <<part, vars, timerVars, downloadVars>>
    \/ /\ part = "download" /\ Download!DownloadNext
       /\ UNCHANGED <<part, vars, timerVars, migrationVars>>
    \/ part # "queue" /\ UNCHANGED allVars

(* The fairness of PosixTimer and of Migration, of which some action is    *)
(* enabled from the beginning: it is asked of their own part only.         *)
TimerFairness ==
    /\ WF_timerVars(part = "timer" /\ (Timer!Top \/ Timer!Expire \/ Timer!Fire \/ Timer!Return))
    /\ WF_timerVars(part = "timer" /\ Timer!Elapse)
    /\ WF_timerVars(part = "timer" /\ Timer!Join)

MigrationFairness ==
    /\ WF_migrationVars(part = "migration" /\ Migrating!NodeInit)
    /\ WF_migrationVars(part = "migration" /\ Migrating!NetworkUp)
    /\ WF_migrationVars(part = "migration" /\ Migrating!TimeOut)
    /\ WF_migrationVars(part = "migration" /\ (Migrating!OnEvent \/ Migrating!OnTimeout))

CommonSpec ==
    /\ CommonInit /\ [][CommonNext]_allVars
    /\ Fairness /\ TimerFairness /\ MigrationFairness /\ Download!Fairness

-----------------------------------------------------------------------------
(* A task of the POSIX scheduler that is armed runs, and a cancel of it    *)
(* returns (scheduler_posix.c).                                            *)
ArmedRuns == part = "timer" => Timer!ArmedRuns

(* A node that was rolled back still has the host of its old image         *)
(* (migration.c, __write_back).                                            *)
RollbackKeepsHost == Migrating!RollbackKeepsHost

(* A pending image that cannot reach its host is not kept (migration.c,    *)
(* __on_timeout).                                                          *)
NotStranded == part = "migration" => Migrating!NotStranded

(* A download that was started ends (ota_mqtt_downloader.c).               *)
DownloadEnds == Download!DownloadEnds
=============================================================================
