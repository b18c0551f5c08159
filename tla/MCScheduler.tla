---------------------------- MODULE MCScheduler ----------------------------
(***************************************************************************)
(* Small instances of Scheduler for TLC.                                   *)
(***************************************************************************)
EXTENDS Scheduler

CONSTANTS
    CpuCount,
    Watched     \* the ids whose progress the liveness properties follow

MCCpus == 0..(CpuCount - 1)

MCNoCpu == CpuCount

(* No watched task that is Ready is passed over for ever by pick_next. *)
WatchedReadyRuns == \A id \in Watched : ReadyRuns(id)

(* Every sleep_ms of a watched task ends and the task runs again. *)
WatchedSleeperWakes == \A id \in Watched : SleeperWakes(id)

(* The reaper releases what a watched task leaves behind when it exits. *)
WatchedExitedReaped == \A id \in Watched : ExitedReaped(id)

=============================================================================
