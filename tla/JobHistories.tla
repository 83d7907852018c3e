---------------------------- MODULE JobHistories ----------------------------
(***************************************************************************)
(* What is kept of a job's past: the captured logs of its runs (JobLog)    *)
(* and its recent runs (JobScheduler).                                     *)
(***************************************************************************)
EXTENDS JobLog, JobScheduler

(* The bounded histories kept of a job's runs hold the latest of what happened:
   the captured log of a run (LogsAreTheLatest) and the recent runs of a job
   (HistoryAgrees), whatever was evicted meanwhile. *)
HistoriesAgree == LogsAreTheLatest /\ HistoryAgrees
=============================================================================
