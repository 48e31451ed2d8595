------------------------ MODULE ScanJobsRefinement ------------------------
(* The tables and the scan loop implement ScanQueue, as long as statements
   do not fail (Faults = FALSE). *)
EXTENDS ScanJobs

(* A job is over when its row is neither waiting nor in the loop's hands:
   finished, withdrawn, deleted, or left in running. *)
JobPhase(j) ==
  IF j >= nextJob THEN "new"
  ELSE IF j = cur THEN "active"
  ELSE IF j \in claimed THEN "claimed"
  ELSE IF status[j] = "pending" THEN "waiting"
  ELSE "over"

Queue == INSTANCE ScanQueue WITH Job <- JobId, phase <- [j \in JobId |-> JobPhase(j)]

(* Jobs start at most once and one at a time, and a claimed job can no longer
   be withdrawn, whatever requests, deletions and restarts do.
   (run_scan_loop, pending, cancel_pending_batch) *)
RefinesQueue == Queue!Spec
=============================================================================
