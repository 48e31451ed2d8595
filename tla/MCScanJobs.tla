---------------------------- MODULE MCScanJobs ----------------------------
(* Instances of ScanJobs for TLC. *)
EXTENDS ScanJobsRefinement, TLC

(* Directories and request slots are interchangeable (safety runs only). *)
Symm == Permutations(Path) \union Permutations(Task)
=============================================================================
