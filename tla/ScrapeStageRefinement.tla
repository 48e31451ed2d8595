----------------------- MODULE ScrapeStageRefinement -----------------------
(* The scrape stage implements the documented life of an item, as long as no
   admin request interferes and no statement fails (MaxRequests = 0, Faults =
   FALSE). *)
EXTENDS ScrapeStage

(* The item in the consumer's hands is taken, whatever the sweep made of it. *)
ItemPhase(i) == IF InFlight(i) /\ Present(i) THEN "scraping" ELSE status[i]

Lifecycle == INSTANCE ScrapeLifecycle WITH
  Tries <- MaxAttempts,
  phase <- [i \in Item |-> ItemPhase(i)],
  left <- [i \in Item |-> MaxAttempts - attempts[i]],
  named <- {i \in Item : tmdb[i] # NoId},
  owed <- sweepOwed

(* Each failure costs exactly one try and the last one is final, each item is
   resolved once and a scraped one has an id, whatever the sweep, restarts,
   deletions and scans do between the statements of the consumer.
   (run_pending, state machine in its header) *)
RefinesLifecycle == Lifecycle!Spec

(* The same up to the first admin request or failed statement. *)
RefinesUndisturbed ==
  Lifecycle!Init /\ [][requests' = 0 /\ ~ faulted' => Lifecycle!Next \/ UNCHANGED Lifecycle!vars]_vars
=============================================================================
