--------------------------- MODULE MCScrapeStage ---------------------------
(* Instances of ScrapeStage for TLC. *)
EXTENDS ScrapeStageRefinement

AllItems == {Item}
=============================================================================
