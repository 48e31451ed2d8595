----------------------------- MODULE ScanQueue -----------------------------
(***************************************************************************)
(* What the scan queue promises to whoever enqueues a job, without tables,  *)
(* statuses or polling: a job waits, is claimed by the one worker, is       *)
(* active alone, and is then over for good.  A withdrawal reaches a job     *)
(* only before it is claimed; a restart drops the active job and puts       *)
(* claimed ones back.                                                       *)
(***************************************************************************)
CONSTANT Job
VARIABLE phase

Phase == {"new", "waiting", "claimed", "active", "over"}
In(ph) == {j \in Job : phase[j] = ph}
Moves(S, ph) == phase' = [j \in Job |-> IF j \in S THEN ph ELSE phase[j]]

Init == phase = [j \in Job |-> "new"]

Enqueue(j) == phase[j] = "new" /\ Moves({j}, "waiting")

Withdraw(S) == S \subseteq In("waiting") /\ Moves(S, "over")

Claim(S) ==
  /\ In("claimed") = {} /\ In("active") = {}
  /\ S # {} /\ S \subseteq In("waiting")
  /\ Moves(S, "claimed")

Start(j) == In("active") = {} /\ phase[j] = "claimed" /\ Moves({j}, "active")

Finish(j) == phase[j] = "active" /\ Moves({j}, "over")

(* A claimed job that was withdrawn too late does not come back. *)
Restart(back) ==
  /\ back \subseteq In("claimed")
  /\ phase' = [j \in Job |-> IF j \in back THEN "waiting"
                             ELSE IF phase[j] \in {"claimed", "active"} THEN "over"
                             ELSE phase[j]]

Next ==
  \/ \E j \in Job : Enqueue(j) \/ Start(j) \/ Finish(j)
  \/ \E S \in SUBSET Job : Withdraw(S) \/ Claim(S) \/ Restart(S)

Spec == Init /\ [][Next]_phase
=============================================================================
