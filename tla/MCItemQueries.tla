---------------------------- MODULE MCItemQueries ----------------------------
(* Instance of UserData and ItemQueries for TLC: a series of two seasons, the
   specials and one after a gap, one of a single episode, and a film in
   another library. *)
EXTENDS ItemQueries

Shelf ==
  (1 :> [type |-> "series", parent |-> 0, lib |-> 1, no |-> 0]) @@
  (2 :> [type |-> "season", parent |-> 1, lib |-> 1, no |-> 0]) @@
  (3 :> [type |-> "episode", parent |-> 2, lib |-> 1, no |-> 1]) @@
  (4 :> [type |-> "episode", parent |-> 2, lib |-> 1, no |-> 2]) @@
  (5 :> [type |-> "season", parent |-> 1, lib |-> 1, no |-> 3]) @@
  (6 :> [type |-> "episode", parent |-> 5, lib |-> 1, no |-> 1]) @@
  (7 :> [type |-> "series", parent |-> 0, lib |-> 1, no |-> 0]) @@
  (8 :> [type |-> "season", parent |-> 7, lib |-> 1, no |-> 1]) @@
  (9 :> [type |-> "episode", parent |-> 8, lib |-> 1, no |-> 1]) @@
  (10 :> [type |-> "movie", parent |-> 0, lib |-> 2, no |-> 0])
SlotSymmetry == Permutations(Slot)
Minutes == [i \in DOMAIN Shelf |-> IF i = 9 THEN 0 ELSE 11]
Kinds == [i \in DOMAIN Shelf |-> CASE i = 1 -> {"a", "b"} [] i = 7 -> {"a"} [] i = 10 -> {"a", "b"} [] OTHER -> {}]
=============================================================================
