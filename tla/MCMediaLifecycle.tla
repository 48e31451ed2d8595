-------------------------- MODULE MCMediaLifecycle --------------------------
(* Instances of MediaLifecycle for TLC: a movie, a .strm of its stem, a
   .strm that names a local file, and an episode of a series. *)
EXTENDS MediaLifecycle, TLC

CONSTANTS m1, u1, w1, e1

Movie(k) == <<[type |-> "movie", key |-> k]>>
Episode(d, n, k) == <<[type |-> "series", key |-> d], [type |-> "season", key |-> n],
                      [type |-> "episode", key |-> k]>>

KindOf == [f \in File |-> IF f = u1 THEN "url" ELSE IF f = w1 THEN "fileUrl" ELSE "local"]
ChainOf == [f \in File |-> IF f = e1 THEN Episode("show", 1, 1)
                           ELSE IF f = w1 THEN Movie("B") ELSE Movie("A")]
DirOf == [f \in File |-> IF f = e1 THEN "season" ELSE "root"]
TwinOf == [f \in File |-> IF f = m1 THEN {u1} \cap File ELSE {}]
=============================================================================
