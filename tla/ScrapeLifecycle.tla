-------------------------- MODULE ScrapeLifecycle --------------------------
(***************************************************************************)
(* The life of an item as the scrape stage documents it: pending, taken,    *)
(* then scraped or none for good; a failure costs one of the remaining      *)
(* tries, and the last one ends in failed.  An item goes back to pending    *)
(* for nothing only when somebody else has named its TMDB entry, or when    *)
(* the process stopped, once.                                               *)
(***************************************************************************)
EXTENDS Naturals
CONSTANTS Item, Tries
VARIABLES
  phase, left,
  named, \* the items with an id
  owed   \* the items of a process that stopped may still be put back

vars == <<phase, left, named, owed>>

Init ==
  /\ phase = [i \in Item |-> "new"] /\ left = [i \in Item |-> Tries]
  /\ named = {} /\ owed = TRUE

Moves(i, from, to) == phase[i] = from /\ phase' = [phase EXCEPT ![i] = to]

Enter(i) == Moves(i, "new", "pending") /\ UNCHANGED <<left, named, owed>>
Name(i) ==
  /\ phase[i] \notin {"new", "gone"} /\ named' = named \union {i}
  /\ UNCHANGED <<phase, left, owed>>
Take(i) == Moves(i, "pending", "scraping") /\ left[i] > 0 /\ UNCHANGED <<left, named, owed>>
Scraped(i) ==
  Moves(i, "scraping", "scraped") /\ named' = named \union {i} /\ UNCHANGED <<left, owed>>
NoMatch(i) == Moves(i, "scraping", "none") /\ UNCHANGED <<left, named, owed>>
Skip(i) == i \in named /\ Moves(i, "scraping", "pending") /\ UNCHANGED <<left, named, owed>>
FailOnce(i) ==
  /\ Moves(i, "scraping", IF left[i] = 1 THEN "failed" ELSE "pending")
  /\ left' = [left EXCEPT ![i] = @ - 1] /\ UNCHANGED <<named, owed>>
Remove(i) ==
  /\ phase[i] # "new" /\ phase' = [phase EXCEPT ![i] = "gone"]
  /\ left' = [left EXCEPT ![i] = Tries] /\ named' = named \ {i} /\ owed' = owed

PutBack(S) ==
  /\ \A i \in S : phase[i] = "scraping"
  /\ phase' = [i \in Item |-> IF i \in S THEN "pending" ELSE phase[i]]
  /\ UNCHANGED <<left, named>>
Sweep(S) == owed /\ PutBack(S) /\ owed' = FALSE
Stop(S) == PutBack(S) /\ owed' = TRUE

Next == \/ \E i \in Item : \/ Enter(i) \/ Name(i) \/ Take(i) \/ Scraped(i) \/ NoMatch(i)
                           \/ Skip(i) \/ FailOnce(i) \/ Remove(i)
        \/ \E S \in SUBSET Item : Sweep(S) \/ Stop(S)

Spec == Init /\ [][Next]_vars
=============================================================================
