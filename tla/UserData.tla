------------------------------- MODULE UserData -------------------------------
(***************************************************************************)
(* What a user did with the items of emrs: table user_item_data            *)
(* (user_data_store.rs) and the requests that write it: playback reports   *)
(* (routes/sessions.rs), favorites and played marks (items/user_data.rs).  *)
(* A request looks for the item, inserts the row if there is none and then *)
(* updates it, three statements without a transaction; deletion detection  *)
(* and library requests delete rows and items meanwhile.                   *)
(*                                                                         *)
(* The rows of one user are modelled: no statement touches two users' rows. *)
(* A position is a number of ticks; rounding it to a millisecond (play_ms) *)
(* is left out, last_played_date, which nothing reads, too.                *)
(***************************************************************************)
EXTENDS Integers, FiniteSets

CONSTANTS
  Row,          \* item -> its row of table item: type, parent, lib, no (season or episode number)
  Runtime,      \* item -> RunTimeTicks, 0 when neither report nor media_source knows
  Position,     \* the positions players report
  Playable, Markable, \* items that reports, and that favorite and played requests name
  UsedBefore,   \* the item the user may have started once already, or none
  Slot,         \* requests in progress at a time
  MaxRequests,  \* bound: requests
  MaxDeletes,   \* bound: deletions
  Faults        \* TRUE when a statement may fail

Item == DOMAIN Row

ASSUME UserDataAssumption ==
  /\ Item \subseteq Nat \ {0} /\ Playable \cup Markable \cup UsedBefore \subseteq Item
  /\ Position \subseteq Nat /\ Runtime \in [Item -> Nat]
  /\ Cardinality(UsedBefore) <= 1 /\ IsFiniteSet(Slot)
  /\ MaxRequests \in Nat /\ MaxDeletes \in Nat /\ Faults \in BOOLEAN
  /\ \A i \in Item : Row[i].parent \in {0} \cup Item

VARIABLES
  items,      \* ids in table item
  uid,        \* item -> its row of user_item_data, or NoRow
  clock,      \* format_time_now: every reading is later than the one before
  req,        \* slot -> the request in it
  doomed,     \* items whose user data is deleted and whose row is about to be
  requests, deletes,
  told,       \* history: item -> what the requests so far make of its row
  overlapped, \* history: items two requests were about at a time
  lost        \* history: items of a failed request or a deletion

data == <<items, uid, clock, req, doomed>>
history == <<told, overlapped, lost>>
vars == <<data, requests, deletes, history>>

NoRow == [played |-> FALSE, count |-> -1, pos |-> 0, fav |-> FALSE, at |-> 0]
Fresh(now) == [played |-> FALSE, count |-> 0, pos |-> 0, fav |-> FALSE, at |-> now]
Idle == [at |-> "idle", op |-> "none", item |-> 0, pos |-> 0, flag |-> FALSE, now |-> 0]

Init ==
  /\ items = Item /\ clock = 1
  /\ uid \in {[i \in Item |-> IF i \in S THEN [Fresh(1) EXCEPT !.count = 1] ELSE NoRow] : S \in SUBSET UsedBefore}
  /\ req = [s \in Slot |-> Idle] /\ doomed = {} /\ requests = 0 /\ deletes = 0
  /\ told = [i \in Item |-> [uid[i] EXCEPT !.at = 0]]
  /\ overlapped = {} /\ lost = {}

-----------------------------------------------------------------------------
(* Requests.                                                               *)

Busy(i) == \E s \in Slot : req[s].at # "idle" /\ req[s].item = i

(* What a request promises: the row it is to leave. *)
Promise(row, op, pos, flag) ==
  LET r == [row EXCEPT !.count = IF @ < 0 THEN 0 ELSE @]
  IN CASE op = "start" -> [r EXCEPT !.count = @ + 1]
       [] op \in {"progress", "stop"} -> [r EXCEPT !.pos = pos, !.played = flag]
       [] op = "favorite" -> [r EXCEPT !.fav = flag]
       [] op = "played" -> [r EXCEPT !.played = flag]

(* A handler that found its item.  Reports take the time before the INSERT. *)
Ask(s, op, i, pos, flag) ==
  /\ req[s].at = "idle" /\ requests < MaxRequests /\ requests' = requests + 1
  /\ req' = [req EXCEPT ![s] = [at |-> "insert", op |-> op, item |-> i, pos |-> pos, flag |-> flag,
                                now |-> clock + 1]]
  /\ clock' = clock + 1
  /\ told' = [told EXCEPT ![i] = Promise(@, op, pos, flag)]
  /\ overlapped' = IF Busy(i) THEN overlapped \cup {i} ELSE overlapped
  /\ lost' = IF i \in doomed \/ i \notin items THEN lost \cup {i} ELSE lost
  /\ UNCHANGED <<items, uid, doomed, deletes>>

(* resolve_item_id: the row of the item is there. *)
Exists(i) == i \in items

ReportPlaying(s, i) == Exists(i) /\ Ask(s, "start", i, 0, FALSE)
ReportProgress(s, i, pos) == Exists(i) /\ Ask(s, "progress", i, pos, FALSE)

(* Watched to the end: 80 percent of a known duration, and not failed.  Mutant:
   an unknown duration will do. *)
IsCompleteAnyway(i, pos, failed) == ~failed /\ pos >= (Runtime[i] * 8) \div 10
IsComplete(i, pos, failed) == ~failed /\ Runtime[i] > 0 /\ pos >= (Runtime[i] * 8) \div 10
ReportStopped(s, i, pos, failed) ==
  Exists(i) /\ Ask(s, "stop", i, pos, IsComplete(i, pos, failed))

(* FavoriteItems takes any id of an item, there or not. *)
ToggleFavorite(s, i, favorite) == Ask(s, "favorite", i, 0, favorite)
(* PlayedItems and HideFromResume. *)
MarkPlayed(s, i, played) == Exists(i) /\ Ask(s, "played", i, 0, played)

(* INSERT OR IGNORE.  Mutant: the row is replaced. *)
InsertOrReplace(s) ==
  /\ req[s].at = "insert"
  /\ uid' = [uid EXCEPT ![req[s].item] = Fresh(clock + 1)]
  /\ clock' = clock + 1
  /\ req' = [req EXCEPT ![s].at = "update",
                        ![s].now = IF req[s].op \in {"progress", "stop"} THEN @ ELSE clock + 1]
  /\ UNCHANGED <<items, doomed, requests, deletes, history>>
InsertOrIgnore(s) ==
  /\ req[s].at = "insert"
  /\ uid' = IF uid[req[s].item] = NoRow THEN [uid EXCEPT ![req[s].item] = Fresh(clock + 1)] ELSE uid
  /\ clock' = clock + 1
  /\ req' = [req EXCEPT ![s].at = "update",
                        ![s].now = IF req[s].op \in {"progress", "stop"} THEN @ ELSE clock + 1]
  /\ UNCHANGED <<items, doomed, requests, deletes, history>>

(* The UPDATE of the request; no row, no effect. *)
Written(row, r) ==
  CASE r.op = "start" -> [row EXCEPT !.count = @ + 1, !.at = r.now]
    [] r.op \in {"progress", "stop"} -> [row EXCEPT !.pos = r.pos, !.played = r.flag, !.at = r.now]
    [] r.op = "favorite" -> [row EXCEPT !.fav = r.flag, !.at = r.now]
    [] r.op = "played" -> [row EXCEPT !.played = r.flag, !.at = r.now]

Update(s) ==
  /\ req[s].at = "update"
  /\ uid' = IF uid[req[s].item] = NoRow THEN uid
            ELSE [uid EXCEPT ![req[s].item] = Written(@, req[s])]
  /\ req' = [req EXCEPT ![s] = Idle]
  /\ UNCHANGED <<items, clock, doomed, requests, deletes, history>>

(* A statement fails: an error in the log, and to a report the answer is 204
   all the same. *)
Fails(s) ==
  /\ Faults /\ req[s].at # "idle"
  /\ lost' = lost \cup {req[s].item} /\ req' = [req EXCEPT ![s] = Idle]
  /\ UNCHANGED <<items, uid, clock, doomed, requests, deletes, told, overlapped>>

-----------------------------------------------------------------------------
(* Deletions.                                                              *)

(* delete_item_cascade: the user data first, then the item. *)
DropUserData(i) ==
  /\ i \in items /\ deletes < MaxDeletes /\ deletes' = deletes + 1
  /\ uid' = [uid EXCEPT ![i] = NoRow] /\ doomed' = doomed \cup {i}
  /\ lost' = lost \cup {i}
  /\ UNCHANGED <<items, clock, req, requests, told, overlapped>>
DropItem(i) ==
  /\ i \in doomed
  /\ doomed' = doomed \ {i} /\ items' = items \ {i}
  /\ UNCHANGED <<uid, clock, req, requests, deletes, history>>

(* delete_library: one transaction. *)
DropLibrary(l) ==
  /\ deletes < MaxDeletes /\ deletes' = deletes + 1
  /\ LET dead == {i \in items : Row[i].lib = l}
     IN /\ items' = items \ dead
        /\ uid' = [i \in Item |-> IF i \in dead THEN NoRow ELSE uid[i]]
        /\ doomed' = doomed \ dead /\ lost' = lost \cup dead
  /\ UNCHANGED <<clock, req, requests, told, overlapped>>

Request(s) ==
  \/ \E i \in Playable :
       \/ ReportPlaying(s, i)
       \/ \E pos \in Position : ReportProgress(s, i, pos) \/ \E f \in BOOLEAN : ReportStopped(s, i, pos, f)
  \/ \E i \in Markable, b \in BOOLEAN : ToggleFavorite(s, i, b) \/ MarkPlayed(s, i, b)

Next ==
  \/ \E s \in Slot : Request(s) \/ InsertOrIgnore(s) \/ Update(s) \/ Fails(s)
  \/ \E i \in Playable : DropUserData(i) \/ DropItem(i)
  \/ \E l \in {Row[i].lib : i \in Item} : DropLibrary(l)

Spec == Init /\ [][Next]_vars

-----------------------------------------------------------------------------
(* Properties.                                                             *)

(* Types of the two tables and of the requests: a row is not there, or has been
   started some number of times (user_item_data, migration 0005). *)
RowType == [played : BOOLEAN, count : Nat \cup {-1}, pos : Nat, fav : BOOLEAN, at : Nat]
Op == {"none", "start", "progress", "stop", "favorite", "played"}
ReqType == [at : {"idle", "insert", "update"}, op : Op, item : {0} \cup Item, pos : Nat,
            flag : BOOLEAN, now : Nat]
TypeOK ==
  /\ items \subseteq Item /\ doomed \subseteq items /\ clock \in Nat
  /\ uid \in [Item -> RowType] /\ \A i \in Item : uid[i] = NoRow \/ uid[i].count >= 0
  /\ req \in [Slot -> ReqType]
  /\ told \in [Item -> RowType] /\ overlapped \subseteq Item /\ lost \subseteq Item

(* INSERT OR IGNORE and UPDATE are two statements, yet no start is lost however
   requests interleave, and requests that did not overlap leave the row the
   last one promised: for every item that was never deleted, written while it was
   being deleted, or written by a request of which a statement failed. *)
RowIsHistory ==
  \A i \in Item \ lost : ~Busy(i) =>
    /\ uid[i].count = told[i].count
    /\ i \notin overlapped => /\ uid[i].played = told[i].played /\ uid[i].pos = told[i].pos
                              /\ uid[i].fav = told[i].fav

(* An item only counts as played after a stop far enough into a known runtime,
   or a mark: never by a report that merely lacks the runtime. *)
PlayedIsEarned ==
  [][\A i \in Item : ~uid[i].played /\ uid'[i].played =>
       \E s \in Slot : /\ req[s].item = i
                       /\ \/ req[s].op = "played"
                          \/ req[s].op = "stop" /\ Runtime[i] > 0 /\ 10 * req[s].pos >= 8 * Runtime[i] - 9]_vars
=============================================================================
