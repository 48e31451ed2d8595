---------------------------- MODULE UserDataProofs ----------------------------
(* Proofs about UserData and the lists of ItemQueries, for every shelf of items,
   number of requests at a time, deletions and page size, and whether or not
   statements fail: from UserDataAssumption and ShelfAssumption. *)
EXTENDS ItemQueries, SequenceTheorems, FiniteSetTheorems, WellFoundedInduction, TLAPS

(***************************************************************************)
(* The inductive invariant.                                                *)
(***************************************************************************)

Open(s) == req[s].at # "idle"
About(s, i) == Open(s) /\ req[s].item = i

(* Enough of a known runtime. *)
Enough(i, pos) == Runtime[i] > 0 /\ pos >= (Runtime[i] * 8) \div 10

(* A request is about an item, and a flag that marks it played is earned. *)
Asked ==
  \A s \in Slot : Open(s) =>
    /\ req[s].item \in Item /\ req[s].op # "none"
    /\ req[s].op = "progress" => ~req[s].flag
    /\ req[s].op = "stop" /\ req[s].flag => Enough(req[s].item, req[s].pos)

(* Starts a row has not been told of yet; a row that is missing counts from 0. *)
Starts(i) == {s \in Slot : About(s, i) /\ req[s].op = "start"}
Base(i) == IF uid[i].count < 0 THEN 0 ELSE uid[i].count
Counted ==
  \A i \in Item \ lost :
    told[i].count = IF Busy(i) THEN Base(i) + Cardinality(Starts(i)) ELSE uid[i].count

(* Past the INSERT there is a row. *)
Inserted == \A s \in Slot : req[s].at = "update" /\ req[s].item \notin lost => uid[req[s].item].count >= 0

(* Two requests about an item overlap. *)
Alone == \A s, r \in Slot : Open(s) /\ About(r, req[s].item) => s = r \/ req[s].item \in overlapped

(* A request that does not overlap is about to leave what was promised, and
   without one the row is as promised. *)
Same(row, r) == row.played = r.played /\ row.pos = r.pos /\ row.fav = r.fav
Pending ==
  \A s \in Slot : Open(s) /\ req[s].item \notin overlapped \cup lost =>
    Same(told[req[s].item], Written(uid[req[s].item], req[s]))
Kept == \A i \in Item \ (overlapped \cup lost) : ~Busy(i) => Same(told[i], uid[i])

IInv == TypeOK /\ Asked /\ Counted /\ Inserted /\ Alone /\ Pending /\ Kept

-----------------------------------------------------------------------------
(* Every handler asks with an operation of the table, an item and a position,
   and what it marks as played is earned. *)
LEMMA RequestAsks ==
  ASSUME NEW s \in Slot, Request(s)
  PROVE  \E op \in Op \ {"none"}, i \in Item, pos \in Nat, flag \in BOOLEAN :
           /\ Ask(s, op, i, pos, flag)
           /\ op = "progress" => ~flag
           /\ op = "stop" /\ flag => Enough(i, pos)
<1> USE UserDataAssumption
<1>1. ASSUME NEW i \in Playable, ReportPlaying(s, i)
      PROVE  Ask(s, "start", i, 0, FALSE) /\ i \in Item
  BY <1>1 DEF ReportPlaying
<1>2. ASSUME NEW i \in Playable, NEW pos \in Position, ReportProgress(s, i, pos)
      PROVE  Ask(s, "progress", i, pos, FALSE) /\ i \in Item /\ pos \in Nat
  BY <1>2 DEF ReportProgress
<1>3. ASSUME NEW i \in Playable, NEW pos \in Position, NEW f \in BOOLEAN, ReportStopped(s, i, pos, f)
      PROVE  /\ Ask(s, "stop", i, pos, IsComplete(i, pos, f)) /\ i \in Item /\ pos \in Nat
             /\ IsComplete(i, pos, f) \in BOOLEAN
             /\ IsComplete(i, pos, f) => Enough(i, pos)
  BY <1>3 DEF ReportStopped, IsComplete, Enough
<1>4. ASSUME NEW i \in Markable, NEW b \in BOOLEAN, ToggleFavorite(s, i, b)
      PROVE  Ask(s, "favorite", i, 0, b) /\ i \in Item
  BY <1>4 DEF ToggleFavorite
<1>5. ASSUME NEW i \in Markable, NEW b \in BOOLEAN, MarkPlayed(s, i, b)
      PROVE  Ask(s, "played", i, 0, b) /\ i \in Item
  BY <1>5 DEF MarkPlayed
<1>6. CASE \E i \in Playable : ReportPlaying(s, i)
  BY <1>6, <1>1 DEF Op
<1>7. CASE \E i \in Playable, pos \in Position : ReportProgress(s, i, pos)
  BY <1>7, <1>2 DEF Op
<1>8. CASE \E i \in Playable, pos \in Position, f \in BOOLEAN : ReportStopped(s, i, pos, f)
  <2>1. PICK i \in Playable, pos \in Position, f \in BOOLEAN : ReportStopped(s, i, pos, f)
    BY <1>8
  <2>2. PICK flag \in BOOLEAN : flag = IsComplete(i, pos, f)
    BY <2>1, <1>3
  <2>3. /\ Ask(s, "stop", i, pos, flag) /\ i \in Item /\ pos \in Nat
        /\ flag => Enough(i, pos)
    BY <2>1, <2>2, <1>3
  <2>4. "stop" \in Op \ {"none"}
    BY DEF Op
  <2> WITNESS "stop" \in Op \ {"none"}, i \in Item, pos \in Nat, flag \in BOOLEAN
  <2> QED BY <2>3
<1>9. CASE \E i \in Markable, b \in BOOLEAN : ToggleFavorite(s, i, b)
  <2>1. PICK i \in Markable, b \in BOOLEAN : ToggleFavorite(s, i, b)
    BY <1>9
  <2>2. Ask(s, "favorite", i, 0, b) /\ i \in Item
    BY <2>1, <1>4 DEF Op
  <2>3. "favorite" \in Op \ {"none"}
    BY DEF Op
  <2> WITNESS "favorite" \in Op \ {"none"}, i \in Item, 0 \in Nat, b \in BOOLEAN
  <2> QED BY <2>2
<1>10. CASE \E i \in Markable, b \in BOOLEAN : MarkPlayed(s, i, b)
  <2>1. PICK i \in Markable, b \in BOOLEAN : MarkPlayed(s, i, b)
    BY <1>10
  <2>2. Ask(s, "played", i, 0, b) /\ i \in Item
    BY <2>1, <1>5 DEF Op
  <2>3. "played" \in Op \ {"none"}
    BY DEF Op
  <2> WITNESS "played" \in Op \ {"none"}, i \in Item, 0 \in Nat, b \in BOOLEAN
  <2> QED BY <2>2
<1>11. \/ \E i \in Playable : ReportPlaying(s, i)
       \/ \E i \in Playable, pos \in Position : ReportProgress(s, i, pos)
       \/ \E i \in Playable, pos \in Position, f \in BOOLEAN : ReportStopped(s, i, pos, f)
       \/ \E i \in Markable, b \in BOOLEAN : ToggleFavorite(s, i, b)
       \/ \E i \in Markable, b \in BOOLEAN : MarkPlayed(s, i, b)
  BY Zenon DEF Request
<1> QED BY <1>6, <1>7, <1>8, <1>9, <1>10, <1>11, Zenon

-----------------------------------------------------------------------------
(* Rows keep their shape. *)
LEMMA RowTypes ==
  ASSUME NEW row \in RowType
  PROVE  /\ NoRow \in RowType /\ \A now \in Nat : Fresh(now) \in RowType
         /\ \A op \in Op \ {"none"}, pos \in Nat, flag \in BOOLEAN : Promise(row, op, pos, flag) \in RowType
         /\ \A r \in ReqType : r.op # "none" /\ row.count >= 0 =>
              Written(row, r) \in RowType /\ Written(row, r).count >= 0
<1>1. NoRow \in RowType /\ \A now \in Nat : Fresh(now) \in RowType
  BY DEF NoRow, Fresh, RowType
<1>2. ASSUME NEW op \in Op \ {"none"}, NEW pos \in Nat, NEW flag \in BOOLEAN
      PROVE  Promise(row, op, pos, flag) \in RowType
  <2> DEFINE r == [row EXCEPT !.count = IF @ < 0 THEN 0 ELSE @]
  <2>1. r \in RowType /\ r.count \in Nat
    BY DEF RowType
  <2>2. Promise(row, op, pos, flag) =
          CASE op = "start" -> [r EXCEPT !.count = @ + 1]
            [] op \in {"progress", "stop"} -> [r EXCEPT !.pos = pos, !.played = flag]
            [] op = "favorite" -> [r EXCEPT !.fav = flag]
            [] op = "played" -> [r EXCEPT !.played = flag]
    BY DEF Promise
  <2> HIDE DEF r
  <2>3. CASE op = "start"
    BY <2>1, <2>2, <2>3 DEF RowType
  <2>4. CASE op \in {"progress", "stop"}
    BY <2>1, <2>2, <2>4 DEF RowType
  <2>5. CASE op = "favorite"
    BY <2>1, <2>2, <2>5 DEF RowType
  <2>6. CASE op = "played"
    BY <2>1, <2>2, <2>6 DEF RowType
  <2> QED BY <2>3, <2>4, <2>5, <2>6 DEF Op
<1>3. ASSUME NEW r \in ReqType, r.op # "none", row.count >= 0
      PROVE  Written(row, r) \in RowType /\ Written(row, r).count >= 0
  <2>1. r.pos \in Nat /\ r.flag \in BOOLEAN /\ r.now \in Nat /\ r.op \in Op /\ row.count + 1 \in Nat
    BY <1>3 DEF ReqType, RowType
  <2>2. CASE r.op = "start"
    <3>1. Written(row, r) = [row EXCEPT !.count = row.count + 1, !.at = r.now]
      BY <2>2 DEF Written
    <3>2. [row EXCEPT !.count = row.count + 1, !.at = r.now] \in RowType
      BY <2>1 DEF RowType
    <3>3. [row EXCEPT !.count = row.count + 1, !.at = r.now].count = row.count + 1
      BY DEF RowType
    <3> QED BY <1>3, <3>1, <3>2, <3>3 DEF RowType
  <2>3. CASE r.op \in {"progress", "stop"}
    <3>1. Written(row, r) = [row EXCEPT !.pos = r.pos, !.played = r.flag, !.at = r.now]
      BY <2>3 DEF Written
    <3> QED BY <1>3, <2>1, <3>1 DEF RowType
  <2>4. CASE r.op = "favorite"
    <3>1. Written(row, r) = [row EXCEPT !.fav = r.flag, !.at = r.now]
      BY <2>4 DEF Written
    <3> QED BY <1>3, <2>1, <3>1 DEF RowType
  <2>5. CASE r.op = "played"
    <3>1. Written(row, r) = [row EXCEPT !.played = r.flag, !.at = r.now]
      BY <2>5 DEF Written
    <3> QED BY <1>3, <2>1, <3>1 DEF RowType
  <2> QED BY <1>3, <2>1, <2>2, <2>3, <2>4, <2>5 DEF Op
<1> QED BY <1>1, <1>2, <1>3

(* What a request promises is what it writes, and one start more if it is one. *)
LEMMA PromiseIsWritten ==
  ASSUME NEW row \in RowType, NEW old \in RowType, NEW r \in ReqType, r.op # "none"
  PROVE  LET told1 == Promise(row, r.op, r.pos, r.flag)
             uid1 == Written(old, r)
         IN /\ Same(row, old) => Same(told1, uid1)
            /\ told1.count = (IF row.count < 0 THEN 0 ELSE row.count) + (IF r.op = "start" THEN 1 ELSE 0)
            /\ uid1.count = old.count + (IF r.op = "start" THEN 1 ELSE 0)
  BY DEF Promise, Written, RowType, ReqType, Op, Same

(* Starts is finite; its number changes by one with a start. *)
LEMMA StartsFinite ==
  ASSUME NEW i
  PROVE  IsFiniteSet(Starts(i)) /\ Cardinality(Starts(i)) \in Nat
  BY UserDataAssumption, FS_Subset, FS_CardinalityType DEF Starts

LEMMA InitInv == Init => IInv
<1> SUFFICES ASSUME Init PROVE IInv
  OBVIOUS
<1> USE UserDataAssumption DEF Init
<1> DEFINE Used == [Fresh(1) EXCEPT !.count = 1]
<1>1. Used \in RowType /\ Used.count = 1 /\ NoRow \in RowType
  BY DEF Fresh, RowType, NoRow
<1>2. PICK S \in SUBSET UsedBefore : uid = [i \in Item |-> IF i \in S THEN Used ELSE NoRow]
  BY DEF Init
<1>3. \A i \in Item : uid[i] \in {Used, NoRow}
  BY <1>2
<1>4. TypeOK
  <2>1. uid \in [Item -> RowType] /\ \A i \in Item : uid[i] = NoRow \/ uid[i].count >= 0
    BY <1>1, <1>2, <1>3
  <2>2. told \in [Item -> RowType]
    BY <2>1 DEF RowType
  <2>3. req \in [Slot -> ReqType]
    BY DEF Idle, ReqType, Op
  <2> QED BY <2>1, <2>2, <2>3 DEF TypeOK
<1>5. \A s \in Slot : ~Open(s)
  BY DEF Open, Idle
<1>6. \A i \in Item : ~Busy(i)
  BY <1>5 DEF Busy, Open
<1>7. \A i \in Item : told[i].count = uid[i].count /\ Same(told[i], uid[i])
  BY <1>4 DEF TypeOK, RowType, Same
<1>8. \A s \in Slot : req[s].at # "update"
  BY DEF Idle
<1> QED BY <1>4, <1>5, <1>6, <1>7, <1>8 DEF IInv, Asked, Counted, Inserted, Alone, Pending, Kept

-----------------------------------------------------------------------------
(* The steps. *)

(* What is written depends on what the row is like, not on when. *)
LEMMA WrittenSame ==
  ASSUME NEW a \in RowType, NEW b \in RowType, Same(a, b), NEW r \in ReqType, NEW q \in ReqType,
         r.op = q.op, r.pos = q.pos, r.flag = q.flag, r.op # "none"
  PROVE  Same(Written(a, r), Written(b, q))
  BY DEF Same, Written, RowType, ReqType, Op

LEMMA AskStep ==
  ASSUME IInv, NEW s \in Slot, NEW op \in Op \ {"none"}, NEW i \in Item, NEW pos \in Nat,
         NEW flag \in BOOLEAN, Ask(s, op, i, pos, flag),
         op = "progress" => ~flag, op = "stop" /\ flag => Enough(i, pos)
  PROVE  IInv'
<1> DEFINE r == [at |-> "insert", op |-> op, item |-> i, pos |-> pos, flag |-> flag, now |-> clock + 1]
<1>1. /\ req[s].at = "idle" /\ req' = [req EXCEPT ![s] = r] /\ clock' = clock + 1
      /\ told' = [told EXCEPT ![i] = Promise(@, op, pos, flag)]
      /\ overlapped' = IF Busy(i) THEN overlapped \cup {i} ELSE overlapped
      /\ lost' = IF i \in doomed \/ i \notin items THEN lost \cup {i} ELSE lost
      /\ UNCHANGED <<items, uid, doomed>>
  BY DEF Ask
<1>2. TypeOK /\ clock \in Nat /\ r \in ReqType /\ told[i] \in RowType /\ uid[i] \in RowType
  BY DEF IInv, TypeOK, ReqType
<1>3. /\ r.at = "insert" /\ r.op = op /\ r.item = i /\ r.pos = pos /\ r.flag = flag
  OBVIOUS
<1> HIDE DEF r
<1>4. TypeOK'
  <2>1. Promise(told[i], op, pos, flag) \in RowType
    BY <1>2, RowTypes
  <2>2. told' \in [Item -> RowType] /\ req' \in [Slot -> ReqType]
    BY <1>1, <1>2, <2>1 DEF TypeOK
  <2> QED BY <1>1, <1>2, <2>2 DEF TypeOK
<1>5. /\ req'[s] = r /\ \A t \in Slot \ {s} : req'[t] = req[t]
      /\ told'[i] = Promise(told[i], op, pos, flag) /\ \A k \in Item \ {i} : told'[k] = told[k]
  BY <1>1, <1>2 DEF TypeOK
<1>6. lost \subseteq lost' /\ overlapped \subseteq overlapped'
  BY <1>1
<1>7. /\ ~Open(s) /\ Open(s)' /\ \A t \in Slot \ {s} : Open(t)' = Open(t)
  BY <1>1, <1>3, <1>5 DEF Open
<1>8. Busy(i)' /\ \A k \in Item \ {i} : Busy(k)' = Busy(k)
  BY <1>1, <1>3, <1>5 DEF Busy
<1>9. Asked'
  <2>1. Asked
    BY DEF IInv
  <2> QED BY <1>3, <1>5, <1>7, <2>1 DEF Asked, Enough
<1>10. Counted'
  <2>1. Counted
    BY DEF IInv
  <2>2. \A k \in Item : Base(k)' = Base(k)
    BY <1>1 DEF Base
  <2>3. ASSUME NEW k \in Item \ lost', k # i
        PROVE  told'[k].count = IF Busy(k)' THEN Base(k)' + Cardinality(Starts(k)') ELSE uid'[k].count
    <3>1. Starts(k)' = Starts(k)
      BY <1>1, <1>3, <1>5, <2>3 DEF Starts, About, Open
    <3> QED BY <1>1, <1>5, <1>6, <1>8, <2>1, <2>2, <2>3, <3>1 DEF Counted
  <2>4. ASSUME i \notin lost'
        PROVE  told'[i].count = Base(i)' + Cardinality(Starts(i)')
    <3> DEFINE c == IF told[i].count < 0 THEN 0 ELSE told[i].count
    <3>1. told'[i].count = c + (IF op = "start" THEN 1 ELSE 0)
      BY <1>2, <1>3, <1>5, PromiseIsWritten
    <3>2. IsFiniteSet(Starts(i)) /\ Cardinality(Starts(i)) \in Nat /\ Base(i) \in Nat
      BY <1>2, StartsFinite DEF Base, RowType
    <3>3. c = Base(i) + Cardinality(Starts(i))
      <4>1. CASE Busy(i)
        BY <1>6, <2>1, <2>4, <3>2, <4>1 DEF Counted
      <4>2. CASE ~Busy(i)
        <5>1. Starts(i) = {}
          BY <4>2 DEF Starts, About, Open, Busy
        <5>2. told[i].count = uid[i].count
          BY <1>6, <2>1, <2>4, <4>2 DEF Counted
        <5> QED BY <3>2, <5>1, <5>2, FS_EmptySet DEF Base
      <4> QED BY <4>1, <4>2
    <3>4. CASE op = "start"
      <4>1. Starts(i)' = Starts(i) \cup {s} /\ s \notin Starts(i)
        BY <1>1, <1>3, <1>5, <1>7, <3>4 DEF Starts, About, Open
      <4>2. Cardinality(Starts(i)') = Cardinality(Starts(i)) + 1
        BY <3>2, <4>1, FS_AddElement
      <4> HIDE DEF c
      <4> QED BY <2>2, <3>1, <3>2, <3>3, <3>4, <4>2
    <3>5. CASE op # "start"
      <4>1. Starts(i)' = Starts(i)
        BY <1>1, <1>3, <1>5, <1>7, <3>5 DEF Starts, About, Open
      <4> HIDE DEF c
      <4> QED BY <2>2, <3>1, <3>2, <3>3, <3>5, <4>1
    <3> QED BY <3>4, <3>5
  <2> QED BY <1>8, <2>3, <2>4 DEF Counted
<1>11. Inserted'
  <2>1. Inserted
    BY DEF IInv
  <2> QED BY <1>1, <1>3, <1>5, <1>6, <2>1 DEF Inserted
<1>12. Alone'
  <2>1. Alone
    BY DEF IInv
  <2>2. ASSUME NEW t \in Slot \ {s}, Open(t), req[t].item = i
        PROVE  i \in overlapped'
    BY <1>1, <2>2 DEF Busy, Open
  <2> QED BY <1>3, <1>5, <1>6, <1>7, <2>1, <2>2 DEF Alone, About
<1>13. Pending'
  <2>1. Pending /\ Kept /\ Asked
    BY DEF IInv
  <2>2. ASSUME i \notin overlapped' \cup lost'
        PROVE  Same(told'[i], Written(uid[i], r))
    <3>1. ~Busy(i) /\ i \notin overlapped \cup lost
      BY <1>1, <1>6, <2>2
    <3>2. Same(told[i], uid[i])
      BY <2>1, <3>1 DEF Kept
    <3> QED BY <1>2, <1>3, <1>5, <3>2, PromiseIsWritten
  <2>3. ASSUME NEW t \in Slot \ {s}, Open(t), req[t].item \notin overlapped' \cup lost'
        PROVE  Same(told'[req[t].item], Written(uid[req[t].item], req[t]))
    <3>1. req[t].item \in Item \ {i}
      BY <1>1, <2>1, <2>3 DEF Asked, Busy, Open
    <3> QED BY <1>5, <1>6, <2>1, <2>3, <3>1 DEF Pending
  <2> QED BY <1>1, <1>3, <1>5, <1>7, <2>2, <2>3 DEF Pending
<1>14. Kept'
  <2>1. Kept
    BY DEF IInv
  <2> QED BY <1>1, <1>5, <1>6, <1>8, <2>1 DEF Kept
<1> QED BY <1>4, <1>9, <1>10, <1>11, <1>12, <1>13, <1>14 DEF IInv

(* The INSERT: a row that is there stays, one that is made is as good as none. *)
LEMMA InsertStep ==
  ASSUME IInv, NEW s \in Slot, InsertOrIgnore(s)
  PROVE  IInv'
<1>0. PICK i : i = req[s].item
  OBVIOUS
<1> DEFINE now == IF req[s].op \in {"progress", "stop"} THEN req[s].now ELSE clock + 1
           r == [req[s] EXCEPT !.at = "update", !.now = now]
<1>1. /\ req[s].at = "insert"
      /\ uid' = IF uid[i] = NoRow THEN [uid EXCEPT ![i] = Fresh(clock + 1)] ELSE uid
      /\ clock' = clock + 1
      /\ req' = [req EXCEPT ![s].at = "update", ![s].now = now]
      /\ UNCHANGED <<items, doomed, told, overlapped, lost>>
  BY <1>0 DEF InsertOrIgnore, history
<1>2. /\ TypeOK /\ clock \in Nat /\ req[s] \in ReqType /\ req \in [Slot -> ReqType] /\ uid \in [Item -> RowType]
      /\ i \in Item /\ req[s].op # "none"
  BY <1>0, <1>1 DEF IInv, TypeOK, Asked, Open
<1>3. r \in ReqType /\ r.at = "update" /\ r.op = req[s].op /\ r.item = i /\ r.pos = req[s].pos /\ r.flag = req[s].flag
  <2>1. now \in Nat
    BY <1>2 DEF ReqType
  <2> HIDE DEF now
  <2> QED BY <1>0, <1>2, <2>1 DEF ReqType
<1>4. req' = [req EXCEPT ![s] = r]
  BY <1>1, <1>2
<1> HIDE DEF r, now
<1>5. req'[s] = r /\ \A t \in Slot \ {s} : req'[t] = req[t]
  BY <1>2, <1>4
<1>6. \A t \in Slot : /\ req'[t] \in ReqType /\ Open(t)' = Open(t) /\ req'[t].item = req[t].item
                      /\ req'[t].op = req[t].op /\ req'[t].pos = req[t].pos /\ req'[t].flag = req[t].flag
  BY <1>1, <1>2, <1>3, <1>5 DEF Open
<1>7. /\ \A k \in Item : Busy(k)' = Busy(k) /\ Starts(k)' = Starts(k)
  BY <1>6 DEF Busy, Starts, About, Open
<1>8. Fresh(clock + 1) \in RowType /\ Fresh(clock + 1).count = 0 /\ Same(Fresh(clock + 1), NoRow) /\ NoRow.count = -1
      /\ NoRow \in RowType
  BY <1>2 DEF Fresh, NoRow, RowType, Same
<1>9. \A k \in Item : /\ uid'[k] \in RowType /\ Base(k)' = Base(k) /\ Same(uid'[k], uid[k])
                      /\ (k # i => uid'[k] = uid[k]) /\ (uid'[k] = NoRow \/ uid'[k].count >= 0)
                      /\ (k = i => uid'[k].count >= 0)
  <2>1. CASE uid[i] = NoRow
    <3>1. uid'[i] = Fresh(clock + 1) /\ \A k \in Item \ {i} : uid'[k] = uid[k]
      BY <1>1, <1>2, <2>1
    <3> QED BY <1>2, <1>8, <2>1, <3>1 DEF TypeOK, Base, Same
  <2>2. CASE uid[i] # NoRow
    BY <1>1, <1>2, <2>2 DEF TypeOK, Base, Same
  <2> QED BY <2>1, <2>2
<1>10. TypeOK'
  <2>1. uid' \in [Item -> RowType]
    BY <1>1, <1>2, <1>9
  <2>2. req' \in [Slot -> ReqType]
    BY <1>2, <1>3, <1>4
  <2> QED BY <1>1, <1>2, <1>9, <2>1, <2>2 DEF TypeOK
<1>11. Asked'
  BY <1>6 DEF IInv, Asked, Enough
<1>12. Counted'
  <2>1. Counted
    BY DEF IInv
  <2>2. Busy(i)
    BY <1>0, <1>1 DEF Busy
  <2>3. ASSUME NEW k \in Item \ lost
        PROVE  told[k].count = IF Busy(k)' THEN Base(k)' + Cardinality(Starts(k)') ELSE uid'[k].count
    BY <1>7, <1>9, <2>1, <2>2 DEF Counted
  <2> QED BY <1>1, <2>3 DEF Counted
<1>13. Inserted'
  <2>1. Inserted
    BY DEF IInv
  <2>2. ASSUME NEW t \in Slot, req'[t].at = "update", req'[t].item \notin lost
        PROVE  uid'[req'[t].item].count >= 0
    <3>1. req'[t].item \in Item
      BY <1>6, <2>2 DEF IInv, Asked, Open
    <3>2. CASE t = s
      BY <1>3, <1>5, <1>9, <3>1, <3>2
    <3>3. CASE t # s /\ req[t].item = i
      BY <1>6, <1>9, <3>1, <3>3
    <3>4. CASE t # s /\ req[t].item # i
      BY <1>5, <1>6, <1>9, <2>1, <2>2, <3>1, <3>4 DEF Inserted
    <3> QED BY <3>2, <3>3, <3>4
  <2> QED BY <1>1, <2>2 DEF Inserted
<1>14. Alone'
  <2>1. Alone
    BY DEF IInv
  <2>2. ASSUME NEW t \in Slot, NEW u \in Slot, Open(t), Open(u), req[u].item = req[t].item
        PROVE  t = u \/ req[t].item \in overlapped
    BY <2>1, <2>2 DEF Alone, About
  <2>3. ASSUME NEW t \in Slot, NEW u \in Slot, Open(t)', Open(u)', req'[u].item = req'[t].item
        PROVE  t = u \/ req'[t].item \in overlapped'
    <3>1. Open(t) /\ Open(u) /\ req'[t].item = req[t].item /\ req'[u].item = req[u].item
      BY <1>6, <2>3
    <3>2. t = u \/ req[t].item \in overlapped
      BY <2>2, <2>3, <3>1
    <3>3. overlapped' = overlapped
      BY <1>1
    <3> QED BY <3>1, <3>2, <3>3
  <2> QED BY <2>3 DEF Alone, About
<1>15. Pending'
  <2>1. Pending /\ Asked
    BY DEF IInv
  <2>2. ASSUME NEW t \in Slot, Open(t), req[t].item \notin overlapped \cup lost
        PROVE  Same(told[req[t].item], Written(uid'[req[t].item], req'[t]))
    <3>1. req[t].item \in Item /\ req[t].op # "none"
      BY <2>1, <2>2 DEF Asked
    <3>2. Same(told[req[t].item], Written(uid[req[t].item], req[t]))
      BY <2>1, <2>2 DEF Pending
    <3>3. Same(uid[req[t].item], uid'[req[t].item]) /\ uid[req[t].item] \in RowType /\ uid'[req[t].item] \in RowType
      BY <1>2, <1>9, <3>1 DEF Same
    <3>4. Same(Written(uid[req[t].item], req[t]), Written(uid'[req[t].item], req'[t]))
      BY <1>2, <1>6, <3>1, <3>3, WrittenSame
    <3> QED BY <3>2, <3>4 DEF Same
  <2> QED BY <1>1, <1>6, <2>2 DEF Pending
<1>16. Kept'
  BY <1>1, <1>7, <1>9 DEF IInv, Kept, Same
<1> QED BY <1>10, <1>11, <1>12, <1>13, <1>14, <1>15, <1>16 DEF IInv

(* A request ends: it wrote what was promised, or it failed and its item is
   among the lost. *)
LEMMA EndStep ==
  ASSUME IInv, NEW s \in Slot, Update(s) \/ Fails(s)
  PROVE  IInv'
<1>0. PICK i : i = req[s].item
  OBVIOUS
<1>1. /\ Open(s) /\ req' = [req EXCEPT ![s] = Idle]
      /\ UNCHANGED <<items, clock, doomed, told, overlapped>> /\ lost \subseteq lost'
  BY DEF Update, Fails, Open, history
<1>2. /\ TypeOK /\ req \in [Slot -> ReqType] /\ uid \in [Item -> RowType]
      /\ i \in Item /\ req[s].op # "none" /\ req[s] \in ReqType
  BY <1>0, <1>1 DEF IInv, TypeOK, Asked
<1>3. req'[s] = Idle /\ \A t \in Slot \ {s} : req'[t] = req[t]
  BY <1>1, <1>2
<1>4. ~Open(s)' /\ (\A t \in Slot \ {s} : Open(t)' = Open(t)) /\ Idle \in ReqType /\ Idle.at = "idle"
  BY <1>3 DEF Open, Idle, ReqType, Op
<1>5. /\ lost' \subseteq Item
      /\ \A k \in Item : /\ uid'[k] \in RowType /\ (uid'[k] = NoRow \/ uid'[k].count >= 0)
                         /\ k # i => uid'[k] = uid[k]
      /\ uid' \in [Item -> RowType]
      /\ i \notin lost' => uid'[i] = Written(uid[i], req[s])
  <2>1. CASE Update(s)
    <3>1. /\ req[s].at = "update" /\ lost' = lost
          /\ uid' = IF uid[i] = NoRow THEN uid ELSE [uid EXCEPT ![i] = Written(@, req[s])]
      BY <1>0, <2>1 DEF Update, history
    <3>2. i \notin lost' => uid[i] # NoRow
      BY <1>0, <3>1 DEF IInv, Inserted, NoRow
    <3>3. uid[i] # NoRow => Written(uid[i], req[s]) \in RowType /\ Written(uid[i], req[s]).count >= 0
      BY <1>2, RowTypes DEF TypeOK
    <3> QED BY <1>2, <3>1, <3>2, <3>3 DEF TypeOK
  <2>2. CASE Fails(s)
    BY <1>0, <1>2, <2>2 DEF Fails, TypeOK
  <2> QED BY <2>1, <2>2
<1>6. \A k \in Item \ {i} : Busy(k)' = Busy(k) /\ Starts(k)' = Starts(k) /\ Base(k)' = Base(k)
  BY <1>0, <1>1, <1>3, <1>4, <1>5 DEF Busy, Starts, About, Open, Base
<1>7. TypeOK'
  <2>1. req' \in [Slot -> ReqType]
    BY <1>1, <1>2, <1>4
  <2> QED BY <1>1, <1>2, <1>5, <2>1 DEF TypeOK
<1>8. Asked'
  BY <1>3, <1>4 DEF IInv, Asked, Enough
<1>9. Counted'
  <2>1. Counted
    BY DEF IInv
  <2>2. ASSUME NEW k \in Item \ lost', k # i
        PROVE  told'[k].count = IF Busy(k)' THEN Base(k)' + Cardinality(Starts(k)') ELSE uid'[k].count
    BY <1>1, <1>5, <1>6, <2>1, <2>2 DEF Counted
  <2>3. ASSUME i \notin lost'
        PROVE  told'[i].count = IF Busy(i)' THEN Base(i)' + Cardinality(Starts(i)') ELSE uid'[i].count
    <3>1. told[i].count = Base(i) + Cardinality(Starts(i))
      <4>1. Busy(i)
        BY <1>0, <1>1 DEF Busy, Open
      <4> QED BY <1>1, <1>2, <2>1, <2>3, <4>1 DEF Counted
    <3>2. IsFiniteSet(Starts(i)) /\ Cardinality(Starts(i)) \in Nat
      BY StartsFinite
    <3>3. uid[i].count >= 0 /\ uid[i].count \in Nat /\ Base(i) = uid[i].count
      <4>1. Update(s)
        BY <1>0, <2>3 DEF Fails
      <4>2. req[s].at = "update" /\ i \notin lost
        BY <1>1, <2>3, <4>1 DEF Update
      <4> QED BY <1>0, <1>2, <4>2 DEF IInv, Inserted, Base, RowType
    <3>4. uid'[i].count = uid[i].count + (IF req[s].op = "start" THEN 1 ELSE 0)
      <4>1. Written(uid[i], req[s]).count = uid[i].count + (IF req[s].op = "start" THEN 1 ELSE 0)
        BY <1>2, PromiseIsWritten
      <4> QED BY <1>5, <2>3, <4>1
    <3>5. Base(i)' = uid'[i].count
      BY <3>3, <3>4 DEF Base
    <3>6. ~Busy(i)' => Starts(i)' = {}
      BY DEF Busy, Starts, About, Open
    <3>7. CASE req[s].op = "start"
      <4>1. s \in Starts(i) /\ Starts(i)' = Starts(i) \ {s}
        BY <1>0, <1>1, <1>3, <1>4, <3>7 DEF Starts, About
      <4>2. Cardinality(Starts(i)') = Cardinality(Starts(i)) - 1
        BY <3>2, <4>1, FS_RemoveElement
      <4>3. told'[i].count = uid[i].count + Cardinality(Starts(i)) /\ uid'[i].count = uid[i].count + 1
        BY <1>1, <3>1, <3>3, <3>4, <3>7
      <4>4. CASE Busy(i)'
        BY <3>2, <3>3, <3>5, <4>2, <4>3, <4>4
      <4>5. CASE ~Busy(i)'
        <5>1. Cardinality(Starts(i)') = 0
          BY <3>6, <4>5, FS_EmptySet
        <5>2. Cardinality(Starts(i)) = 1
          BY <3>2, <4>2, <5>1
        <5> QED BY <4>3, <4>5, <5>2
      <4> QED BY <4>4, <4>5
    <3>8. CASE req[s].op # "start"
      <4>1. Starts(i)' = Starts(i)
        BY <1>0, <1>1, <1>3, <1>4, <3>8 DEF Starts, About
      <4> QED BY <1>1, <3>1, <3>2, <3>3, <3>4, <3>5, <3>6, <3>8, <4>1, FS_EmptySet
    <3> QED BY <3>7, <3>8
  <2> QED BY <2>2, <2>3 DEF Counted
<1>10. Alone'
  BY <1>1, <1>3, <1>4 DEF IInv, Alone, About
<1>11. ASSUME NEW t \in Slot \ {s}, Open(t), req[t].item \notin overlapped'
       PROVE  req[t].item \in Item \ {i}
  BY <1>0, <1>1, <1>11 DEF IInv, Alone, About, Asked
<1>12. Inserted'
  <2>1. Inserted /\ Asked
    BY DEF IInv
  <2>2. ASSUME NEW t \in Slot \ {s}, req[t].at = "update", req[t].item \notin lost'
        PROVE  uid'[req[t].item].count >= 0
    <3>1. uid[req[t].item].count >= 0 /\ req[t].item \in Item
      BY <1>1, <2>1, <2>2 DEF Inserted, Asked, Open
    <3>2. CASE req[t].item # i
      BY <1>5, <3>1, <3>2
    <3>3. CASE req[t].item = i
      <4>1. uid'[i] = Written(uid[i], req[s]) /\ uid[i].count >= 0 /\ uid[i] \in RowType
        BY <1>2, <1>5, <2>2, <3>1, <3>3
      <4>2. Written(uid[i], req[s]).count >= 0
        BY <1>2, <4>1, RowTypes
      <4> QED BY <3>3, <4>1, <4>2
    <3> QED BY <3>2, <3>3
  <2> QED BY <1>3, <1>4, <2>2 DEF Inserted
<1>13. Pending'
  BY <1>1, <1>3, <1>4, <1>5, <1>11 DEF IInv, Pending
<1>14. Kept'
  <2>1. Kept /\ Pending
    BY DEF IInv
  <2>2. ASSUME i \notin overlapped' \cup lost'
        PROVE  Same(told'[i], uid'[i])
    BY <1>0, <1>1, <1>2, <1>5, <2>1, <2>2 DEF Pending
  <2>3. ASSUME NEW k \in Item \ (overlapped' \cup lost'), k # i, ~Busy(k)'
        PROVE  Same(told'[k], uid'[k])
    BY <1>1, <1>5, <1>6, <2>1, <2>3 DEF Kept
  <2> QED BY <2>2, <2>3 DEF Kept
<1> QED BY <1>7, <1>8, <1>9, <1>10, <1>12, <1>13, <1>14 DEF IInv

(* Whatever else takes rows away leaves the others and the requests alone. *)
LEMMA LoseStep ==
  ASSUME IInv, TypeOK', UNCHANGED <<req, told, overlapped>>, lost \subseteq lost',
         \A k \in Item \ lost' : uid'[k] = uid[k]
  PROVE  IInv'
<1>1. \A s \in Slot : Open(s)' = Open(s) /\ req'[s] = req[s]
  BY DEF Open
<1>2. \A k \in Item : Busy(k)' = Busy(k) /\ Starts(k)' = Starts(k)
  BY DEF Busy, Starts, About, Open
<1>3. Asked' /\ Alone'
  BY DEF IInv, Asked, Alone, About, Open, Enough
<1>4. Counted'
  <2>1. Counted
    BY DEF IInv
  <2>2. ASSUME NEW k \in Item \ lost'
        PROVE  told'[k].count = IF Busy(k)' THEN Base(k)' + Cardinality(Starts(k)') ELSE uid'[k].count
    BY <1>2, <2>1 DEF Counted, Base
  <2> QED BY <2>2 DEF Counted
<1>5. Inserted'
  <2>1. Inserted /\ Asked
    BY DEF IInv
  <2>2. ASSUME NEW s \in Slot, req[s].at = "update", req[s].item \notin lost'
        PROVE  uid'[req[s].item].count >= 0
    BY <2>1, <2>2 DEF Inserted, Asked, Open
  <2> QED BY <2>2 DEF Inserted
<1>6. Pending'
  <2>1. Pending /\ Asked
    BY DEF IInv
  <2>2. ASSUME NEW s \in Slot, Open(s), req[s].item \notin overlapped \cup lost'
        PROVE  Same(told[req[s].item], Written(uid'[req[s].item], req[s]))
    BY <2>1, <2>2 DEF Pending, Asked
  <2> QED BY <1>1, <2>2 DEF Pending
<1>7. Kept'
  BY <1>2 DEF IInv, Kept
<1> QED BY <1>3, <1>4, <1>5, <1>6, <1>7 DEF IInv

LEMMA DropStep ==
  ASSUME IInv,
         \/ \E i \in Playable : DropUserData(i) \/ DropItem(i)
         \/ \E l \in {Row[i].lib : i \in Item} : DropLibrary(l)
  PROVE  IInv'
<1> USE UserDataAssumption
<1>1. TypeOK /\ uid \in [Item -> RowType] /\ NoRow \in RowType
  BY DEF IInv, TypeOK, NoRow, RowType
<1>2. CASE \E i \in Playable : DropUserData(i)
  <2>1. PICK i \in Playable : DropUserData(i)
    BY <1>2
  <2>2. /\ i \in items /\ uid' = [uid EXCEPT ![i] = NoRow] /\ doomed' = doomed \cup {i} /\ lost' = lost \cup {i}
        /\ UNCHANGED <<items, clock, req, told, overlapped>>
    BY <2>1 DEF DropUserData
  <2>3. TypeOK'
    BY <1>1, <2>2 DEF TypeOK
  <2>4. \A k \in Item \ lost' : uid'[k] = uid[k]
    BY <1>1, <2>2
  <2> QED BY <2>2, <2>3, <2>4, LoseStep
<1>3. CASE \E i \in Playable : DropItem(i)
  <2>1. PICK i \in Playable : DropItem(i)
    BY <1>3
  <2>2. /\ items' = items \ {i} /\ doomed' = doomed \ {i}
        /\ UNCHANGED <<uid, clock, req, told, overlapped, lost>>
    BY <2>1 DEF DropItem, history
  <2>3. TypeOK'
    BY <1>1, <2>2 DEF TypeOK
  <2> QED BY <2>2, <2>3, LoseStep
<1>4. CASE \E l \in {Row[i].lib : i \in Item} : DropLibrary(l)
  <2>1. PICK l \in {Row[i].lib : i \in Item} : DropLibrary(l)
    BY <1>4
  <2> DEFINE dead == {i \in items : Row[i].lib = l}
  <2>2. /\ items' = items \ dead /\ doomed' = doomed \ dead /\ lost' = lost \cup dead
        /\ uid' = [i \in Item |-> IF i \in dead THEN NoRow ELSE uid[i]]
        /\ UNCHANGED <<clock, req, told, overlapped>>
    BY <2>1 DEF DropLibrary
  <2>3. dead \subseteq Item
    BY <1>1 DEF TypeOK
  <2> HIDE DEF dead
  <2>4. TypeOK'
    BY <1>1, <2>2, <2>3 DEF TypeOK
  <2>5. \A k \in Item \ lost' : uid'[k] = uid[k]
    BY <2>2
  <2> QED BY <2>2, <2>4, <2>5, LoseStep
<1> QED BY <1>2, <1>3, <1>4

LEMMA NextInv == IInv /\ [Next]_vars => IInv'
<1> SUFFICES ASSUME IInv, [Next]_vars PROVE IInv'
  OBVIOUS
<1>1. ASSUME NEW s \in Slot, Request(s) PROVE IInv'
  BY <1>1, RequestAsks, AskStep
<1>2. ASSUME NEW s \in Slot, InsertOrIgnore(s) PROVE IInv'
  BY <1>2, InsertStep
<1>3. ASSUME NEW s \in Slot, Update(s) \/ Fails(s) PROVE IInv'
  BY <1>3, EndStep
<1>4. CASE UNCHANGED vars
  <2>1. TypeOK'
    BY <1>4 DEF IInv, TypeOK, vars, data, history
  <2> QED BY <1>4, <2>1, LoseStep DEF vars, data, history
<1> QED BY <1>1, <1>2, <1>3, <1>4, DropStep DEF Next

-----------------------------------------------------------------------------
(* The results.                                                            *)

(* Every row of user_item_data, every request and every history has its type:
   in particular a row that is there was started some number of times, however
   INSERT, UPDATE and the deletions interleave. *)
THEOREM TypeCorrect == Spec => []TypeOK
<1>1. IInv => TypeOK
  BY DEF IInv
<1> QED BY <1>1, InitInv, NextInv, PTL DEF Spec

(* No start of playback is lost and a request that overlaps none leaves what it
   promised, for every number of requests at a time: as long as no statement fails
   and the item stays, user_data_store.rs needs no transaction around its INSERT
   OR IGNORE and its UPDATE. *)
THEOREM HistoryKept == Spec => []RowIsHistory
<1>1. IInv => RowIsHistory
  <2> SUFFICES ASSUME IInv, NEW i \in Item \ lost, ~Busy(i)
               PROVE  /\ uid[i].count = told[i].count
                      /\ i \notin overlapped => Same(told[i], uid[i])
    BY DEF RowIsHistory, Same
  <2> QED BY DEF IInv, Counted, Kept
<1> QED BY <1>1, InitInv, NextInv, PTL DEF Spec

(* The step that marks an item as played is the UPDATE of a mark, or of a stop
   far enough into a known runtime. *)
THEOREM PlayedEarned == Spec => PlayedIsEarned
<1>1. IInv /\ [Next]_vars =>
        [\A i \in Item : ~uid[i].played /\ uid'[i].played =>
           \E s \in Slot : /\ req[s].item = i
                           /\ \/ req[s].op = "played"
                              \/ req[s].op = "stop" /\ Runtime[i] > 0 /\ 10 * req[s].pos >= 8 * Runtime[i] - 9]_vars
  <2> SUFFICES ASSUME IInv, [Next]_vars, NEW i \in Item, ~uid[i].played, uid'[i].played
               PROVE  \E s \in Slot : /\ req[s].item = i
                                      /\ \/ req[s].op = "played"
                                         \/ /\ req[s].op = "stop" /\ Runtime[i] > 0
                                            /\ 10 * req[s].pos >= 8 * Runtime[i] - 9
    OBVIOUS
  <2>1. TypeOK /\ Asked /\ uid \in [Item -> RowType] /\ req \in [Slot -> ReqType]
    BY DEF IInv, TypeOK
  <2>2. ASSUME NEW s \in Slot, Request(s) PROVE FALSE
    BY <2>2, RequestAsks DEF Ask
  <2>3. ASSUME NEW s \in Slot, InsertOrIgnore(s) PROVE FALSE
    <3>1. uid'[i] \in {uid[i], Fresh(clock + 1)}
      BY <2>1, <2>3 DEF InsertOrIgnore
    <3> QED BY <3>1 DEF Fresh
  <2>4. ASSUME NEW s \in Slot, Update(s)
        PROVE  /\ req[s].item = i
               /\ \/ req[s].op = "played"
                  \/ req[s].op = "stop" /\ Runtime[i] > 0 /\ 10 * req[s].pos >= 8 * Runtime[i] - 9
    <3>1. req[s].item = i /\ uid'[i] = Written(uid[i], req[s]) /\ Open(s)
      BY <2>1, <2>4 DEF Update, Open
    <3>2. req[s] \in ReqType /\ req[s].op # "none" /\ uid[i] \in RowType
      BY <2>1, <3>1 DEF Asked
    <3>3. req[s].op = "played" \/ (req[s].op \in {"progress", "stop"} /\ req[s].flag)
      BY <3>1, <3>2 DEF Written, RowType, ReqType, Op
    <3>4. CASE req[s].op \in {"progress", "stop"} /\ req[s].flag
      <4>1. req[s].op = "stop" /\ Enough(i, req[s].pos)
        BY <2>1, <3>1, <3>4 DEF Asked
      <4>2. Runtime[i] \in Nat /\ req[s].pos \in Nat
        BY <3>2, UserDataAssumption DEF ReqType
      <4>3. (Runtime[i] * 8) \div 10 >= 0 /\ 10 * ((Runtime[i] * 8) \div 10) >= 8 * Runtime[i] - 9
        BY <4>2
      <4> QED BY <3>1, <4>1, <4>2, <4>3 DEF Enough
    <3> QED BY <3>1, <3>3, <3>4
  <2>5. ASSUME NEW s \in Slot, Fails(s) PROVE FALSE
    BY <2>5 DEF Fails
  <2>6. ASSUME NEW k \in Playable, DropUserData(k) \/ DropItem(k) PROVE FALSE
    <3>1. uid'[i] \in {uid[i], NoRow}
      BY <2>1, <2>6 DEF DropUserData, DropItem
    <3> QED BY <3>1 DEF NoRow
  <2>7. ASSUME NEW l \in {Row[k].lib : k \in Item}, DropLibrary(l) PROVE FALSE
    <3>1. uid'[i] \in {uid[i], NoRow}
      BY <2>1, <2>7 DEF DropLibrary
    <3> QED BY <3>1 DEF NoRow
  <2>8. CASE UNCHANGED vars
    BY <2>8 DEF vars, data
  <2> QED BY <2>2, <2>3, <2>4, <2>5, <2>6, <2>7, <2>8 DEF Next
<1> QED BY <1>1, InitInv, NextInv, PTL DEF Spec, PlayedIsEarned

-----------------------------------------------------------------------------
(* Times.  No two rows, and no row and no request about another item, have the
   same updated_at, however the statements interleave. *)

There(i) == uid[i].count >= 0
Stamps ==
  /\ \A i \in Item : There(i) => uid[i].at <= clock
  /\ \A i, j \in Item : There(i) /\ There(j) /\ uid[i].at = uid[j].at => i = j
  /\ \A s \in Slot : Open(s) => req[s].now <= clock
  /\ \A s \in Slot, i \in Item : Open(s) /\ There(i) /\ uid[i].at = req[s].now => i = req[s].item
  /\ \A s, r \in Slot : Open(s) /\ Open(r) /\ req[s].now = req[r].now => s = r

(* What is on the shelf stands in what is on the shelf. *)
Shelved == \A i \in items : Row[i].parent = 0 \/ Row[i].parent \in items

QInv == IInv /\ Stamps /\ Shelved

LEMMA InitStamps == Init => Stamps /\ Shelved
<1> SUFFICES ASSUME Init PROVE Stamps /\ Shelved
  OBVIOUS
<1> DEFINE Used == [Fresh(1) EXCEPT !.count = 1]
<1>1. Used.count = 1 /\ Used.at = 1 /\ NoRow.count = -1
  BY DEF Fresh, NoRow
<1>2. PICK S \in SUBSET UsedBefore : uid = [i \in Item |-> IF i \in S THEN Used ELSE NoRow]
  BY DEF Init
<1> HIDE DEF Used
<1>3. \A i \in Item : There(i) => i \in UsedBefore /\ uid[i].at = 1
  BY <1>1, <1>2 DEF There
<1>4. \A i, j \in UsedBefore : i = j
  <2>1. IsFiniteSet(UsedBefore)
    BY UserDataAssumption, ShelfAssumption, FS_Subset
  <2>2. Cardinality(UsedBefore) \in Nat /\ Cardinality(UsedBefore) <= 1
    BY <2>1, FS_CardinalityType, UserDataAssumption
  <2>3. Cardinality(UsedBefore) = 0 \/ Cardinality(UsedBefore) = 1
    BY <2>2
  <2>4. UsedBefore = {} \/ \E x : UsedBefore = {x}
    BY <2>1, <2>3, FS_EmptySet, FS_Singleton
  <2> QED BY <2>4
<1>5. \A s \in Slot : ~Open(s)
  BY DEF Init, Open, Idle
<1>6. Stamps
  BY <1>3, <1>4, <1>5 DEF Stamps, Init
<1>7. Shelved
  BY UserDataAssumption DEF Shelved, Init
<1> QED BY <1>6, <1>7

LEMMA NextStamps == QInv /\ [Next]_vars => Stamps' /\ Shelved'
<1> SUFFICES ASSUME QInv, [Next]_vars PROVE Stamps' /\ Shelved'
  OBVIOUS
<1>1. /\ TypeOK /\ uid \in [Item -> RowType] /\ req \in [Slot -> ReqType] /\ clock \in Nat /\ Stamps /\ Shelved /\ Asked
      /\ \A i \in Item : uid[i].at \in Nat /\ uid[i].count \in Int
      /\ \A s \in Slot : req[s].now \in Nat
  BY DEF QInv, IInv, TypeOK, RowType, ReqType
<1>2. ASSUME NEW s \in Slot, Request(s) PROVE Stamps' /\ Shelved'
  <2>1. PICK op \in Op \ {"none"}, i \in Item, pos \in Nat, flag \in BOOLEAN : Ask(s, op, i, pos, flag)
    BY <1>2, RequestAsks
  <2>2. PICK r : r = [at |-> "insert", op |-> op, item |-> i, pos |-> pos, flag |-> flag, now |-> clock + 1]
    OBVIOUS
  <2>3. r.now = clock + 1 /\ r.item = i
    BY <2>2
  <2>4. /\ req'[s] = r /\ ~Open(s) /\ clock' = clock + 1 /\ uid' = uid /\ items' = items
        /\ \A t \in Slot \ {s} : req'[t] = req[t]
    BY <1>1, <2>1, <2>2 DEF Ask, Open
  <2>5. /\ \A t \in Slot \ {s} : Open(t)' = Open(t)
        /\ \A k \in Item : There(k)' = There(k)
    BY <2>4 DEF Open, There
  <2>6. Stamps'
    BY <1>1, <2>3, <2>4, <2>5 DEF Stamps
  <2> QED BY <1>1, <2>4, <2>6 DEF Shelved
<1>3. ASSUME NEW s \in Slot, InsertOrIgnore(s) PROVE Stamps' /\ Shelved'
  <2>1. /\ Open(s) /\ clock' = clock + 1 /\ items' = items
        /\ \A t \in Slot : Open(t)' = Open(t) /\ req'[t].item = req[t].item
        /\ \A t \in Slot \ {s} : req'[t] = req[t]
        /\ req'[s].now \in {req[s].now, clock + 1}
    BY <1>1, <1>3 DEF InsertOrIgnore, Open, ReqType
  <2>2. req[s].item \in Item
    BY <1>1, <2>1 DEF Asked
  <2>3. /\ \A k \in Item \ {req[s].item} : uid'[k] = uid[k]
        /\ uid'[req[s].item] = uid[req[s].item] \/ uid'[req[s].item] = Fresh(clock + 1)
    BY <1>1, <1>3, <2>2 DEF InsertOrIgnore
  <2>4. Fresh(clock + 1).at = clock + 1
    BY DEF Fresh
  <2>5. \A k \in Item : \/ uid'[k] = uid[k] /\ There(k)' = There(k)
                        \/ k = req[s].item /\ uid'[k].at = clock + 1
    BY <2>3, <2>4 DEF There
  <2>6. Stamps'
    <3>1. \A k \in Item : There(k)' => uid'[k].at <= clock'
      BY <1>1, <2>1, <2>5 DEF Stamps
    <3>2. \A k, l \in Item : There(k)' /\ There(l)' /\ uid'[k].at = uid'[l].at => k = l
      BY <1>1, <2>1, <2>5 DEF Stamps
    <3>3. \A t \in Slot : Open(t)' => req'[t].now <= clock'
      BY <1>1, <2>1 DEF Stamps
    <3>4. \A t \in Slot, k \in Item : Open(t)' /\ There(k)' /\ uid'[k].at = req'[t].now => k = req'[t].item
      BY <1>1, <2>1, <2>5 DEF Stamps
    <3>5. \A t, r \in Slot : Open(t)' /\ Open(r)' /\ req'[t].now = req'[r].now => t = r
      BY <1>1, <2>1 DEF Stamps
    <3> QED BY <3>1, <3>2, <3>3, <3>4, <3>5 DEF Stamps
  <2> QED BY <1>1, <2>1, <2>6 DEF Shelved
<1>4. ASSUME NEW s \in Slot, Update(s) PROVE Stamps' /\ Shelved'
  <2>1. /\ Open(s) /\ clock' = clock /\ items' = items /\ ~Open(s)'
        /\ \A t \in Slot \ {s} : req'[t] = req[t] /\ Open(t)' = Open(t)
    BY <1>1, <1>4 DEF Update, Open, Idle
  <2>2. req[s].item \in Item /\ req[s].op \in Op \ {"none"}
    BY <1>1, <2>1 DEF Asked, ReqType
  <2>3. /\ \A k \in Item \ {req[s].item} : uid'[k] = uid[k]
        /\ uid'[req[s].item] = uid[req[s].item] \/ uid'[req[s].item] = Written(uid[req[s].item], req[s])
    BY <1>1, <1>4, <2>2 DEF Update
  <2>4. Written(uid[req[s].item], req[s]).at = req[s].now
    BY <1>1, <2>2 DEF Written, RowType, Op
  <2>5. \A k \in Item : \/ uid'[k] = uid[k] /\ There(k)' = There(k)
                        \/ k = req[s].item /\ uid'[k].at = req[s].now
    BY <2>3, <2>4 DEF There
  <2>6. Stamps'
    <3>1. \A k \in Item : There(k)' => uid'[k].at <= clock'
      BY <1>1, <2>1, <2>5 DEF Stamps
    <3>2. \A k, l \in Item : There(k)' /\ There(l)' /\ uid'[k].at = uid'[l].at => k = l
      BY <1>1, <2>1, <2>5 DEF Stamps
    <3>3. \A t \in Slot : Open(t)' => req'[t].now <= clock'
      BY <1>1, <2>1 DEF Stamps
    <3>4. \A t \in Slot, k \in Item : Open(t)' /\ There(k)' /\ uid'[k].at = req'[t].now => k = req'[t].item
      BY <1>1, <2>1, <2>5 DEF Stamps
    <3>5. \A t, r \in Slot : Open(t)' /\ Open(r)' /\ req'[t].now = req'[r].now => t = r
      BY <1>1, <2>1 DEF Stamps
    <3> QED BY <3>1, <3>2, <3>3, <3>4, <3>5 DEF Stamps
  <2> QED BY <1>1, <2>1, <2>6 DEF Shelved
<1>5. ASSUME /\ clock' = clock
             /\ \A k \in Item : uid'[k] = uid[k] \/ uid'[k] = NoRow
             /\ \A t \in Slot : req'[t] = req[t] \/ ~Open(t)'
      PROVE  Stamps'
  <2>1. \A k \in Item : There(k)' => There(k) /\ uid'[k] = uid[k]
    BY <1>5 DEF There, NoRow
  <2>2. \A t \in Slot : Open(t)' => Open(t) /\ req'[t] = req[t]
    BY <1>5 DEF Open
  <2> QED BY <1>1, <1>5, <2>1, <2>2 DEF Stamps
<1>6. ASSUME NEW s \in Slot, Fails(s) PROVE Stamps' /\ Shelved'
  <2>1. \A t \in Slot : req'[t] = req[t] \/ ~Open(t)'
    BY <1>1, <1>6 DEF Fails, Open, Idle
  <2> QED BY <1>1, <1>5, <1>6, <2>1 DEF Fails, Shelved
<1>7. ASSUME NEW i \in Playable, DropUserData(i) \/ DropItem(i) PROVE Stamps' /\ Shelved'
  <2>1. Stamps'
    BY <1>1, <1>5, <1>7 DEF DropUserData, DropItem
  <2>2. Row[i].type \in {"movie", "episode"}
    BY ShelfAssumption
  <2>3. \A k \in items : k \in Item /\ Row[k].parent # i
    BY <1>1, <2>2, UserDataAssumption, ShelfAssumption DEF TypeOK, Types
  <2> QED BY <1>1, <1>7, <2>1, <2>3 DEF DropUserData, DropItem, Shelved
<1>8. ASSUME NEW l \in {Row[i].lib : i \in Item}, DropLibrary(l) PROVE Stamps' /\ Shelved'
  <2>1. Stamps'
    BY <1>1, <1>5, <1>8 DEF DropLibrary
  <2>2. \A k \in items : k \in Item /\ (Row[k].parent # 0 => Row[Row[k].parent].lib = Row[k].lib)
    BY <1>1, ShelfAssumption DEF TypeOK
  <2> QED BY <1>1, <1>8, <2>1, <2>2 DEF DropLibrary, Shelved
<1>9. CASE UNCHANGED vars
  BY <1>1, <1>5, <1>9 DEF vars, data, Shelved
<1> QED BY <1>2, <1>3, <1>4, <1>6, <1>7, <1>8, <1>9 DEF Next

(* Nothing else changes it. *)
LEMMA QueryInv == (Init => QInv) /\ (QInv /\ [Next]_vars => QInv')
  BY InitInv, NextInv, InitStamps, NextStamps DEF QInv

-----------------------------------------------------------------------------
(* Lists: what ORDER BY without ties returns.                              *)

StrictOrder(S, before) ==
  /\ \A x \in S : before[x] \in SUBSET S
  /\ \A x \in S : x \notin before[x]
  /\ \A x, y, z \in S : x \in before[y] /\ y \in before[z] => x \in before[z]
  /\ \A x, y \in S : x # y => x \in before[y] \/ y \in before[x]

(* Ranks grow along the order, and every rank is taken. *)
LEMMA EveryRank ==
  ASSUME NEW S, IsFiniteSet(S), NEW before, StrictOrder(S, before)
  PROVE  /\ Cardinality(S) \in Nat
         /\ \A k \in 1 .. Cardinality(S) : \E x \in S : Cardinality(before[x]) = k - 1
         /\ \A x \in S : Cardinality(before[x]) \in Nat /\ Cardinality(before[x]) < Cardinality(S)
         /\ \A x, y \in S : x \in before[y] <=> Cardinality(before[x]) < Cardinality(before[y])
         /\ \A x, y \in S : Cardinality(before[x]) = Cardinality(before[y]) => x = y
<1> DEFINE n == Cardinality(S)
           T == 0 .. n - 1
           f == [x \in S |-> Cardinality(before[x])]
<1>1. n \in Nat
  BY FS_CardinalityType
<1>2. ASSUME NEW x \in S PROVE Cardinality(before[x]) \in Nat /\ Cardinality(before[x]) < n
  <2>1. PICK B : B = before[x]
    OBVIOUS
  <2>2. B \in SUBSET S /\ x \notin B
    BY <2>1 DEF StrictOrder
  <2>3. IsFiniteSet(B) /\ Cardinality(B) <= n /\ Cardinality(B) # n
    BY <2>2, FS_Subset
  <2>4. Cardinality(B) \in Nat
    BY <2>3, FS_CardinalityType
  <2> QED BY <1>1, <2>1, <2>3, <2>4
<1>3. ASSUME NEW x \in S, NEW y \in S, x \in before[y]
      PROVE Cardinality(before[x]) < Cardinality(before[y])
  <2>1. PICK B, C : B = before[x] /\ C = before[y]
    OBVIOUS
  <2>2. B \in SUBSET C /\ x \in C /\ x \notin B /\ C \in SUBSET S
    BY <1>3, <2>1 DEF StrictOrder
  <2>3. IsFiniteSet(C)
    BY <2>2, FS_Subset
  <2>4. Cardinality(B) <= Cardinality(C) /\ Cardinality(B) # Cardinality(C)
    BY <2>2, <2>3, FS_Subset
  <2> QED BY <1>2, <2>1, <2>4
<1>4. ASSUME NEW x \in S, NEW y \in S, x # y PROVE Cardinality(before[x]) # Cardinality(before[y])
  <2>1. x \in before[y] \/ y \in before[x]
    BY <1>4 DEF StrictOrder
  <2> QED BY <1>2, <1>3, <2>1
<1>5. ASSUME NEW x \in S, NEW y \in S, Cardinality(before[x]) < Cardinality(before[y]) PROVE x \in before[y]
  <2>1. x # y /\ y \notin before[x]
    BY <1>2, <1>3, <1>5
  <2> QED BY <2>1 DEF StrictOrder
<1>6. f \in Injection(S, T)
  <2>1. f \in [S -> T]
    BY <1>1, <1>2
  <2>2. \A x, y \in S : f[x] = f[y] => x = y
    BY <1>4
  <2> HIDE DEF f, T
  <2> QED BY <2>1, <2>2 DEF Injection, IsInjective
<1>7. IsFiniteSet(T) /\ Cardinality(T) = n
  <2>1. n - 1 \in Int /\ 0 \in Int
    BY <1>1
  <2> QED BY <1>1, <2>1, FS_Interval
<1>8. f \in Surjection(S, T)
  <2> HIDE DEF f, T
  <2> QED BY <1>6, <1>7, FS_Injection
<1>9. \A j \in T : \E x \in S : f[x] = j
  <2> HIDE DEF f, T
  <2> QED BY <1>8 DEF Surjection
<1>10. ASSUME NEW k \in 1 .. n PROVE \E x \in S : Cardinality(before[x]) = k - 1
  <2>1. k - 1 \in T
    BY <1>1
  <2>2. PICK x \in S : f[x] = k - 1
    BY <1>9, <2>1
  <2> QED BY <2>2
<1> QED BY <1>1, <1>2, <1>3, <1>4, <1>5, <1>10

(* A sorted list has every member of the set at its rank. *)
LEMMA SortedList ==
  ASSUME NEW S, IsFiniteSet(S), NEW before, StrictOrder(S, before)
  PROVE  /\ Sorted(S, before) \in [1 .. Cardinality(S) -> S] /\ Sorted(S, before) \in Seq(S)
         /\ Len(Sorted(S, before)) = Cardinality(S) /\ Cardinality(S) \in Nat
         /\ \A k \in 1 .. Cardinality(S) : Cardinality(before[Sorted(S, before)[k]]) = k - 1
         /\ \A x \in S : \E k \in 1 .. Cardinality(S) : Sorted(S, before)[k] = x
<1> DEFINE n == Cardinality(S)
           s == Sorted(S, before)
<1>1. n \in Nat
  BY EveryRank
<1>2. s = [k \in 1 .. n |-> CHOOSE x \in S : Cardinality(before[x]) = k - 1]
  BY DEF Sorted
<1>3. \A k \in 1 .. n : s[k] \in S /\ Cardinality(before[s[k]]) = k - 1
  <2> SUFFICES ASSUME NEW k \in 1 .. n PROVE s[k] \in S /\ Cardinality(before[s[k]]) = k - 1
    OBVIOUS
  <2>1. s[k] = CHOOSE x \in S : Cardinality(before[x]) = k - 1
    BY <1>2
  <2>2. \E x \in S : Cardinality(before[x]) = k - 1
    BY EveryRank
  <2> HIDE DEF s
  <2> QED BY <2>1, <2>2
<1>4. DOMAIN s = 1 .. n
  BY <1>2
<1> HIDE DEF s
<1>5. s = [k \in 1 .. n |-> s[k]]
  BY <1>2
<1>6. s \in [1 .. n -> S]
  BY <1>3, <1>5
<1>7. s \in Seq(S) /\ Len(s) = n
  BY <1>1, <1>6
<1>8. ASSUME NEW x \in S PROVE \E k \in 1 .. n : s[k] = x
  <2>1. PICK k \in 1 .. n : k = Cardinality(before[x]) + 1
    BY <1>1, EveryRank
  <2>2. s[k] \in S /\ Cardinality(before[s[k]]) = Cardinality(before[x])
    BY <1>3, <2>1, EveryRank
  <2> QED BY <2>2, EveryRank
<1> QED BY <1>1, <1>3, <1>6, <1>7, <1>8 DEF s

(* Times without ties order a set. *)
Untied(S, time) ==
  /\ IsFiniteSet(S) /\ \A x \in S : time[x] \in Int
  /\ \A x, y \in S : time[x] = time[y] => x = y
Newer(S, time, x) == {y \in S : time[y] > time[x]}

LEMMA TimeList ==
  ASSUME NEW S, NEW time, Untied(S, time)
  PROVE  /\ ByTime(S, time) \in [1 .. Cardinality(S) -> S] /\ ByTime(S, time) \in Seq(S)
         /\ Len(ByTime(S, time)) = Cardinality(S) /\ Cardinality(S) \in Nat
         /\ \A k \in 1 .. Cardinality(S) : Cardinality(Newer(S, time, ByTime(S, time)[k])) = k - 1
         /\ \A x \in S : \E k \in 1 .. Cardinality(S) : ByTime(S, time)[k] = x
<1>1. PICK before : before = [x \in S |-> {y \in S : time[y] > time[x]}]
  OBVIOUS
<1>2. \A x, y \in S : x \in before[y] <=> time[x] > time[y]
  BY <1>1
<1>3. StrictOrder(S, before)
  <2>1. \A x \in S : before[x] \in SUBSET S /\ time[x] \in Int
    BY <1>1 DEF Untied
  <2>2. \A x, y \in S : time[x] = time[y] => x = y
    BY DEF Untied
  <2> QED BY <1>2, <2>1, <2>2 DEF StrictOrder
<1>4. ByTime(S, time) = Sorted(S, before)
  BY <1>1 DEF ByTime
<1>6. \A x \in S : Newer(S, time, x) = before[x]
  BY <1>1 DEF Newer
<1>7. IsFiniteSet(S)
  BY DEF Untied
<1> DEFINE n == Cardinality(S)
           s == Sorted(S, before)
<1>8. /\ s \in [1 .. n -> S] /\ s \in Seq(S) /\ Len(s) = n /\ n \in Nat
      /\ \A k \in 1 .. n : Cardinality(before[s[k]]) = k - 1
      /\ \A x \in S : \E k \in 1 .. n : s[k] = x
  BY <1>3, <1>7, SortedList
<1> HIDE DEF n, s
<1>9. \A k \in 1 .. n : Cardinality(Newer(S, time, s[k])) = k - 1
  BY <1>6, <1>8
<1> QED BY <1>4, <1>8, <1>9 DEF n, s

(* The later in the list, the older. *)
LEMMA TimeOrder ==
  ASSUME NEW S, NEW time, Untied(S, time),
         NEW j \in 1 .. Cardinality(S), NEW k \in 1 .. Cardinality(S), j < k
  PROVE  time[ByTime(S, time)[j]] > time[ByTime(S, time)[k]]
<1>1. PICK x \in S, y \in S : x = ByTime(S, time)[j] /\ y = ByTime(S, time)[k]
  BY SMTT(30), TimeList
<1>2. Cardinality(Newer(S, time, x)) = j - 1 /\ Cardinality(Newer(S, time, y)) = k - 1 /\ Cardinality(S) \in Nat
  BY <1>1, TimeList
<1>3. SUFFICES ASSUME ~(time[x] > time[y]) PROVE FALSE
  BY <1>1
<1>4. Newer(S, time, y) \in SUBSET Newer(S, time, x)
  BY <1>3 DEF Newer, Untied
<1>5. IsFiniteSet(Newer(S, time, x))
  <2>1. Newer(S, time, x) \in SUBSET S /\ IsFiniteSet(S)
    BY DEF Newer, Untied
  <2> QED BY <2>1, FS_Subset
<1>6. k - 1 <= j - 1
  BY <1>2, <1>4, <1>5, FS_Subset
<1> QED BY <1>2, <1>6

(* The first n of a part are the first n of the whole, when n members of the
   part are newer than whatever is left out. *)
LEMMA TopIsExact ==
  ASSUME NEW W, NEW time, Untied(W, time), NEW S \in SUBSET W, NEW part,
         \A x \in S : part[x] = time[x],
         NEW n \in Nat, \A x \in W \ S : n <= Cardinality(Newer(S, time, x))
  PROVE  /\ Untied(S, part) /\ Cardinality(S) <= Cardinality(W)
         /\ S = W \/ n <= Cardinality(S)
         /\ \A k \in 1 .. Cardinality(W) : k <= n => /\ k \in 1 .. Cardinality(S)
                                                     /\ ByTime(S, part)[k] = ByTime(W, time)[k]
<1>1. IsFiniteSet(W) /\ IsFiniteSet(S) /\ Cardinality(S) <= Cardinality(W)
  BY FS_Subset DEF Untied
<1>2. Untied(S, part)
  BY <1>1 DEF Untied
<1>3. Cardinality(S) \in Nat /\ Cardinality(W) \in Nat
  BY <1>1, FS_CardinalityType
<1>4. ASSUME NEW x \in W PROVE /\ IsFiniteSet(Newer(W, time, x)) /\ Cardinality(Newer(W, time, x)) \in Nat
                               /\ Newer(S, time, x) \in SUBSET S
                               /\ Cardinality(Newer(S, time, x)) \in Nat
                               /\ Cardinality(Newer(S, time, x)) <= Cardinality(S)
  <2>1. Newer(W, time, x) \in SUBSET W /\ Newer(S, time, x) \in SUBSET S
    BY DEF Newer
  <2> QED BY <1>1, <2>1, FS_Subset, FS_CardinalityType
<1>5. S = W \/ n <= Cardinality(S)
  <2> SUFFICES ASSUME NEW x \in W \ S PROVE n <= Cardinality(S)
    OBVIOUS
  <2>1. n <= Cardinality(Newer(S, time, x))
    OBVIOUS
  <2> QED BY <1>3, <1>4, <2>1
<1>6. ASSUME NEW k \in 1 .. Cardinality(W), k <= n
      PROVE  k \in 1 .. Cardinality(S) /\ ByTime(S, part)[k] = ByTime(W, time)[k]
  <2>1. PICK x \in W : x = ByTime(W, time)[k]
    BY TimeList
  <2>2. Cardinality(Newer(W, time, x)) = k - 1
    BY <2>1, TimeList
  <2>3. ASSUME NEW y \in W \ S, y = x \/ time[y] > time[x] PROVE FALSE
    <3>1. Newer(S, time, y) \in SUBSET Newer(W, time, x)
      BY <2>3 DEF Newer, Untied
    <3>2. Cardinality(Newer(S, time, y)) <= k - 1
      BY <1>4, <2>2, <3>1, FS_Subset
    <3>3. n <= Cardinality(Newer(S, time, y)) /\ Cardinality(Newer(S, time, y)) \in Nat
      BY <1>4
    <3> QED BY <1>6, <3>2, <3>3
  <2>4. x \in S
    BY <2>3
  <2>5. Newer(S, part, x) = Newer(W, time, x)
    BY <2>3, <2>4 DEF Newer
  <2>6. PICK j \in 1 .. Cardinality(S) : ByTime(S, part)[j] = x
    BY <1>2, <2>4, TimeList
  <2>7. j - 1 = k - 1
    <3>1. Cardinality(Newer(S, part, ByTime(S, part)[j])) = j - 1
      BY <1>2, TimeList
    <3> QED BY <2>2, <2>5, <2>6, <3>1
  <2> QED BY <1>3, <2>1, <2>6, <2>7
<1> QED BY <1>1, <1>2, <1>5, <1>6

-----------------------------------------------------------------------------
(* Pages and seeds.                                                        *)

(* Two lists have the same page when they agree up to its end, and one of them
   ends before it only if both end together. *)
LEMMA SamePage ==
  ASSUME NEW T, NEW a \in Seq(T), NEW b \in Seq(T), NEW start \in Nat, NEW limit \in Nat,
         Len(a) <= Len(b), Len(a) = Len(b) \/ start + limit <= Len(a),
         \A k \in 1 .. Len(b) : k <= start + limit => k \in 1 .. Len(a) /\ a[k] = b[k]
  PROVE  Page(a, start, limit) = Page(b, start, limit)
<1>1. Len(a) \in Nat /\ Len(b) \in Nat
  BY LenProperties
<1>2. PICK m \in Nat : /\ m = IF start + limit < Len(a) THEN start + limit ELSE Len(a)
                       /\ m = IF start + limit < Len(b) THEN start + limit ELSE Len(b)
  BY <1>1
<1>3. Page(a, start, limit) = SubSeq(a, start + 1, m) /\ Page(b, start, limit) = SubSeq(b, start + 1, m)
  BY <1>2 DEF Page
<1>4. \A k \in 1 .. m : k \in 1 .. Len(a) /\ k \in 1 .. Len(b) /\ a[k] = b[k]
  BY <1>1, <1>2
<1>5. \A k \in start + 1 .. m : a[k] \in T /\ b[k] \in T
  <2> SUFFICES ASSUME NEW k \in start + 1 .. m PROVE a[k] \in T /\ b[k] \in T
    OBVIOUS
  <2>1. k \in 1 .. m
    OBVIOUS
  <2> QED BY <1>4, <2>1, ElementOfSeq
<1>6. start + 1 \in Int /\ m \in Int
  OBVIOUS
<1> DEFINE A == SubSeq(a, start + 1, m)
           B == SubSeq(b, start + 1, m)
           l == IF start + 1 <= m THEN m - (start + 1) + 1 ELSE 0
<1>7. /\ A \in Seq(T) /\ Len(A) = l /\ \A k \in 1 .. m - (start + 1) + 1 : A[k] = a[start + 1 + k - 1]
      /\ B \in Seq(T) /\ Len(B) = l /\ \A k \in 1 .. m - (start + 1) + 1 : B[k] = b[start + 1 + k - 1]
  BY <1>5, <1>6, SubSeqProperties
<1> HIDE DEF A, B
<1>8. \A k \in 1 .. l : A[k] = B[k]
  <2> SUFFICES ASSUME NEW k \in 1 .. l PROVE A[k] = B[k]
    OBVIOUS
  <2>1. k \in 1 .. m - (start + 1) + 1 /\ start + 1 + k - 1 \in 1 .. m
    OBVIOUS
  <2> QED BY <1>4, <1>7, <2>1
<1> HIDE DEF l
<1>9. A = B
  BY <1>7, <1>8, SeqEqual
<1> QED BY <1>3, <1>9 DEF A, B

(* A page that is long enough is the whole list. *)
LEMMA WholePage ==
  ASSUME NEW T, NEW a \in Seq(T), NEW n \in Nat, Len(a) <= n
  PROVE  Page(a, 0, n) = a
<1>1. Len(a) \in Nat
  BY LenProperties
<1>2. Page(a, 0, n) = SubSeq(a, 1, Len(a))
  BY <1>1 DEF Page
<1> QED BY <1>2, SubSeqFull

(* A set of seeds, each with a time of its own. *)
Seeded(W) ==
  /\ IsFiniteSet(W) /\ \A x \in W : x.id \in Item /\ x.recency \in Int
  /\ \A x, y \in W : x.recency = y.recency => x = y
Later(S, x) == {y \in S : y.recency > x.recency}

LEMMA SeedsListed ==
  ASSUME NEW W, Seeded(W)
  PROVE  /\ Ids(W) \in Seq(Item) /\ Len(Ids(W)) = Cardinality(W) /\ Cardinality(W) \in Nat
         /\ \A i : i \in Range(Ids(W)) <=> \E x \in W : x.id = i
<1>1. PICK time : time = [x \in W |-> x.recency]
  OBVIOUS
<1>2. Untied(W, time)
  BY <1>1 DEF Untied, Seeded
<1>3. PICK s, n : s = ByTime(W, time) /\ n = Cardinality(W)
  OBVIOUS
<1>4. s \in [1 .. n -> W] /\ n \in Nat /\ \A x \in W : \E k \in 1 .. n : s[k] = x
  BY <1>2, <1>3, TimeList
<1>5. Ids(W) = [k \in 1 .. n |-> s[k].id]
  BY <1>1, <1>3, <1>4 DEF Ids
<1>6. \A k \in 1 .. n : s[k].id \in Item
  BY <1>4 DEF Seeded
<1>7. Ids(W) \in Seq(Item) /\ Len(Ids(W)) = n
  BY <1>4, <1>5, <1>6
<1>8. \A i : i \in Range(Ids(W)) <=> \E k \in 1 .. n : s[k].id = i
  BY <1>5 DEF Range
<1> QED BY <1>3, <1>4, <1>7, <1>8

(* The page of a part of the seeds is the page of all of them, when as many seeds
   of the part as the page may reach are newer than whatever is left out. *)
LEMMA TopPage ==
  ASSUME NEW W, Seeded(W), NEW S \in SUBSET W, NEW start \in Nat, NEW limit \in Nat,
         \A x \in W \ S : start + limit <= Cardinality(Later(S, x))
  PROVE  Page(Ids(S), start, limit) = Page(Ids(W), start, limit)
<1>1. PICK time, part : time = [x \in W |-> x.recency] /\ part = [x \in S |-> x.recency]
  OBVIOUS
<1>2. Untied(W, time) /\ \A x \in S : part[x] = time[x]
  BY <1>1 DEF Untied, Seeded
<1>3. PICK n \in Nat : n = start + limit
  OBVIOUS
<1>4. \A x \in W \ S : n <= Cardinality(Newer(S, time, x))
  <2>1. \A x \in W : Newer(S, time, x) = Later(S, x)
    BY <1>1 DEF Newer, Later
  <2> QED BY <1>3, <2>1
<1>5. /\ Untied(S, part) /\ Cardinality(S) <= Cardinality(W)
      /\ S = W \/ n <= Cardinality(S)
      /\ \A k \in 1 .. Cardinality(W) : k <= n => /\ k \in 1 .. Cardinality(S)
                                                  /\ ByTime(S, part)[k] = ByTime(W, time)[k]
  BY <1>2, <1>4, TopIsExact
<1>6. Seeded(S)
  BY FS_Subset DEF Seeded
<1>7. /\ Ids(S) \in Seq(Item) /\ Len(Ids(S)) = Cardinality(S)
      /\ Ids(W) \in Seq(Item) /\ Len(Ids(W)) = Cardinality(W)
  BY <1>6, SeedsListed
<1>8. \A k \in 1 .. Cardinality(S) : Ids(S)[k] = ByTime(S, part)[k].id
  <2>1. DOMAIN ByTime(S, part) = 1 .. Cardinality(S)
    BY <1>5, TimeList
  <2> QED BY <1>1, <2>1 DEF Ids
<1>9. \A k \in 1 .. Cardinality(W) : Ids(W)[k] = ByTime(W, time)[k].id
  <2>1. DOMAIN ByTime(W, time) = 1 .. Cardinality(W)
    BY <1>2, TimeList
  <2> QED BY <1>1, <2>1 DEF Ids
<1>10. \A k \in 1 .. Len(Ids(W)) : k <= start + limit => k \in 1 .. Len(Ids(S)) /\ Ids(S)[k] = Ids(W)[k]
  BY <1>3, <1>5, <1>7, <1>8, <1>9
<1>11. Len(Ids(S)) <= Len(Ids(W)) /\ (Len(Ids(S)) = Len(Ids(W)) \/ start + limit <= Len(Ids(S)))
  BY <1>3, <1>5, <1>7
<1>12. PICK a \in Seq(Item), b \in Seq(Item) : a = Ids(S) /\ b = Ids(W)
  BY <1>7
<1>13. \A k \in 1 .. Len(b) : k <= start + limit => k \in 1 .. Len(a) /\ a[k] = b[k]
  BY <1>10, <1>12
<1>14. Len(a) <= Len(b) /\ (Len(a) = Len(b) \/ start + limit <= Len(a))
  BY <1>11, <1>12
<1>15. Page(a, start, limit) = Page(b, start, limit)
  BY ONLY start \in Nat, limit \in Nat, a \in Seq(Item), b \in Seq(Item), <1>13, <1>14, SamePage
<1> QED BY <1>12, <1>15

-----------------------------------------------------------------------------
(* The shelf.                                                              *)

LEMMA OnShelf ==
  ASSUME QInv
  PROVE  /\ items \subseteq Item /\ IsFiniteSet(items)
         /\ \A type \in Types : \A i : i \in Of(type) <=> i \in items /\ Row[i].type = type
         /\ Episodes = Of("episode")
         /\ \A e \in Episodes : /\ e \in Item /\ Season(e) \in Of("season") /\ Series(e) \in Of("series")
                                /\ Row[Season(e)].parent = Series(e)
                                /\ Row[Season(e)].lib = Row[e].lib /\ Row[Series(e)].lib = Row[e].lib
         /\ \A i \in Item : Recent(i) \in Nat
         /\ \A i, j \in Item : Started(i) /\ Started(j) /\ Recent(i) = Recent(j) => i = j
<1>1. items \subseteq Item /\ uid \in [Item -> RowType] /\ Stamps /\ Shelved
  BY DEF QInv, IInv, TypeOK
<1>2. IsFiniteSet(items)
  BY <1>1, ShelfAssumption, FS_Subset
<1>3. \A type \in Types : \A i : i \in Of(type) <=> i \in items /\ Row[i].type = type
  BY <1>1 DEF Of, Typed
<1>4. "movie" \in Types /\ "series" \in Types /\ "season" \in Types /\ "episode" \in Types
  BY DEF Types
<1>5. \A i \in items : /\ Row[i].parent = 0 <=> Row[i].type \in {"movie", "series"}
                       /\ Row[i].type = "season" => Row[Row[i].parent].type = "series"
                       /\ Row[i].type = "episode" => Row[Row[i].parent].type = "season"
                       /\ Row[i].parent # 0 => Row[i].parent \in items /\ Row[Row[i].parent].lib = Row[i].lib
  BY <1>1, ShelfAssumption DEF Shelved
<1>6. ASSUME NEW e \in Of("episode")
      PROVE  /\ e \in Item /\ Season(e) \in Of("season") /\ Series(e) \in Of("series")
             /\ Row[Season(e)].parent = Series(e)
             /\ Row[Season(e)].lib = Row[e].lib /\ Row[Series(e)].lib = Row[e].lib
  <2>1. e \in items /\ Row[e].type = "episode"
    BY <1>3, <1>4
  <2>2. Season(e) \in items /\ Row[Season(e)].type = "season" /\ Row[Season(e)].lib = Row[e].lib
    BY <1>5, <2>1 DEF Season
  <2>3. /\ Row[Season(e)].parent = Series(e) /\ Series(e) \in items
        /\ Row[Series(e)].type = "series" /\ Row[Series(e)].lib = Row[e].lib
    BY <1>5, <2>2 DEF Season, Series
  <2> QED BY <1>1, <1>3, <1>4, <2>1, <2>2, <2>3
<1>7. Episodes = Of("episode")
  <2>1. \A e \in Of("episode") : Season(e) \in items
    BY <1>3, <1>4, <1>6
  <2> QED BY <2>1 DEF Episodes
<1>8. \A i \in Item : Recent(i) \in Nat /\ (Started(i) => There(i))
  BY <1>1 DEF Recent, Started, There, RowType
<1>9. \A i, j \in Item : Started(i) /\ Started(j) /\ Recent(i) = Recent(j) => i = j
  BY <1>1, <1>8 DEF Recent, Stamps
<1> QED BY <1>1, <1>2, <1>3, <1>6, <1>7, <1>8, <1>9

(* Of started items one was used last. *)
LEMMA NewestIs ==
  ASSUME QInv, NEW G \in SUBSET Item, \A i \in G : Started(i), G # {}
  PROVE  /\ Newest(G) \in G /\ \A j \in G : Recent(j) <= Recent(Newest(G))
         /\ \A a \in G : (\A j \in G : Recent(j) <= Recent(a)) => a = Newest(G)
<1>1. PICK time : time = [i \in G |-> Recent(i)]
  OBVIOUS
<1>2. IsFiniteSet(G) /\ \A i \in G : Recent(i) \in Nat
  BY ShelfAssumption, OnShelf, FS_Subset
<1>3. \A i, j \in G : Recent(i) = Recent(j) => i = j
  BY OnShelf
<1>4. Untied(G, time)
  BY <1>1, <1>2, <1>3 DEF Untied
<1>5. \E i \in G : \A j \in G : Recent(j) <= Recent(i)
  <2>1. Cardinality(G) \in Nat /\ Cardinality(G) # 0
    BY <1>2, FS_CardinalityType, FS_EmptySet
  <2>2. PICK i \in G : Cardinality(Newer(G, time, i)) = 0
    <3>1. 1 \in 1 .. Cardinality(G) /\ 1 - 1 = 0
      BY <2>1
    <3>2. ByTime(G, time)[1] \in G /\ Cardinality(Newer(G, time, ByTime(G, time)[1])) = 1 - 1
      BY <1>4, <3>1, TimeList
    <3> QED BY <3>1, <3>2
  <2>3. IsFiniteSet(Newer(G, time, i))
    <3>1. Newer(G, time, i) \in SUBSET G
      BY DEF Newer
    <3> QED BY <1>2, <3>1, FS_Subset
  <2>4. Newer(G, time, i) = {}
    BY <2>2, <2>3, FS_EmptySet
  <2>5. \A j \in G : ~(Recent(j) > Recent(i))
    BY <1>1, <2>4 DEF Newer
  <2> QED BY <1>2, <2>5
<1>6. Newest(G) = CHOOSE i \in G : \A j \in G : Recent(j) <= Recent(i)
  BY DEF Newest
<1>7. Newest(G) \in G /\ \A j \in G : Recent(j) <= Recent(Newest(G))
  BY <1>5, <1>6
<1> QED BY <1>2, <1>3, <1>7

(* The episodes of one series stand in a row. *)
LEMMA InARow ==
  ASSUME QInv, NEW s, NEW G \in SUBSET {e \in Episodes : Series(e) = s}
  PROVE  /\ \A e \in G : NotBefore(e, e)
         /\ \A e, f \in G : NotBefore(e, f) \/ NotBefore(f, e)
         /\ \A e, f \in G : NotBefore(e, f) /\ NotBefore(f, e) => e = f
         /\ \A e, f, g \in G : NotBefore(e, f) /\ NotBefore(f, g) => NotBefore(e, g)
<1>1. \A e \in G : /\ e \in Item /\ Season(e) \in Item /\ Series(e) = s /\ Row[e].parent = Season(e)
                   /\ Row[Season(e)].parent = s /\ Row[e].parent # 0 /\ s # 0
                   /\ Row[Season(e)].no \in Nat /\ Row[e].no \in Nat
  <2> SUFFICES ASSUME NEW e \in G
               PROVE  /\ e \in Item /\ Season(e) \in Item /\ Series(e) = s /\ Row[e].parent = Season(e)
                      /\ Row[Season(e)].parent = s /\ Row[e].parent # 0 /\ s # 0
                      /\ Row[Season(e)].no \in Nat /\ Row[e].no \in Nat
    OBVIOUS
  <2>1. /\ e \in Item /\ Season(e) \in Of("season") /\ Series(e) \in Of("series")
        /\ Row[Season(e)].parent = Series(e) /\ Series(e) = s
    BY OnShelf
  <2>2. Season(e) \in Item /\ s \in Item
    BY <2>1, OnShelf DEF Of
  <2>3. 0 \notin Item /\ Row[Season(e)].no \in Nat /\ Row[e].no \in Nat
    BY <2>1, <2>2, UserDataAssumption, ShelfAssumption
  <2> QED BY <2>1, <2>2, <2>3 DEF Season
<1>2. ASSUME NEW e \in G, NEW f \in G, Row[Season(e)].no = Row[Season(f)].no, Row[e].no = Row[f].no
      PROVE  e = f
  <2>1. Season(e) = Season(f)
    BY <1>1, <1>2, ShelfAssumption
  <2> QED BY <1>1, <1>2, <2>1, ShelfAssumption
<1>3. \A e, f \in G : NotBefore(e, f) /\ NotBefore(f, e) => e = f
  BY <1>1, <1>2 DEF NotBefore
<1> QED BY <1>1, <1>3 DEF NotBefore

(* That order has no ties. *)
LEMMA RowOrder ==
  ASSUME QInv, NEW s, NEW G \in SUBSET {e \in Episodes : Series(e) = s}
  PROVE  StrictOrder(G, [e \in G |-> {f \in G : ~NotBefore(e, f)}]) /\ IsFiniteSet(G)
<1>1. PICK before : before = [e \in G |-> {f \in G : ~NotBefore(e, f)}]
  OBVIOUS
<1>2. \A e \in G : before[e] \in SUBSET G
  BY <1>1
<1>3. \A e, f \in G : f \in before[e] <=> ~NotBefore(e, f)
  BY <1>1
<1>4. StrictOrder(G, before)
  <2>1. \A x \in G : x \notin before[x]
    BY <1>3, InARow
  <2>2. \A x, y, z \in G : x \in before[y] /\ y \in before[z] => x \in before[z]
    <3> SUFFICES ASSUME NEW x \in G, NEW y \in G, NEW z \in G, x \in before[y], y \in before[z]
                 PROVE  x \in before[z]
      OBVIOUS
    <3>1. ~NotBefore(y, x) /\ ~NotBefore(z, y)
      BY <1>3
    <3>2. NotBefore(x, y) /\ NotBefore(y, z)
      BY <3>1, InARow
    <3>3. ASSUME NotBefore(z, x) PROVE FALSE
      <4>1. NotBefore(z, y)
        BY <3>2, <3>3, InARow
      <4> QED BY <3>1, <4>1
    <3> QED BY <1>3, <3>3
  <2>3. \A x, y \in G : x # y => x \in before[y] \/ y \in before[x]
    <3> SUFFICES ASSUME NEW x \in G, NEW y \in G, x # y PROVE x \in before[y] \/ y \in before[x]
      OBVIOUS
    <3>1. ~NotBefore(x, y) \/ ~NotBefore(y, x)
      BY InARow
    <3> QED BY <1>3, <3>1
  <2> QED BY <1>2, <2>1, <2>2, <2>3 DEF StrictOrder
<1>5. IsFiniteSet(G)
  <2>1. G \in SUBSET Item
    BY OnShelf
  <2> QED BY <2>1, ShelfAssumption, FS_Subset
<1> QED BY <1>1, <1>4, <1>5

(* Of several episodes of a series one is the first. *)
FirstOf(G) == CHOOSE e \in G : \A f \in G : NotBefore(e, f)
LEMMA FirstIs ==
  ASSUME QInv, NEW s, NEW G \in SUBSET {e \in Episodes : Series(e) = s}, G # {}
  PROVE  /\ FirstOf(G) \in G /\ \A f \in G : NotBefore(FirstOf(G), f)
         /\ \A e \in G : (\A f \in G : NotBefore(e, f)) => e = FirstOf(G)
<1>1. PICK before : before = [e \in G |-> {f \in G : ~NotBefore(e, f)}]
  OBVIOUS
<1>2. \A e \in G : before[e] \in SUBSET G
  BY <1>1
<1>3. \A e, f \in G : f \in before[e] <=> ~NotBefore(e, f)
  BY <1>1
<1>4. StrictOrder(G, before)
  BY <1>1, RowOrder
<1>5. IsFiniteSet(G)
  BY RowOrder
<1>6. \E e \in G : \A f \in G : NotBefore(e, f)
  <2>1. Cardinality(G) \in Nat /\ Cardinality(G) # 0
    BY <1>5, FS_CardinalityType, FS_EmptySet
  <2>2. PICK e \in G : Cardinality(before[e]) = 0
    <3>1. 1 \in 1 .. Cardinality(G) /\ 1 - 1 = 0
      BY <2>1
    <3>2. \E e \in G : Cardinality(before[e]) = 1 - 1
      BY <1>4, <1>5, <3>1, EveryRank
    <3> QED BY <3>1, <3>2
  <2>3. before[e] = {}
    <3>1. IsFiniteSet(before[e])
      BY <1>2, <1>5, FS_Subset
    <3> QED BY <2>2, <3>1, FS_EmptySet
  <2> QED BY <1>3, <2>3
<1>7. FirstOf(G) \in G /\ \A f \in G : NotBefore(FirstOf(G), f)
  BY <1>6 DEF FirstOf
<1> QED BY <1>7, InARow

-----------------------------------------------------------------------------
(* What a series shows.                                                    *)

Group(s, scope) == {e \in Episodes : Series(e) = s /\ (scope.kind = "Season" => Season(e) = scope.id)}
Used(G) == {e \in G : Started(e)}
Lead(G) == {e \in G : NotBefore(Newest(Used(G)), e) /\ Unplayed(e)}
SeedOf(G) == [id |-> FirstOf(Lead(G)), recency |-> Recent(Newest(Used(G)))]
Shows(G) == Used(G) # {} /\ Lead(G) # {}

(* The query of one series returns the first unplayed episode from the one used
   last on, or nothing. *)
LEMMA RepsIs ==
  ASSUME NEW s, NEW scope
  PROVE  Reps(s, scope) = IF Shows(Group(s, scope)) THEN {SeedOf(Group(s, scope))} ELSE {}
  BY DEF Reps, Group, Used, Lead, SeedOf, Shows, FirstOf

(* So does what Resume is to show of it. *)
Anchors(G) == {a \in G : Started(a) /\ \A f \in G : Started(f) => Recent(f) <= Recent(a)}
Ahead(G, a) == {e \in G : Unplayed(e) /\ NotBefore(a, e)}
Leads(G, a) == {e \in Ahead(G, a) : \A f \in Ahead(G, a) : NotBefore(e, f)}
WantedOf(G) == UNION {{[id |-> e, recency |-> Recent(a)] : e \in Leads(G, a)} : a \in Anchors(G)}

LEMMA WantedOfIs ==
  ASSUME QInv, NEW s, NEW G \in SUBSET {e \in Episodes : Series(e) = s}
  PROVE  WantedOf(G) = IF Shows(G) THEN {SeedOf(G)} ELSE {}
<1>1. G \in SUBSET Item /\ Used(G) \in SUBSET G
  BY OnShelf DEF Used
<1>2. CASE Used(G) = {}
  <2>1. Anchors(G) = {}
    BY <1>2 DEF Anchors, Used
  <2> QED BY <1>2, <2>1 DEF WantedOf, Shows
<1>3. CASE Used(G) # {}
  <2>1. PICK a : a = Newest(Used(G))
    OBVIOUS
  <2>2. Used(G) \in SUBSET Item /\ \A i \in Used(G) : Started(i)
    BY <1>1 DEF Used
  <2>3. /\ a \in Used(G) /\ \A j \in Used(G) : Recent(j) <= Recent(a)
        /\ \A b \in Used(G) : (\A j \in Used(G) : Recent(j) <= Recent(b)) => b = a
    BY <1>3, <2>1, <2>2, NewestIs
  <2>4. Anchors(G) = {a}
    BY <2>3 DEF Anchors, Used
  <2>5. Ahead(G, a) = Lead(G)
    BY <2>1 DEF Ahead, Lead
  <2>6. CASE Lead(G) = {}
    <3>1. Leads(G, a) = {}
      BY <2>5, <2>6 DEF Leads
    <3> QED BY <2>4, <2>6, <3>1 DEF WantedOf, Shows
  <2>7. CASE Lead(G) # {}
    <3>1. Lead(G) \in SUBSET {e \in Episodes : Series(e) = s}
      BY DEF Lead
    <3>2. /\ FirstOf(Lead(G)) \in Lead(G) /\ \A f \in Lead(G) : NotBefore(FirstOf(Lead(G)), f)
          /\ \A e \in Lead(G) : (\A f \in Lead(G) : NotBefore(e, f)) => e = FirstOf(Lead(G))
      BY <2>7, <3>1, FirstIs
    <3>3. Leads(G, a) = {FirstOf(Lead(G))}
      BY <2>5, <3>2 DEF Leads
    <3>4. WantedOf(G) = {SeedOf(G)}
      BY <2>1, <2>4, <3>3 DEF WantedOf, SeedOf
    <3> QED BY <1>3, <2>7, <3>4 DEF Shows
  <2> QED BY <2>6, <2>7
<1> QED BY <1>2, <1>3

(* The seed of a series is an episode of it, as recent as the one used last. *)
LEMMA SeedIs ==
  ASSUME QInv, NEW s, NEW G \in SUBSET {e \in Episodes : Series(e) = s}, Shows(G)
  PROVE  /\ SeedOf(G).id \in G /\ Unplayed(SeedOf(G).id) /\ SeedOf(G).recency = Recent(Newest(Used(G)))
         /\ Newest(Used(G)) \in G /\ Started(Newest(Used(G)))
         /\ \A f \in Lead(G) : NotBefore(SeedOf(G).id, f)
<1>1. G \in SUBSET Item /\ Used(G) \in SUBSET Item /\ \A i \in Used(G) : Started(i)
  BY OnShelf DEF Used
<1>2. Newest(Used(G)) \in Used(G)
  BY <1>1, NewestIs DEF Shows
<1>3. Lead(G) \in SUBSET {e \in Episodes : Series(e) = s}
  BY DEF Lead
<1>4. FirstOf(Lead(G)) \in Lead(G) /\ \A f \in Lead(G) : NotBefore(FirstOf(Lead(G)), f)
  BY <1>3, FirstIs DEF Shows
<1>5. SeedOf(G).id = FirstOf(Lead(G)) /\ SeedOf(G).recency = Recent(Newest(Used(G)))
  BY DEF SeedOf
<1>6. FirstOf(Lead(G)) \in G /\ Unplayed(FirstOf(Lead(G)))
  BY <1>4 DEF Lead
<1>7. Newest(Used(G)) \in G /\ Started(Newest(Used(G)))
  BY <1>2 DEF Used
<1> QED BY <1>4, <1>5, <1>6, <1>7

-----------------------------------------------------------------------------
(* What Resume is to show, series by series.                               *)

(* The series somebody started within the scope. *)
Watched(scope) == {Series(e) : e \in {f \in Episodes : Started(f) /\ InScope(f, scope)}}
Frontier(scope) == UNION {Reps(s, scope) : s \in Watched(scope)}
OpenMovies(scope) ==
  {m \in Of("movie") : Started(m) /\ Unplayed(m) /\ (scope.kind = "Library" => Row[m].lib = scope.id)}
Films(S) == {[id |-> m, recency |-> Recent(m)] : m \in S}

Kinds4 == {"All", "Library", "Series", "Season"}
LEMMA ScopeKinds == ASSUME NEW scope \in Scopes PROVE scope.kind \in Kinds4
  BY DEF Scopes, Kinds4

(* Within the scope, a series somebody started has all the episodes its query
   sees. *)
LEMMA InScopeAlike ==
  ASSUME QInv, NEW scope, scope.kind \in Kinds4, NEW s \in Watched(scope)
  PROVE  /\ {e \in Episodes : InScope(e, scope) /\ Series(e) = s} = Group(s, scope)
         /\ s \in Of("series") /\ Used(Group(s, scope)) # {}
<1>1. PICK e \in Episodes : Started(e) /\ InScope(e, scope) /\ s = Series(e)
  BY DEF Watched
<1>2. s \in Of("series")
  BY <1>1, OnShelf
<1>3. \A f \in Episodes : Series(f) = s => Row[f].lib = Row[e].lib
  BY <1>1, OnShelf
<1>4. ASSUME NEW f \in Episodes, Series(f) = s
      PROVE  InScope(f, scope) <=> (scope.kind = "Season" => Season(f) = scope.id)
  <2>1. CASE scope.kind = "All"
    BY <2>1 DEF InScope
  <2>2. CASE scope.kind = "Library"
    <3>1. InScope(e, scope) <=> Row[e].lib = scope.id
      BY <2>2 DEF InScope
    <3>2. InScope(f, scope) <=> Row[f].lib = scope.id
      BY <2>2 DEF InScope
    <3> QED BY <1>1, <1>3, <1>4, <2>2, <3>1, <3>2
  <2>3. CASE scope.kind = "Series"
    <3>1. InScope(e, scope) <=> Series(e) = scope.id
      BY <2>3 DEF InScope
    <3>2. InScope(f, scope) <=> Series(f) = scope.id
      BY <2>3 DEF InScope
    <3> QED BY <1>1, <1>4, <2>3, <3>1, <3>2
  <2>4. CASE scope.kind = "Season"
    <3>1. InScope(f, scope) <=> Season(f) = scope.id
      BY <2>4 DEF InScope
    <3> QED BY <2>4, <3>1
  <2> QED BY <2>1, <2>2, <2>3, <2>4 DEF Kinds4
<1>5. {f \in Episodes : InScope(f, scope) /\ Series(f) = s} = Group(s, scope)
  BY <1>4 DEF Group
<1>6. e \in Used(Group(s, scope))
  BY <1>1, <1>5 DEF Used
<1> QED BY <1>2, <1>5, <1>6

LEMMA WantedIs ==
  ASSUME QInv, NEW scope \in Scopes
  PROVE  Wanted(scope) = Frontier(scope) \cup (IF scope.kind \in {"All", "Library"} THEN Films(OpenMovies(scope)) ELSE {})
<1> DEFINE eps == {e \in Episodes : InScope(e, scope)}
           G(s) == {e \in eps : Series(e) = s}
           W == UNION {WantedOf(H) : H \in {G(s) : s \in Of("series")}}
<1>1. Wanted(scope) = W \cup (IF scope.kind \in {"All", "Library"} THEN Films(OpenMovies(scope)) ELSE {})
  BY DEF Wanted, WantedOf, Anchors, Leads, Ahead, Films, OpenMovies
<1>2. ASSUME NEW s \in Watched(scope) PROVE s \in Of("series") /\ WantedOf(G(s)) = Reps(s, scope)
  <2>1. G(s) = Group(s, scope) /\ s \in Of("series")
    <3>1. G(s) = {e \in Episodes : InScope(e, scope) /\ Series(e) = s}
      OBVIOUS
    <3> QED BY <3>1, ScopeKinds, InScopeAlike
  <2>2. Group(s, scope) \in SUBSET {e \in Episodes : Series(e) = s}
    BY DEF Group
  <2>3. WantedOf(Group(s, scope)) = Reps(s, scope)
    BY <2>2, RepsIs, WantedOfIs
  <2> QED BY <2>1, <2>3
<1>3. ASSUME NEW s \in Of("series"), s \notin Watched(scope) PROVE WantedOf(G(s)) = {}
  <2>1. Anchors(G(s)) = {}
    BY <1>3 DEF Anchors, Watched
  <2> QED BY <2>1 DEF WantedOf
<1>4. W = Frontier(scope)
  <2>1. \A x \in W : x \in Frontier(scope)
    <3> SUFFICES ASSUME NEW s \in Of("series"), NEW x \in WantedOf(G(s)) PROVE x \in Frontier(scope)
      OBVIOUS
    <3>1. s \in Watched(scope)
      BY <1>3
    <3> HIDE DEF G
    <3> QED BY <1>2, <3>1 DEF Frontier
  <2>2. \A x \in Frontier(scope) : x \in W
    <3> SUFFICES ASSUME NEW s \in Watched(scope), NEW x \in Reps(s, scope) PROVE x \in W
      BY DEF Frontier
    <3>1. s \in Of("series") /\ x \in WantedOf(G(s))
      BY <1>2
    <3> HIDE DEF G
    <3> QED BY <3>1
  <2> HIDE DEF W
  <2> QED BY <2>1, <2>2
<1> QED BY <1>1, <1>4

-----------------------------------------------------------------------------
(* Chunks and pages of Resume.                                             *)

Age(scope) == [s \in Watched(scope) |-> Recent(Newest({e \in {f \in Episodes : Started(f) /\ InScope(f, scope)} : Series(e) = s}))]

(* The order of the series is by the episode used last, and no two are equal;
   the seed of a series is as recent. *)
LEMMA SeriesOrder ==
  ASSUME QInv, NEW scope, scope.kind \in Kinds4
  PROVE  /\ FrontierSeriesOrder(scope) = ByTime(Watched(scope), Age(scope))
         /\ Untied(Watched(scope), Age(scope))
         /\ \A s \in Watched(scope) : \E a \in Episodes : Started(a) /\ Series(a) = s /\ Age(scope)[s] = Recent(a)
         /\ \A s \in Watched(scope) : \A x \in Reps(s, scope) :
              x = SeedOf(Group(s, scope)) /\ x.id \in Item /\ x.recency = Age(scope)[s]
<1>1. FrontierSeriesOrder(scope) = ByTime(Watched(scope), Age(scope))
  BY DEF FrontierSeriesOrder, Watched, Age
<1>2. ASSUME NEW s \in Watched(scope)
      PROVE  /\ Group(s, scope) \in SUBSET {e \in Episodes : Series(e) = s}
             /\ Newest(Used(Group(s, scope))) \in Group(s, scope) /\ Started(Newest(Used(Group(s, scope))))
             /\ Age(scope)[s] = Recent(Newest(Used(Group(s, scope))))
  <2>1. /\ {e \in Episodes : InScope(e, scope) /\ Series(e) = s} = Group(s, scope)
        /\ Used(Group(s, scope)) # {}
    BY InScopeAlike
  <2>2. {e \in {f \in Episodes : Started(f) /\ InScope(f, scope)} : Series(e) = s} = Used(Group(s, scope))
    BY <2>1 DEF Used
  <2>3. Age(scope)[s] = Recent(Newest(Used(Group(s, scope))))
    BY <2>2 DEF Age
  <2>4. Used(Group(s, scope)) \in SUBSET Item /\ \A i \in Used(Group(s, scope)) : Started(i)
    BY OnShelf DEF Used, Group
  <2>5. Newest(Used(Group(s, scope))) \in Used(Group(s, scope))
    BY <2>1, <2>4, NewestIs
  <2>6. Group(s, scope) \in SUBSET {e \in Episodes : Series(e) = s}
    BY DEF Group
  <2> QED BY <2>3, <2>5, <2>6 DEF Used
<1>3. \A s \in Watched(scope) : \E a \in Episodes : Started(a) /\ Series(a) = s /\ Age(scope)[s] = Recent(a)
  BY <1>2
<1>4. Untied(Watched(scope), Age(scope))
  <2>1. Watched(scope) \in SUBSET Item
    BY OnShelf DEF Watched, Of
  <2>2. IsFiniteSet(Watched(scope))
    BY <2>1, ShelfAssumption, FS_Subset
  <2>3. \A s \in Watched(scope) : Age(scope)[s] \in Int
    BY <1>3, OnShelf
  <2>4. \A s, t \in Watched(scope) : Age(scope)[s] = Age(scope)[t] => s = t
    BY <1>3, OnShelf
  <2> QED BY <2>2, <2>3, <2>4 DEF Untied
<1>5. ASSUME NEW s \in Watched(scope), NEW x \in Reps(s, scope)
      PROVE  x = SeedOf(Group(s, scope)) /\ x.id \in Item /\ x.recency = Age(scope)[s]
  <2>1. x = SeedOf(Group(s, scope)) /\ Shows(Group(s, scope))
    BY RepsIs
  <2>2. x.id \in Group(s, scope) /\ x.recency = Recent(Newest(Used(Group(s, scope))))
    BY <1>2, <2>1, SeedIs
  <2>3. x.id \in Item
    BY <1>2, <2>2, OnShelf
  <2> QED BY <1>2, <2>1, <2>2, <2>3
<1> QED BY <1>1, <1>3, <1>4, <1>5

(* Seeds and films have times of their own, and there are no more of them than
   items. *)
LEMMA AllSeeds ==
  ASSUME QInv, NEW scope, scope.kind \in Kinds4, NEW M \in SUBSET {m \in Of("movie") : Started(m)}
  PROVE  /\ Seeded(Frontier(scope) \cup Films(M))
         /\ Cardinality(Frontier(scope) \cup Films(M)) <= Cardinality(Item)
<1> DEFINE W == Frontier(scope) \cup Films(M)
           D == {s \in Watched(scope) : Reps(s, scope) # {}} \cup M
           f == [i \in D |-> IF i \in M THEN [id |-> i, recency |-> Recent(i)] ELSE SeedOf(Group(i, scope))]
<1>1. /\ \A m \in M : m \in Item /\ Started(m) /\ Row[m].type = "movie"
      /\ \A s \in Watched(scope) : s \in Item /\ Row[s].type = "series"
      /\ \A e \in Episodes : e \in Item /\ Row[e].type = "episode"
  <2>1. "movie" \in Types /\ "series" \in Types /\ "episode" \in Types
    BY DEF Types
  <2>2. \A s \in Watched(scope) : s \in Of("series")
    BY InScopeAlike
  <2> QED BY <2>1, <2>2, OnShelf
<1>2. \A x \in Frontier(scope) : \E s \in Watched(scope) : x \in Reps(s, scope) /\ s \notin M
  BY <1>1 DEF Frontier
<1>3. ASSUME NEW x \in W
      PROVE  /\ x.id \in Item /\ \E i \in D : f[i] = x
             /\ \E a \in Item : Started(a) /\ x.recency = Recent(a)
                  /\ \/ Row[a].type = "movie" /\ x = [id |-> a, recency |-> Recent(a)]
                     \/ a \in Episodes /\ Series(a) \in Watched(scope) /\ x = SeedOf(Group(Series(a), scope))
  <2>1. CASE x \in Films(M)
    <3>1. PICK m \in M : x = [id |-> m, recency |-> Recent(m)]
      BY <2>1 DEF Films
    <3>2. x.id = m /\ x.recency = Recent(m) /\ m \in D /\ f[m] = x
      BY <3>1
    <3> HIDE DEF D, f
    <3> QED BY <1>1, <3>1, <3>2
  <2>2. CASE x \in Frontier(scope)
    <3>1. PICK s \in Watched(scope) : x \in Reps(s, scope) /\ s \notin M
      BY <1>2, <2>2
    <3>2. x = SeedOf(Group(s, scope)) /\ x.id \in Item /\ x.recency = Age(scope)[s]
      BY <3>1, SeriesOrder
    <3>3. PICK a \in Episodes : Started(a) /\ Series(a) = s /\ Age(scope)[s] = Recent(a)
      BY SeriesOrder
    <3>4. s \in D /\ f[s] = x
      BY <3>1, <3>2
    <3> HIDE DEF D, f
    <3> QED BY <1>1, <3>2, <3>3, <3>4
  <2> QED BY <2>1, <2>2
<1>4. \A i \in D : f[i] \in W
  <2> SUFFICES ASSUME NEW i \in D PROVE f[i] \in W
    OBVIOUS
  <2>1. CASE i \in M
    BY <2>1 DEF Films
  <2>2. CASE i \notin M
    <3>1. i \in Watched(scope) /\ Reps(i, scope) # {}
      BY <2>2
    <3>2. SeedOf(Group(i, scope)) \in Reps(i, scope)
      BY <3>1, SeriesOrder
    <3>3. SeedOf(Group(i, scope)) \in Frontier(scope)
      BY <3>1, <3>2 DEF Frontier
    <3> QED BY <2>2, <3>3
  <2> QED BY <2>1, <2>2
<1>5. D \in SUBSET Item
  BY <1>1
<1>6. IsFiniteSet(D) /\ Cardinality(D) <= Cardinality(Item)
  BY <1>5, ShelfAssumption, FS_Subset
<1>7. f \in [D -> W]
  <2>1. f = [i \in D |-> f[i]]
    OBVIOUS
  <2> HIDE DEF f, D, W
  <2> QED BY <1>4, <2>1
<1>8. f \in Surjection(D, W)
  <2>1. \A x \in W : \E i \in D : f[i] = x
    BY <1>3
  <2> HIDE DEF f, D, W
  <2> QED BY <1>7, <2>1 DEF Surjection
<1>9. IsFiniteSet(W) /\ Cardinality(W) <= Cardinality(D)
  <2> HIDE DEF f, D, W
  <2> QED BY <1>6, <1>8, FS_Surjection
<1>10. Cardinality(W) <= Cardinality(Item)
  <2> HIDE DEF D, W
  <2>1. Cardinality(W) \in Nat /\ Cardinality(D) \in Nat /\ Cardinality(Item) \in Nat
    BY <1>6, <1>9, ShelfAssumption, FS_CardinalityType
  <2> QED BY <1>6, <1>9, <2>1
<1>11. \A x, y \in W : x.recency = y.recency => x = y
  <2> SUFFICES ASSUME NEW x \in W, NEW y \in W, x.recency = y.recency PROVE x = y
    OBVIOUS
  <2>1. PICK a \in Item : /\ Started(a) /\ x.recency = Recent(a)
                          /\ \/ Row[a].type = "movie" /\ x = [id |-> a, recency |-> Recent(a)]
                             \/ a \in Episodes /\ x = SeedOf(Group(Series(a), scope))
    BY <1>3
  <2>2. PICK b \in Item : /\ Started(b) /\ y.recency = Recent(b)
                          /\ \/ Row[b].type = "movie" /\ y = [id |-> b, recency |-> Recent(b)]
                             \/ b \in Episodes /\ y = SeedOf(Group(Series(b), scope))
    BY <1>3
  <2>3. a = b
    BY <2>1, <2>2, OnShelf
  <2> QED BY <1>1, <2>1, <2>2, <2>3
<1>12. \A x \in W : x.id \in Item /\ x.recency \in Int
  BY <1>3, OnShelf
<1> QED BY <1>9, <1>10, <1>11, <1>12 DEF Seeded

(* Enough chunks hold all the series. *)
LEMMA Chunks ==
  ASSUME NEW l \in Nat, NEW step \in Nat \ {0}
  PROVE  (l + step - 1) \div step \in Nat /\ l <= ((l + step - 1) \div step) * step
<1>1. PICK q : q = (l + step - 1) \div step
  OBVIOUS
<1>2. PICK a \in Nat : a = l + step - 1
  OBVIOUS
<1>3. q \in Nat /\ q * step <= a /\ a < (q + 1) * step
  BY <1>1, <1>2
<1>4. (q + 1) * step = q * step + step
  BY <1>3
<1> QED BY <1>1, <1>2, <1>3, <1>4

(* Taking series chunk by chunk until there are enough seeds leaves out only
   seeds older than all that were taken, unless there are no more. *)
LEMMA FrontierIsTop ==
  ASSUME QInv, NEW scope, scope.kind \in Kinds4, NEW want \in Nat \ {0}
  PROVE  /\ FrontierEpisodes(scope, want) \in SUBSET Frontier(scope)
         /\ \A x \in Frontier(scope) \ FrontierEpisodes(scope, want) :
              want <= Cardinality(Later(FrontierEpisodes(scope, want), x))
<1>1. PICK order, n : order = FrontierSeriesOrder(scope) /\ n = Cardinality(Watched(scope))
  OBVIOUS
<1>2. /\ order \in [1 .. n -> Watched(scope)] /\ Len(order) = n /\ n \in Nat
      /\ \A s \in Watched(scope) : \E k \in 1 .. n : order[k] = s
      /\ \A j, k \in 1 .. n : j < k => Age(scope)[order[j]] > Age(scope)[order[k]]
  <2>1. order = ByTime(Watched(scope), Age(scope)) /\ Untied(Watched(scope), Age(scope))
    BY <1>1, SeriesOrder
  <2>2. \A j, k \in 1 .. n : j < k => Age(scope)[order[j]] > Age(scope)[order[k]]
    <3> SUFFICES ASSUME NEW j \in 1 .. n, NEW k \in 1 .. n, j < k
                 PROVE  Age(scope)[order[j]] > Age(scope)[order[k]]
      OBVIOUS
    <3> QED BY ONLY SMTT(30), <1>1, <2>1, j \in 1 .. n, k \in 1 .. n, j < k, TimeOrder
  <2>3. order \in [1 .. n -> Watched(scope)] /\ Len(order) = n /\ n \in Nat
    BY ONLY SMTT(30), <1>1, <2>1, TimeList
  <2>4. \A s \in Watched(scope) : \E k \in 1 .. n : order[k] = s
    BY ONLY SMTT(30), <1>1, <2>1, TimeList
  <2> QED BY ONLY <2>2, <2>3, <2>4
<1>3. PICK chunks \in Nat : chunks = (Len(order) + want - 1) \div want /\ n <= chunks * want
  BY <1>2, Chunks
<1>4. PICK enough : enough = {k \in 1 .. chunks : Cardinality(Seeds(order, k * want, scope)) >= want}
  OBVIOUS
<1>5. PICK last : last = IF enough = {} THEN chunks ELSE CHOOSE k \in enough : \A l \in enough : k <= l
  OBVIOUS
<1>6. FrontierEpisodes(scope, want) = Seeds(order, last * want, scope)
  BY <1>1, <1>3, <1>4, <1>5 DEF FrontierEpisodes
<1>7. last \in Nat /\ (n <= last * want \/ Cardinality(Seeds(order, last * want, scope)) >= want)
  <2>1. CASE enough = {}
    BY <1>3, <1>5, <2>1
  <2>2. CASE enough # {}
    <3>1. IsFiniteSet(enough) /\ Cardinality(enough) \in Nat /\ Cardinality(enough) # 0
      <4>1. enough \in SUBSET (1 .. chunks) /\ IsFiniteSet(1 .. chunks)
        BY <1>4, FS_Interval
      <4> QED BY <2>2, <4>1, FS_Subset, FS_CardinalityType, FS_EmptySet
    <3>2. PICK time : time = [k \in enough |-> 0 - k]
      OBVIOUS
    <3>3. \A k \in enough : k \in Nat
      BY <1>4
    <3>4. Untied(enough, time)
      BY <3>1, <3>2, <3>3 DEF Untied
    <3>5. 1 \in 1 .. Cardinality(enough)
      BY <3>1
    <3>6. PICK k \in enough : k = ByTime(enough, time)[1] /\ Cardinality(Newer(enough, time, k)) = 0
      BY <3>4, <3>5, TimeList
    <3>7. Newer(enough, time, k) = {}
      <4>1. Newer(enough, time, k) \in SUBSET enough
        BY DEF Newer
      <4> QED BY <3>1, <3>6, <4>1, FS_Subset, FS_EmptySet
    <3>8. \A l \in enough : k <= l
      BY <3>2, <3>3, <3>7 DEF Newer
    <3>9. last \in enough
      BY <1>5, <2>2, <3>8
    <3> QED BY <1>4, <3>3, <3>9
  <2> QED BY <2>1, <2>2
<1>8. PICK m \in Nat : m = last * want
  BY <1>7
<1>9. PICK F : F = Seeds(order, m, scope)
  OBVIOUS
<1>10. \A x : x \in F <=> \E k \in 1 .. n : k <= m /\ x \in Reps(order[k], scope)
  <2>1. \A k : k \in 1 .. (IF m < Len(order) THEN m ELSE Len(order)) <=> k \in 1 .. n /\ k <= m
    BY <1>2
  <2> QED BY <1>9, <2>1 DEF Seeds
<1>11. F \in SUBSET Frontier(scope)
  BY <1>2, <1>10 DEF Frontier
<1>12. ASSUME NEW x \in Frontier(scope) \ F PROVE want <= Cardinality(Later(F, x))
  <2>1. PICK s \in Watched(scope) : x \in Reps(s, scope)
    BY DEF Frontier
  <2>2. PICK j \in 1 .. n : order[j] = s
    BY <1>2
  <2>3. m < j
    BY <1>10, <2>1, <2>2
  <2>4. want <= Cardinality(F)
    <3>1. ~(n <= last * want)
      BY <1>2, <1>8, <2>2, <2>3
    <3> QED BY <1>7, <1>8, <1>9, <3>1, FS_CardinalityType, <1>11
  <2>5. \A y \in F : y.recency > x.recency
    <3> SUFFICES ASSUME NEW y \in F PROVE y.recency > x.recency
      OBVIOUS
    <3>1. PICK k \in 1 .. n : k <= m /\ y \in Reps(order[k], scope)
      BY <1>10
    <3>2. order[k] \in Watched(scope) /\ Age(scope)[order[k]] > Age(scope)[order[j]]
      BY <1>2, <1>8, <2>2, <2>3, <3>1
    <3>3. y.recency = Age(scope)[order[k]] /\ x.recency = Age(scope)[order[j]]
      BY <2>1, <2>2, <3>1, <3>2, SeriesOrder
    <3> QED BY <3>2, <3>3
  <2>6. Later(F, x) = F
    BY <2>5 DEF Later
  <2> QED BY <2>4, <2>6
<1> QED BY <1>6, <1>8, <1>9, <1>11, <1>12

(* A page of films leaves out only films older than a pageful. *)
LEMMA FilmsAreTop ==
  ASSUME QInv, NEW M \in SUBSET {m \in Of("movie") : Started(m)}, NEW want \in Nat, NEW S,
         S = Range(Page(ByUse(M), 0, want))
  PROVE  S \in SUBSET M /\ \A x \in Films(M) \ Films(S) : want <= Cardinality(Later(Films(S), x))
<1>1. PICK time, n, b : time = [i \in M |-> Recent(i)] /\ n = Cardinality(M) /\ b = ByTime(M, time)
  OBVIOUS
<1>2. M \in SUBSET Item /\ IsFiniteSet(M)
  <2>1. M \in SUBSET Item
    BY OnShelf DEF Of
  <2> QED BY <2>1, ShelfAssumption, FS_Subset
<1>3. Untied(M, time)
  <2>1. \A i \in M : time[i] \in Int
    BY <1>1, <1>2, OnShelf
  <2>2. \A i, j \in M : time[i] = time[j] => i = j
    BY <1>1, <1>2, OnShelf
  <2> QED BY <1>2, <2>1, <2>2 DEF Untied
<1>4. /\ b \in [1 .. n -> M] /\ b \in Seq(M) /\ Len(b) = n /\ n \in Nat
      /\ \A x \in M : \E k \in 1 .. n : b[k] = x
      /\ \A j, k \in 1 .. n : j < k => time[b[j]] > time[b[k]]
  <2>1. \A j, k \in 1 .. n : j < k => time[b[j]] > time[b[k]]
    <3> SUFFICES ASSUME NEW j \in 1 .. n, NEW k \in 1 .. n, j < k PROVE time[b[j]] > time[b[k]]
      OBVIOUS
    <3> QED BY ONLY SMTT(30), <1>1, <1>3, j \in 1 .. n, k \in 1 .. n, j < k, TimeOrder
  <2>2. n = Cardinality(M) /\ b = ByTime(M, time)
    BY <1>1
  <2>3. b \in [1 .. n -> M] /\ b \in Seq(M) /\ Len(b) = n /\ n \in Nat
    <3>1. b \in [1 .. n -> M] /\ n \in Nat
      BY ONLY SMTT(30), <1>3, <2>2, TimeList
    <3>2. b \in Seq(M)
      BY ONLY SMTT(30), <1>3, <2>2, TimeList
    <3>3. Len(b) = n
      BY ONLY SMTT(30), <1>3, <2>2, TimeList
    <3> QED BY <3>1, <3>2, <3>3
  <2>4. \A x \in M : \E k \in 1 .. n : b[k] = x
    BY ONLY SMTT(30), <1>3, <2>2, TimeList
  <2> QED BY ONLY <2>1, <2>3, <2>4
<1>5. PICK m \in Nat : m = IF want < n THEN want ELSE n
  BY <1>4
<1>6. S = {b[k] : k \in 1 .. m}
  <2>1. Page(ByUse(M), 0, want) = SubSeq(b, 1, m)
    BY <1>1, <1>4, <1>5 DEF Page, ByUse
  <2>2. \A k \in 1 .. m : b[k] \in M
    BY <1>4, <1>5
  <2>3. PICK p : p = SubSeq(b, 1, m)
    OBVIOUS
  <2>4. m - 1 + 1 = m /\ 1 \in Int /\ m \in Int
    BY <1>5
  <2>5. p \in Seq(M) /\ Len(p) = m /\ \A k \in 1 .. m : p[k] = b[k]
    <3>1. /\ p \in Seq(M) /\ Len(p) = (IF 1 <= m THEN m - 1 + 1 ELSE 0)
          /\ \A k \in 1 .. m - 1 + 1 : p[k] = b[1 + k - 1]
      BY <2>2, <2>3, <2>4, SubSeqProperties
    <3>2. \A k \in 1 .. m : 1 + k - 1 = k
      OBVIOUS
    <3> QED BY <2>4, <3>1, <3>2
  <2>6. DOMAIN p = 1 .. m
    BY <2>5, LenProperties
  <2>7. Range(p) = {b[k] : k \in 1 .. m}
    BY <2>5, <2>6 DEF Range
  <2> QED BY <2>1, <2>3, <2>7
<1>7. S \in SUBSET M
  BY <1>4, <1>5, <1>6
<1>8. ASSUME NEW x \in Films(M) \ Films(S) PROVE want <= Cardinality(Later(Films(S), x))
  <2>1. PICK i \in M : x = [id |-> i, recency |-> Recent(i)] /\ i \notin S
    BY DEF Films
  <2>2. PICK j \in 1 .. n : b[j] = i
    BY <1>4
  <2>3. m < j /\ m = want
    BY <1>4, <1>5, <1>6, <2>1, <2>2
  <2>4. \A y \in Films(S) : y.recency > x.recency
    <3> SUFFICES ASSUME NEW y \in Films(S) PROVE y.recency > x.recency
      OBVIOUS
    <3>1. PICK k \in 1 .. m : y = [id |-> b[k], recency |-> Recent(b[k])]
      BY <1>6 DEF Films
    <3>2. time[b[k]] > time[b[j]]
      BY <1>4, <2>3, <3>1
    <3>3. b[k] \in M
      BY <1>4, <2>3, <3>1
    <3> QED BY <1>1, <2>1, <2>2, <3>1, <3>2, <3>3
  <2>5. Later(Films(S), x) = Films(S)
    BY <2>4 DEF Later
  <2> DEFINE g == [k \in 1 .. m |-> [id |-> b[k], recency |-> Recent(b[k])]]
             T == 1 .. m
  <2>6. \A k \in T : g[k] \in Films(S) /\ g[k].id = b[k]
    BY <1>6 DEF Films
  <2>7. \A j1, k \in T : b[j1] = b[k] => j1 = k
    <3> SUFFICES ASSUME NEW j1 \in T, NEW k \in T, b[j1] = b[k] PROVE j1 = k
      OBVIOUS
    <3>1. j1 \in 1 .. n /\ k \in 1 .. n
      BY <1>4, <1>5
    <3>2. time[b[j1]] \in Int
      BY <1>3, <1>4, <3>1 DEF Untied
    <3>3. ~(j1 < k) /\ ~(k < j1)
      BY <1>4, <3>1, <3>2
    <3> QED BY <3>1, <3>3
  <2>8. g \in [T -> Films(S)]
    <3>1. g = [k \in T |-> g[k]]
      OBVIOUS
    <3> HIDE DEF g, T
    <3> QED BY <2>6, <3>1
  <2> HIDE DEF g
  <2>9. g \in Injection(T, Films(S))
    BY <2>6, <2>7, <2>8 DEF Injection, IsInjective
  <2>10. g \in Surjection(T, Films(S))
    <3>1. \A y \in Films(S) : \E k \in T : g[k] = y
      BY <1>6 DEF Films, g
    <3> QED BY <2>8, <3>1 DEF Surjection
  <2>11. IsFiniteSet(T) /\ Cardinality(T) = m
    <3>1. IsFiniteSet(T) /\ Cardinality(T) = IF 1 > m THEN 0 ELSE m - 1 + 1
      <4>1. m \in Int /\ 1 \in Int
        BY <1>5
      <4> QED BY <4>1, FS_Interval DEF T
    <3> QED BY <1>5, <3>1
  <2> HIDE DEF T
  <2>12. Cardinality(Films(S)) = Cardinality(T)
    BY <2>9, <2>10, <2>11, FS_Surjection
  <2> QED BY <2>3, <2>5, <2>11, <2>12
<1> QED BY <1>7, <1>8

(* Every page of Resume is that of all there is to show. *)
LEMMA ResumeIs ==
  ASSUME QInv, NEW scope \in Scopes, NEW limit \in Nat \ {0}, NEW start \in Nat
  PROVE  /\ ListResume(scope, limit, start) = Page(Ids(Wanted(scope)), start, limit)
         /\ Seeded(Wanted(scope)) /\ Cardinality(Wanted(scope)) <= Cardinality(Item)
<1>1. scope.kind \in Kinds4
  BY ScopeKinds
<1>2. PICK M : M = IF scope.kind \in {"All", "Library"} THEN OpenMovies(scope) ELSE {}
  OBVIOUS
<1>3. Wanted(scope) = Frontier(scope) \cup Films(M)
  <2>1. Films({}) = {}
    BY DEF Films
  <2> QED BY <1>2, <2>1, WantedIs
<1>4. M \in SUBSET {m \in Of("movie") : Started(m)}
  BY <1>2 DEF OpenMovies
<1>5. Seeded(Wanted(scope)) /\ Cardinality(Wanted(scope)) <= Cardinality(Item)
  BY <1>1, <1>3, <1>4, AllSeeds
<1>6. CASE scope.kind \in {"Series", "Season"} /\ scope.id \notin items
  <2>1. \A e \in Episodes : ~InScope(e, scope)
    <3> SUFFICES ASSUME NEW e \in Episodes, InScope(e, scope) PROVE FALSE
      OBVIOUS
    <3>1. Season(e) \in items /\ Series(e) \in items
      BY OnShelf DEF Of
    <3>2. CASE scope.kind = "Series"
      BY <1>6, <3>1, <3>2 DEF InScope
    <3>3. CASE scope.kind = "Season"
      BY <1>6, <3>1, <3>3 DEF InScope
    <3> QED BY <1>6, <3>2, <3>3
  <2>2. Frontier(scope) = {} /\ Films(M) = {}
    BY <1>2, <1>6, <2>1 DEF Frontier, Watched, Films
  <2>3. Len(Ids(Wanted(scope))) = 0 /\ Ids(Wanted(scope)) \in Seq(Item)
    BY <1>3, <1>5, <2>2, SeedsListed, FS_EmptySet
  <2>4. Page(Ids(Wanted(scope)), start, limit) = <<>>
    <3>1. Page(Ids(Wanted(scope)), start, limit) = SubSeq(Ids(Wanted(scope)), start + 1, 0)
      BY <2>3 DEF Page
    <3>2. start + 1 \in Int /\ 0 \in Int /\ 0 < start + 1
      OBVIOUS
    <3> QED BY <3>1, <3>2, SubSeqEmpty
  <2>5. ListResume(scope, limit, start) = <<>>
    BY <1>6 DEF ListResume
  <2> QED BY <1>5, <2>4, <2>5
<1>7. CASE ~(scope.kind \in {"Series", "Season"} /\ scope.id \notin items)
  <2>1. PICK want \in Nat \ {0} : want = start + limit
    OBVIOUS
  <2>2. PICK F : F = FrontierEpisodes(scope, want)
    OBVIOUS
  <2>3. F \in SUBSET Frontier(scope) /\ \A x \in Frontier(scope) \ F : want <= Cardinality(Later(F, x))
    BY <1>1, <2>2, FrontierIsTop
  <2>4. PICK T : T \in SUBSET M /\ ResumeMovies(scope, want) = Films(T)
                 /\ \A x \in Films(M) \ Films(T) : want <= Cardinality(Later(Films(T), x))
    <3>1. CASE scope.kind \in {"All", "Library"}
      <4>1. PICK T : T = Range(Page(ByUse(M), 0, want))
        OBVIOUS
      <4>2. ResumeMovies(scope, want) = Films(T)
        BY <1>2, <3>1, <4>1 DEF ResumeMovies, OpenMovies, Films
      <4>3. T \in SUBSET M /\ \A x \in Films(M) \ Films(T) : want <= Cardinality(Later(Films(T), x))
        BY <1>4, <4>1, FilmsAreTop
      <4> QED BY <4>2, <4>3
    <3>2. CASE scope.kind \in {"Series", "Season"}
      <4>1. ResumeMovies(scope, want) = {} /\ Films(M) = {} /\ Films({}) = {}
        BY <1>2, <3>2 DEF ResumeMovies, Films
      <4> QED BY <4>1
    <3> QED BY <1>1, <3>1, <3>2 DEF Kinds4
  <2>5. PICK S : S = F \cup Films(T)
    OBVIOUS
  <2>6. ListResume(scope, limit, start) = Page(Ids(S), start, limit)
    BY <1>7, <2>1, <2>2, <2>4, <2>5 DEF ListResume
  <2>7. S \in SUBSET Wanted(scope)
    BY <1>3, <2>3, <2>4, <2>5 DEF Films
  <2>8. ASSUME NEW x \in Wanted(scope) \ S PROVE start + limit <= Cardinality(Later(S, x))
    <3>1. PICK P \in {F, Films(T)} : want <= Cardinality(Later(P, x))
      BY <1>3, <2>3, <2>4, <2>5
    <3>2. Later(P, x) \in SUBSET Later(S, x)
      BY <2>5, <3>1 DEF Later
    <3>3. IsFiniteSet(Later(S, x))
      <4>1. Later(S, x) \in SUBSET Wanted(scope) /\ IsFiniteSet(Wanted(scope))
        BY <1>5, <2>7 DEF Later, Seeded
      <4> QED BY <4>1, FS_Subset
    <3>4. Cardinality(Later(P, x)) <= Cardinality(Later(S, x)) /\ IsFiniteSet(Later(P, x))
      BY <3>2, <3>3, FS_Subset
    <3>5. Cardinality(Later(P, x)) \in Nat /\ Cardinality(Later(S, x)) \in Nat
      BY <3>3, <3>4, FS_CardinalityType
    <3> QED BY <2>1, <3>1, <3>4, <3>5
  <2>9. Page(Ids(S), start, limit) = Page(Ids(Wanted(scope)), start, limit)
    BY <1>5, <2>7, <2>8, TopPage
  <2> QED BY <1>5, <2>6, <2>9
<1> QED BY <1>6, <1>7

(* All of them on one page. *)
LEMMA AllOnOnePage ==
  ASSUME QInv, NEW scope \in Scopes
  PROVE  Page(Ids(Wanted(scope)), 0, Cardinality(Item)) = Ids(Wanted(scope))
<1>1. Seeded(Wanted(scope)) /\ Cardinality(Wanted(scope)) <= Cardinality(Item)
  BY ResumeIs, 1 \in Nat \ {0}, 0 \in Nat
<1>2. Ids(Wanted(scope)) \in Seq(Item) /\ Len(Ids(Wanted(scope))) <= Cardinality(Item) /\ Cardinality(Item) \in Nat
  BY <1>1, SeedsListed, ShelfAssumption, FS_CardinalityType
<1> QED BY <1>2, WholePage

(* "Top K is exact": the chunks of series and the page of films that
   resume_frontier_episodes and resume_movies take are enough for any page of
   any scope. *)
THEOREM ResumeIsExactAlways == Spec => []ResumeIsExact
<1>1. QInv => ResumeIsExact
  <2> SUFFICES ASSUME QInv, NEW scope \in Scopes, NEW limit \in 1 .. MaxLimit, NEW start \in 0 .. MaxLimit - 1
               PROVE  ListResume(scope, limit, start)
                        = Page(Page(Ids(Wanted(scope)), 0, Cardinality(Item)), start, limit)
    BY DEF ResumeIsExact
  <2>1. limit \in Nat \ {0} /\ start \in Nat
    BY ShelfAssumption
  <2> QED BY <2>1, ResumeIs, AllOnOnePage
<1> QED BY <1>1, QueryInv, PTL DEF Spec

-----------------------------------------------------------------------------
(* Sessions.                                                               *)

(* The whole of Resume has every seed that is wanted. *)
LEMMA ResumedIs ==
  ASSUME QInv, Item # {}, NEW scope \in Scopes
  PROVE  /\ ListResume(scope, Cardinality(Item), 0) = Ids(Wanted(scope))
         /\ \A i : i \in Range(ListResume(scope, Cardinality(Item), 0)) <=> \E x \in Wanted(scope) : x.id = i
<1>1. Cardinality(Item) \in Nat \ {0} /\ 0 \in Nat
  BY ShelfAssumption, FS_CardinalityType, FS_EmptySet
<1>2. ListResume(scope, Cardinality(Item), 0) = Ids(Wanted(scope)) /\ Seeded(Wanted(scope))
  BY <1>1, ResumeIs, AllOnOnePage
<1> QED BY <1>2, SeedsListed

LEMMA AllIsScope == All \in Scopes /\ All.kind = "All" /\ All.kind \in Kinds4
  BY DEF All, Scopes, Kinds4

LEMMA MovieShown ==
  ASSUME QInv, NEW i \in Of("movie"), Started(i), Unplayed(i)
  PROVE  \E x \in Wanted(All) : x.id = i
<1>1. i \in OpenMovies(All)
  BY DEF OpenMovies, All
<1>2. PICK x : x = [id |-> i, recency |-> Recent(i)]
  OBVIOUS
<1>3. x \in Films(OpenMovies(All)) /\ x.id = i
  BY <1>1, <1>2 DEF Films
<1> QED BY <1>3, AllIsScope, WantedIs

(* The episode used last of a series is the one to resume, if it is unplayed. *)
LEMMA LastUsedShown ==
  ASSUME QInv, NEW i \in Of("episode"), Started(i), Unplayed(i),
         i = Newest({e \in Episodes : Series(e) = Series(i) /\ Started(e)})
  PROVE  \E x \in Wanted(All) : x.id = i
<1>1. PICK s, G : s = Series(i) /\ G = Group(s, All)
  OBVIOUS
<1>2. G = {e \in Episodes : Series(e) = s}
  BY <1>1 DEF Group, All
<1>3. i \in Episodes /\ i \in G
  BY <1>1, <1>2, OnShelf
<1>4. Used(G) = {e \in Episodes : Series(e) = Series(i) /\ Started(e)}
  BY <1>1, <1>2 DEF Used
<1>5. i = Newest(Used(G))
  BY <1>4
<1>6. s \in Watched(All)
  BY <1>1, <1>3 DEF Watched, InScope, All
<1>7. i \in Lead(G) /\ i \in Used(G)
  BY <1>2, <1>3, <1>5, InARow DEF Lead, Used
<1>8. Shows(G)
  BY <1>7 DEF Shows
<1>9. /\ SeedOf(G).id \in G /\ \A f \in Lead(G) : NotBefore(SeedOf(G).id, f)
      /\ SeedOf(G).id = FirstOf(Lead(G)) /\ FirstOf(Lead(G)) \in Lead(G)
  <2>1. Lead(G) \in SUBSET {e \in Episodes : Series(e) = s}
    BY <1>2 DEF Lead
  <2> QED BY <1>2, <1>7, <1>8, <2>1, SeedIs, FirstIs DEF SeedOf
<1>10. NotBefore(SeedOf(G).id, i) /\ NotBefore(i, SeedOf(G).id)
  BY <1>5, <1>7, <1>9 DEF Lead
<1>11. SeedOf(G).id = i
  BY <1>2, <1>3, <1>9, <1>10, InARow
<1>12. SeedOf(G) \in Frontier(All)
  BY <1>1, <1>6, <1>8, RepsIs DEF Frontier
<1> QED BY <1>11, <1>12, AllIsScope, WantedIs

(* What list_active_sessions shows as being watched, list_resume offers: the
   film itself, of a series the episode used last. *)
THEOREM SessionsAgreeAlways == Spec => []SessionsAgree
<1>1. QInv => SessionsAgree
  <2> SUFFICES ASSUME QInv, NEW i \in ActiveSessions,
                      \/ Row[i].type = "movie"
                      \/ i = Newest({e \in Episodes : Series(e) = Series(i) /\ Started(e)})
               PROVE  i \in Range(ListResume(All, Cardinality(Item), 0))
    BY DEF SessionsAgree
  <2>1. i \in Of("movie") \cup Of("episode") /\ Started(i) /\ Unplayed(i)
    BY DEF ActiveSessions
  <2>2. Item # {} /\ (Row[i].type = "movie" => i \in Of("movie"))
    <3>1. "movie" \in Types /\ "episode" \in Types
      BY DEF Types
    <3> QED BY <2>1, <3>1, OnShelf
  <2>3. \E x \in Wanted(All) : x.id = i
    <3>1. CASE i \in Of("movie")
      BY <2>1, <3>1, MovieShown
    <3>2. CASE i \in Of("episode") /\ i \notin Of("movie")
      BY <2>1, <2>2, <3>2, LastUsedShown
    <3> QED BY <2>1, <3>1, <3>2
  <2> QED BY <2>2, <2>3, AllIsScope, ResumedIs
<1> QED BY <1>1, QueryInv, PTL DEF Spec

-----------------------------------------------------------------------------
(* Browsing.                                                               *)

LEMMA SortedRange ==
  ASSUME NEW S, IsFiniteSet(S), NEW before, StrictOrder(S, before)
  PROVE  /\ Range(Sorted(S, before)) = S
         /\ S \in SUBSET Item => Range(Page(Sorted(S, before), 0, Cardinality(Item))) = S
<1>1. PICK s, n : s = Sorted(S, before) /\ n = Cardinality(S)
  OBVIOUS
<1>2. s \in [1 .. n -> S] /\ s \in Seq(S) /\ Len(s) = n /\ n \in Nat
  BY ONLY SMTT(30), <1>1, IsFiniteSet(S), StrictOrder(S, before), SortedList
<1>3. \A x \in S : \E k \in 1 .. n : s[k] = x
  BY ONLY SMTT(30), <1>1, IsFiniteSet(S), StrictOrder(S, before), SortedList
<1>4. Range(s) = S
  BY <1>2, <1>3 DEF Range
<1>5. ASSUME S \in SUBSET Item PROVE Page(s, 0, Cardinality(Item)) = s
  <2>1. n <= Cardinality(Item) /\ Cardinality(Item) \in Nat
    BY <1>1, <1>5, ShelfAssumption, FS_Subset, FS_CardinalityType
  <2> QED BY <1>2, <2>1, WholePage
<1> QED BY <1>1, <1>4, <1>5

LEMMA TitleRange ==
  ASSUME NEW S \in SUBSET Item
  PROVE  Range(ByTitle(S)) = S /\ Range(Page(ByTitle(S), 0, Cardinality(Item))) = S
<1>1. PICK before : before = [x \in S |-> {y \in S : y < x}]
  OBVIOUS
<1>2. \A x \in S : before[x] \in SUBSET S /\ x \in Nat
  BY <1>1, UserDataAssumption
<1>3. \A x, y \in S : x \in before[y] <=> x < y
  BY <1>1
<1>4. StrictOrder(S, before)
  BY <1>2, <1>3 DEF StrictOrder
<1>5. IsFiniteSet(S) /\ ByTitle(S) = Sorted(S, before)
  BY <1>1, ShelfAssumption, FS_Subset DEF ByTitle
<1> QED BY <1>4, <1>5, SortedRange

LEMMA LatestRange ==
  ASSUME NEW S \in SUBSET Item
  PROVE  Range(Page(ByTime(S, [i \in S |-> i]), 0, Cardinality(Item))) = S
<1>1. PICK time, before : time = [i \in S |-> i] /\ before = [x \in S |-> {y \in S : time[y] > time[x]}]
  OBVIOUS
<1>2. \A x \in S : before[x] \in SUBSET S /\ x \in Nat
  BY <1>1, UserDataAssumption
<1>3. \A x, y \in S : x \in before[y] <=> x > y
  BY <1>1
<1>4. StrictOrder(S, before)
  BY <1>2, <1>3 DEF StrictOrder
<1>5. IsFiniteSet(S) /\ ByTime(S, time) = Sorted(S, before)
  BY <1>1, ShelfAssumption, FS_Subset DEF ByTime
<1> QED BY <1>1, <1>4, <1>5, SortedRange

(* Siblings are listed by their numbers. *)
LEMMA NumberRange ==
  ASSUME NEW S \in SUBSET Item, NEW p \in Item, \A i \in S : Row[i].parent = p
  PROVE  Range(ByNumber(S)) = S
<1>1. PICK before : before = [x \in S |-> {y \in S : Row[y].no < Row[x].no}]
  OBVIOUS
<1>2. \A x \in S : before[x] \in SUBSET S /\ Row[x].no \in Nat
  BY <1>1, ShelfAssumption
<1>3. \A x, y \in S : x \in before[y] <=> Row[x].no < Row[y].no
  BY <1>1
<1>4. \A x, y \in S : Row[x].no = Row[y].no => x = y
  BY UserDataAssumption, ShelfAssumption
<1>5. StrictOrder(S, before)
  BY <1>2, <1>3, <1>4 DEF StrictOrder
<1>6. IsFiniteSet(S) /\ ByNumber(S) = Sorted(S, before)
  BY <1>1, ShelfAssumption, FS_Subset DEF ByNumber
<1> QED BY <1>5, <1>6, SortedRange

(* What opening an item lists. *)
LEMMA OpenIs ==
  ASSUME QInv, NEW i \in Item
  PROVE  Range(UsersItems([Query EXCEPT !.parent = i])) =
           {j \in items : Row[j].parent = i /\ i \in items /\ Row[j].type \in {"season", "episode"}}
<1>1. UsersItems([Query EXCEPT !.parent = i]) = Children(i)
  <2>1. i # 0
    BY UserDataAssumption
  <2> QED BY <2>1 DEF UsersItems, Query
<1>2. /\ \A j : j \in Of("season") <=> j \in items /\ Row[j].type = "season"
      /\ \A j : j \in Of("episode") <=> j \in items /\ Row[j].type = "episode"
      /\ items \in SUBSET Item
  <2>1. "season" \in Types /\ "episode" \in Types
    BY DEF Types
  <2> QED BY <2>1, OnShelf
<1>3. \A j \in items : /\ Row[j].parent = i /\ Row[j].type = "season" => Row[i].type = "series"
                       /\ Row[j].parent = i /\ Row[j].type = "episode" => Row[i].type = "season"
  BY <1>2, ShelfAssumption
<1>4. Range(<<>>) = {}
  BY DEF Range
<1>5. CASE i \notin items
  BY <1>1, <1>4, <1>5 DEF Children
<1>6. CASE i \in items /\ Row[i].type = "series"
  <2>1. PICK S : S = {j \in Of("season") : Row[j].parent = i}
    OBVIOUS
  <2>2. Children(i) = ByNumber(S)
    BY <1>6, <2>1 DEF Children, ListSeasons
  <2>3. S \in SUBSET Item /\ \A j \in S : Row[j].parent = i
    BY <1>2, <2>1
  <2>4. Range(Children(i)) = S
    BY <2>2, <2>3, NumberRange
  <2> QED BY <1>1, <1>2, <1>3, <1>6, <2>1, <2>4
<1>7. CASE i \in items /\ Row[i].type = "season"
  <2>1. PICK S : S = {j \in Of("episode") : Row[j].parent = i}
    OBVIOUS
  <2>2. Children(i) = ByNumber(S)
    BY <1>7, <2>1 DEF Children, ListEpisodes
  <2>3. S \in SUBSET Item /\ \A j \in S : Row[j].parent = i
    BY <1>2, <2>1
  <2>4. Range(Children(i)) = S
    BY <2>2, <2>3, NumberRange
  <2> QED BY <1>1, <1>2, <1>3, <1>7, <2>1, <2>4
<1>8. CASE i \in items /\ Row[i].type \notin {"series", "season"}
  <2>1. Children(i) = <<>>
    BY <1>8 DEF Children
  <2> QED BY <1>1, <1>3, <1>4, <1>8, <2>1
<1> QED BY <1>5, <1>6, <1>7, <1>8

(* What a library lists. *)
LEMMA TopsAre ==
  ASSUME QInv, NEW l \in Nat \ {0}
  PROVE  /\ Range(UsersItems([Query EXCEPT !.lib = l])) = {i \in items : Row[i].type \in {"movie", "series"} /\ Row[i].lib = l}
         /\ Range(ListLatest(l, Cardinality(Item))) = {i \in items : Row[i].type \in {"movie", "series"} /\ Row[i].lib = l}
<1>1. PICK S : S = {i \in items : Row[i].type \in {"movie", "series"} /\ Row[i].lib = l}
  OBVIOUS
<1>2. S \in SUBSET Item
  BY <1>1, OnShelf
<1>3. UsersItems([Query EXCEPT !.lib = l]) = Page(ListMoviesSeries(l, NoTerm, {}, "any"), 0, Cardinality(Item))
  <2>1. PICK q : q = [Query EXCEPT !.lib = l]
    OBVIOUS
  <2>2. /\ q.parent = 0 /\ ~q.favorite /\ q.ids = {} /\ q.genres = {} /\ q.search = NoTerm /\ q.lib = l
        /\ q.types = {} /\ q.played = "any" /\ q.start = 0 /\ q.limit = Cardinality(Item)
    BY <2>1 DEF Query
  <2>3. "series" \notin q.types
    BY <2>2
  <2> QED BY <2>1, <2>2, <2>3 DEF UsersItems
<1>4. ListMoviesSeries(l, NoTerm, {}, "any") = ByTitle(S)
  <2>1. \A i : MatchesPlayed(i, "any")
    BY DEF MatchesPlayed
  <2> QED BY <1>1, <2>1 DEF ListMoviesSeries
<1>5. ListLatest(l, Cardinality(Item)) = Page(ByTime(S, [i \in S |-> i]), 0, Cardinality(Item))
  <2>1. {i \in Of("movie") \cup Of("series") : l # 0 => Row[i].lib = l} = S
    <3>1. "movie" \in Types /\ "series" \in Types
      BY DEF Types
    <3> QED BY <1>1, <3>1, OnShelf
  <2> QED BY <2>1 DEF ListLatest
<1> QED BY <1>1, <1>2, <1>3, <1>4, <1>5, TitleRange, LatestRange

(* Opening the lists of users_items one after the other reaches every item of a
   library and no other, and list_latest offers the same titles, whatever was
   deleted. *)
THEOREM EverythingReachedAlways == Spec => []EverythingReached
<1>1. QInv => EverythingReached
  <2> SUFFICES ASSUME QInv, NEW l \in Libraries
               PROVE  LET tops == Range(UsersItems([Query EXCEPT !.lib = l]))
                          Inside(S) == UNION {Range(UsersItems([Query EXCEPT !.parent = i])) : i \in S}
                      IN /\ tops \cup Inside(tops) \cup Inside(Inside(tops)) = {i \in items : Row[i].lib = l}
                         /\ Range(ListLatest(l, Cardinality(Item))) = tops
    BY DEF EverythingReached
  <2> DEFINE Inside(S) == UNION {Range(UsersItems([Query EXCEPT !.parent = i])) : i \in S}
             Sub(S) == {j \in items : Row[j].parent \in S /\ Row[j].type \in {"season", "episode"}}
  <2>1. l \in Nat \ {0}
    BY ShelfAssumption DEF Libraries
  <2>2. PICK tops : /\ tops = {i \in items : Row[i].type \in {"movie", "series"} /\ Row[i].lib = l}
                    /\ tops = Range(UsersItems([Query EXCEPT !.lib = l]))
                    /\ tops = Range(ListLatest(l, Cardinality(Item)))
    BY <2>1, TopsAre
  <2>3. items \in SUBSET Item /\ Shelved
    BY OnShelf DEF QInv
  <2>4. ASSUME NEW S \in SUBSET items PROVE Inside(S) = Sub(S)
    <3>1. ASSUME NEW i \in S
          PROVE Range(UsersItems([Query EXCEPT !.parent = i])) = {j \in items : Row[j].parent = i /\ Row[j].type \in {"season", "episode"}}
      BY <2>3, OpenIs
    <3>2. \A x \in Inside(S) : x \in Sub(S)
      <4> SUFFICES ASSUME NEW i \in S, NEW x \in Range(UsersItems([Query EXCEPT !.parent = i]))
                   PROVE  x \in Sub(S)
        BY DEF Inside
      <4> QED BY <3>1
    <3>3. \A x \in Sub(S) : x \in Inside(S)
      BY <3>1
    <3> HIDE DEF Inside, Sub
    <3> QED BY <3>2, <3>3
  <2>5. tops \in SUBSET items /\ Sub(tops) \in SUBSET items
    BY <2>2
  <2>6. tops \cup Sub(tops) \cup Sub(Sub(tops)) = {i \in items : Row[i].lib = l}
    <3>1. \A i \in items : /\ Row[i].type \in {"movie", "series"} \/ Row[i].type = "season" \/ Row[i].type = "episode"
                           /\ Row[i].type \in {"season", "episode"} =>
                                Row[i].parent \in items /\ Row[Row[i].parent].lib = Row[i].lib
                           /\ Row[i].type = "season" => Row[Row[i].parent].type = "series"
                           /\ Row[i].type = "episode" => Row[Row[i].parent].type = "season"
      BY <2>3, ShelfAssumption DEF Shelved, Types
    <3>2. \A i \in Sub(tops) : i \in items /\ Row[i].lib = l
      BY <2>2, <3>1
    <3>3. \A i \in Sub(Sub(tops)) : i \in items /\ Row[i].lib = l
      BY <3>1, <3>2
    <3>4. ASSUME NEW i \in items, Row[i].lib = l PROVE i \in tops \cup Sub(tops) \cup Sub(Sub(tops))
      <4>1. CASE Row[i].type \in {"movie", "series"}
        BY <2>2, <3>4, <4>1
      <4>2. CASE Row[i].type = "season"
        BY <2>2, <3>1, <3>4, <4>2
      <4>3. CASE Row[i].type = "episode"
        <5>1. PICK p \in items : p = Row[i].parent /\ Row[p].lib = l /\ Row[p].type = "season"
          BY <3>1, <3>4, <4>3
        <5>2. p \in Sub(tops)
          BY <2>2, <3>1, <5>1
        <5> QED BY <4>3, <5>1, <5>2
      <4> QED BY <3>1, <3>4, <4>1, <4>2, <4>3
    <3> HIDE DEF Sub
    <3> QED BY <2>2, <3>2, <3>3, <3>4
  <2>7. Inside(tops) = Sub(tops) /\ Inside(Inside(tops)) = Sub(Sub(tops))
    <3>1. Inside(tops) = Sub(tops)
      BY <2>4, <2>5
    <3> HIDE DEF Inside, Sub
    <3> QED BY <2>4, <2>5, <3>1
  <2> HIDE DEF Inside, Sub
  <2>8. tops \cup Inside(tops) \cup Inside(Inside(tops)) = {i \in items : Row[i].lib = l}
    BY <2>6, <2>7
  <2> QED BY <2>2, <2>8 DEF Inside
<1> QED BY <1>1, QueryInv, PTL DEF Spec

-----------------------------------------------------------------------------
(* Counts.                                                                 *)

Pairs(count) == UNION {{x} \X (1 .. count[x]) : x \in DOMAIN count}

(* A set is as large as its parts together: numbering every part pairs its
   members with the part and the number. *)
LEMMA SumOfParts ==
  ASSUME NEW E, IsFiniteSet(E), NEW X, NEW part \in [E -> X], NEW count, DOMAIN count = X,
         \A x \in X : count[x] = Cardinality({e \in E : part[e] = x})
  PROVE  Cardinality(Pairs(count)) = Cardinality(E)
<1> DEFINE P(x) == {e \in E : part[e] = x}
           U == Pairs(count)
           number == [x \in X |-> CHOOSE f \in [1 .. count[x] -> P(x)] : f \in Bijection(1 .. count[x], P(x))]
           h == [p \in U |-> number[p[1]][p[2]]]
<1>1. ASSUME NEW x \in X
      PROVE  /\ \A k \in 1 .. count[x] : number[x][k] \in P(x)
             /\ \A j, k \in 1 .. count[x] : number[x][j] = number[x][k] => j = k
             /\ \A e \in P(x) : \E k \in 1 .. count[x] : number[x][k] = e
  <2>1. PICK S, n : S = P(x) /\ n = count[x]
    OBVIOUS
  <2>2. S \in SUBSET E /\ n = Cardinality(S)
    BY <2>1
  <2>3. ExistsBijection(1 .. n, S)
    BY <2>2, FS_Subset, FS_CardinalityType
  <2>4. \E f \in [1 .. n -> S] : f \in Bijection(1 .. n, S)
    BY <2>3 DEF ExistsBijection, Bijection, Injection
  <2>5. number[x] = CHOOSE f \in [1 .. n -> S] : f \in Bijection(1 .. n, S)
    BY <2>1
  <2> HIDE DEF number
  <2>6. number[x] \in [1 .. n -> S] /\ number[x] \in Bijection(1 .. n, S)
    BY <2>4, <2>5
  <2> QED BY <2>1, <2>6 DEF Bijection, Injection, IsInjective, Surjection
<1>2. \A p : p \in U <=> \E x \in X : \E k \in 1 .. count[x] : p = <<x, k>>
  BY DEF Pairs
<1> HIDE DEF U
<1>3. \A x \in X : \A k \in 1 .. count[x] : h[<<x, k>>] = number[x][k]
  BY <1>2
<1> HIDE DEF number
<1>4. h = [p \in U |-> h[p]]
  OBVIOUS
<1> HIDE DEF h
<1>5. \A p \in U : h[p] \in E
  <2> SUFFICES ASSUME NEW x \in X, NEW k \in 1 .. count[x] PROVE h[<<x, k>>] \in E
    BY <1>2
  <2>1. number[x][k] \in P(x)
    <3> HIDE DEF P
    <3> QED BY <1>1
  <2> QED BY <1>3, <2>1
<1>6. h \in [U -> E]
  BY <1>4, <1>5
<1>7. ASSUME NEW p \in U, NEW q \in U, h[p] = h[q] PROVE p = q
  <2>1. PICK x, j : x \in X /\ j \in 1 .. count[x] /\ p = <<x, j>>
    BY <1>2
  <2>2. PICK y, k : y \in X /\ k \in 1 .. count[y] /\ q = <<y, k>>
    BY <1>2
  <2>3. number[x][j] \in P(x) /\ number[y][k] \in P(y) /\ number[x][j] = number[y][k]
    <3>1. number[x][j] \in P(x) /\ number[y][k] \in P(y)
      <4> HIDE DEF P
      <4> QED BY <1>1, <2>1, <2>2
    <3>2. h[p] = number[x][j] /\ h[q] = number[y][k]
      BY <1>3, <2>1, <2>2
    <3> QED BY <1>7, <3>1, <3>2
  <2>4. x = y
    BY <2>3
  <2> QED BY <1>1, <2>1, <2>2, <2>3, <2>4
<1>8. ASSUME NEW e \in E PROVE \E p \in U : h[p] = e
  <2>1. PICK x \in X : e \in P(x)
    OBVIOUS
  <2>2. PICK k \in 1 .. count[x] : number[x][k] = e
    BY <1>1, <2>1
  <2>3. <<x, k>> \in U
    BY <1>2
  <2> QED BY <1>3, <2>2, <2>3
<1>9. h \in Injection(U, E)
  BY <1>6, <1>7 DEF Injection, IsInjective
<1>10. h \in Surjection(U, E)
  BY <1>6, <1>8 DEF Surjection
<1>11. Cardinality(U) = Cardinality(E)
  BY <1>9, <1>10, FS_Injection
<1> QED BY <1>11 DEF U

(* The numbers child_counts_batch gives a series are the sums of those of its
   seasons, and a series with an episode to resume has something unplayed. *)
THEOREM CountsAgreeAlways == Spec => []CountsAgree
<1>1. QInv => CountsAgree
  <2> SUFFICES ASSUME QInv, NEW s \in Of("series")
               PROVE  LET seasons == Range(ListSeasons(s))
                      IN /\ SeriesCounts(s).total = Cardinality(Pairs([x \in seasons |-> SeasonCounts(x).total]))
                         /\ SeriesCounts(s).unplayed = Cardinality(Pairs([x \in seasons |-> SeasonCounts(x).unplayed]))
                         /\ ListResume([kind |-> "Series", id |-> s], 1, 0) # <<>> => SeriesCounts(s).unplayed > 0
    BY DEF CountsAgree, Pairs
  <2>1. s \in Item /\ Row[s].type = "series"
    <3>1. "series" \in Types
      BY DEF Types
    <3> QED BY <3>1, OnShelf
  <2>2. PICK X : X = {j \in Of("season") : Row[j].parent = s}
    OBVIOUS
  <2>3. Range(ListSeasons(s)) = X
    <3>1. X \in SUBSET Item /\ \A j \in X : Row[j].parent = s
      BY <2>2, OnShelf DEF Of
    <3> QED BY <2>1, <2>2, <3>1, NumberRange DEF ListSeasons
  <2>4. PICK E, U : E = {e \in Episodes : Series(e) = s} /\ U = {e \in E : Unplayed(e)}
    OBVIOUS
  <2>5. IsFiniteSet(E) /\ IsFiniteSet(U)
    <3>1. E \in SUBSET Item /\ U \in SUBSET Item
      BY <2>4, OnShelf
    <3> QED BY <3>1, ShelfAssumption, FS_Subset
  <2>6. SeriesCounts(s) = [total |-> Cardinality(E), unplayed |-> Cardinality(U)]
    BY <2>4 DEF SeriesCounts, EpisodeCounts
  <2>7. \A e \in E : Season(e) \in X
    BY <2>2, <2>4, OnShelf
  <2>8. ASSUME NEW x \in X
        PROVE  /\ SeasonCounts(x).total = Cardinality({e \in E : Season(e) = x})
               /\ SeasonCounts(x).unplayed = Cardinality({e \in U : Season(e) = x})
    <3>1. PICK P : P = {e \in Of("episode") : Season(e) = x}
      OBVIOUS
    <3>2. P = {e \in E : Season(e) = x}
      BY <2>2, <2>4, <3>1, OnShelf
    <3>3. {e \in P : Unplayed(e)} = {e \in U : Season(e) = x}
      BY <2>4, <3>2
    <3> QED BY <3>1, <3>2, <3>3 DEF SeasonCounts, EpisodeCounts
  <2>9. Cardinality(Pairs([x \in X |-> SeasonCounts(x).total])) = Cardinality(E)
    <3>1. PICK part, count : part = [e \in E |-> Season(e)] /\ count = [x \in X |-> SeasonCounts(x).total]
      OBVIOUS
    <3>2. part \in [E -> X] /\ DOMAIN count = X
      BY <2>7, <3>1
    <3>3. \A x \in X : count[x] = Cardinality({e \in E : part[e] = x})
      <4> SUFFICES ASSUME NEW x \in X PROVE count[x] = Cardinality({e \in E : part[e] = x})
        OBVIOUS
      <4>1. {e \in E : part[e] = x} = {e \in E : Season(e) = x}
        BY <3>1
      <4> QED BY <2>8, <3>1, <4>1
    <3>4. Cardinality(Pairs(count)) = Cardinality(E)
      BY ONLY SMTT(30), <2>5, <3>2, <3>3, SumOfParts
    <3> QED BY <3>1, <3>4
  <2>10. Cardinality(Pairs([x \in X |-> SeasonCounts(x).unplayed])) = Cardinality(U)
    <3>1. PICK part, count : part = [e \in U |-> Season(e)] /\ count = [x \in X |-> SeasonCounts(x).unplayed]
      OBVIOUS
    <3>2. part \in [U -> X] /\ DOMAIN count = X
      BY <2>4, <2>7, <3>1
    <3>3. \A x \in X : count[x] = Cardinality({e \in U : part[e] = x})
      <4> SUFFICES ASSUME NEW x \in X PROVE count[x] = Cardinality({e \in U : part[e] = x})
        OBVIOUS
      <4>1. {e \in U : part[e] = x} = {e \in U : Season(e) = x}
        BY <3>1
      <4> QED BY <2>8, <3>1, <4>1
    <3>4. Cardinality(Pairs(count)) = Cardinality(U)
      BY ONLY SMTT(30), <2>5, <3>2, <3>3, SumOfParts
    <3> QED BY <3>1, <3>4
  <2>11. ASSUME ListResume([kind |-> "Series", id |-> s], 1, 0) # <<>> PROVE Cardinality(U) > 0
    <3>1. PICK scope \in Scopes : scope = [kind |-> "Series", id |-> s]
      BY <2>1 DEF Scopes
    <3>2. scope.kind = "Series" /\ scope.id = s /\ scope.kind \in Kinds4
      BY <3>1 DEF Kinds4
    <3>3. ListResume(scope, 1, 0) = Page(Ids(Wanted(scope)), 0, 1) /\ Seeded(Wanted(scope))
      BY ResumeIs, 1 \in Nat \ {0}, 0 \in Nat
    <3>4. Wanted(scope) # {}
      <4> SUFFICES ASSUME Wanted(scope) = {} PROVE FALSE
        OBVIOUS
      <4>1. Len(Ids(Wanted(scope))) = 0
        BY <3>3, SeedsListed, FS_EmptySet
      <4>2. Page(Ids(Wanted(scope)), 0, 1) = SubSeq(Ids(Wanted(scope)), 1, 0)
        BY <4>1 DEF Page
      <4>3. SubSeq(Ids(Wanted(scope)), 1, 0) = <<>>
        BY SubSeqEmpty, 1 \in Int, 0 \in Int, 0 < 1
      <4> QED BY <2>11, <3>1, <3>3, <4>2, <4>3
    <3>5. PICK t, x : t \in Watched(scope) /\ x \in Reps(t, scope)
      BY <3>2, <3>4, WantedIs DEF Frontier
    <3>6. t = s
      <4>1. PICK e \in Episodes : InScope(e, scope) /\ t = Series(e)
        BY <3>5 DEF Watched
      <4>2. InScope(e, scope) <=> Series(e) = scope.id
        BY <3>2 DEF InScope
      <4> QED BY <3>2, <4>1, <4>2
    <3>7. x = SeedOf(Group(s, scope)) /\ Shows(Group(s, scope))
      BY <3>5, <3>6, RepsIs
    <3>8. Group(s, scope) \in SUBSET {e \in Episodes : Series(e) = s}
      BY DEF Group
    <3>9. x.id \in U
      BY <2>4, <3>7, <3>8, SeedIs
    <3>10. Cardinality(U) \in Nat /\ Cardinality(U) # 0
      BY <2>5, <3>9, FS_CardinalityType, FS_EmptySet
    <3> QED BY <3>10
  <2> QED BY <2>3, <2>6, <2>9, <2>10, <2>11
<1> QED BY <1>1, QueryInv, PTL DEF Spec

-----------------------------------------------------------------------------
(* NextUp.                                                                 *)

Places(seq, S) == {k \in DOMAIN seq : seq[k] \in S}

(* A list without ties has a place for every member of a part. *)
LEMMA EveryPlace ==
  ASSUME NEW W, NEW time, Untied(W, time), NEW S \in SUBSET W
  PROVE  IsFiniteSet(Places(ByTime(W, time), S)) /\ Cardinality(Places(ByTime(W, time), S)) = Cardinality(S)
<1>1. PICK w, n : w = ByTime(W, time) /\ n = Cardinality(W)
  OBVIOUS
<1>2. w \in [1 .. n -> W] /\ n \in Nat
  BY ONLY SMTT(30), <1>1, Untied(W, time), TimeList
<1>3. \A x \in W : \E k \in 1 .. n : w[k] = x
  BY ONLY SMTT(30), <1>1, Untied(W, time), TimeList
<1>4. \A j, k \in 1 .. n : w[j] = w[k] => j = k
  <2> SUFFICES ASSUME NEW j \in 1 .. n, NEW k \in 1 .. n, w[j] = w[k] PROVE j = k
    OBVIOUS
  <2>1. time[w[j]] \in Int
    BY <1>2 DEF Untied
  <2>2. ~(j < k)
    BY <1>1, <2>1, TimeOrder
  <2>3. ~(k < j)
    BY <1>1, <2>1, TimeOrder
  <2> QED BY <1>2, <2>2, <2>3
<1>5. PICK P : P = Places(w, S)
  OBVIOUS
<1>6. P = {k \in 1 .. n : w[k] \in S}
  BY <1>2, <1>5 DEF Places
<1>7. IsFiniteSet(P)
  <2>1. P \in SUBSET (1 .. n) /\ IsFiniteSet(1 .. n)
    BY <1>2, <1>6, FS_Interval
  <2> QED BY <2>1, FS_Subset
<1>8. PICK g : g = [k \in P |-> w[k]]
  OBVIOUS
<1>9. g \in [P -> S] /\ \A k \in P : g[k] = w[k]
  BY <1>6, <1>8
<1>10. g \in Injection(P, S) /\ g \in Surjection(P, S)
  <2>1. \A j, k \in P : g[j] = g[k] => j = k
    BY <1>4, <1>6, <1>9
  <2>2. \A x \in S : \E k \in P : g[k] = x
    BY <1>3, <1>6, <1>9
  <2> QED BY <1>9, <2>1, <2>2 DEF Injection, IsInjective, Surjection
<1>11. Cardinality(P) = Cardinality(S)
  BY <1>7, <1>10, FS_Surjection
<1> QED BY <1>1, <1>5, <1>7, <1>11

(* Places are in the order of their numbers. *)
LEMMA NumberList ==
  ASSUME NEW P, IsFiniteSet(P), P \subseteq Nat
  PROVE  /\ ByTitle(P) \in [1 .. Cardinality(P) -> P] /\ Cardinality(P) \in Nat
         /\ \A k \in 1 .. Cardinality(P) : Cardinality({j \in P : j < ByTitle(P)[k]}) = k - 1
<1>1. PICK before : before = [x \in P |-> {y \in P : y < x}]
  OBVIOUS
<1>2. \A x \in P : before[x] \in SUBSET P /\ x \in Nat
  BY <1>1
<1>3. \A x, y \in P : x \in before[y] <=> x < y
  BY <1>1
<1>4. StrictOrder(P, before)
  BY <1>2, <1>3 DEF StrictOrder
<1>5. PICK s, n : s = ByTitle(P) /\ n = Cardinality(P)
  OBVIOUS
<1>6. s = Sorted(P, before)
  BY <1>1, <1>5 DEF ByTitle
<1>7. s \in [1 .. n -> P] /\ n \in Nat
  BY ONLY SMTT(30), <1>4, <1>5, <1>6, IsFiniteSet(P), SortedList
<1>8. \A k \in 1 .. n : Cardinality(before[s[k]]) = k - 1
  BY ONLY SMTT(30), <1>4, <1>5, <1>6, IsFiniteSet(P), SortedList
<1>9. \A k \in 1 .. n : before[s[k]] = {j \in P : j < s[k]}
  BY <1>1, <1>7
<1> QED BY <1>5, <1>7, <1>8, <1>9

(* What a list shows of a part is the list of the part. *)
LEMMA PartOfList ==
  ASSUME NEW W, NEW time, Untied(W, time), NEW S \in SUBSET W, NEW part, \A x \in S : part[x] = time[x],
         NEW P, P = Places(ByTime(W, time), S)
  PROVE  /\ ByTitle(P) \in [1 .. Cardinality(S) -> P] /\ Untied(S, part)
         /\ \A k \in 1 .. Cardinality(S) : ByTime(W, time)[ByTitle(P)[k]] = ByTime(S, part)[k]
<1>1. PICK w, n : w = ByTime(W, time) /\ n = Cardinality(W)
  OBVIOUS
<1>2. w \in [1 .. n -> W] /\ n \in Nat
  BY ONLY SMTT(30), <1>1, Untied(W, time), TimeList
<1>3. P = {k \in 1 .. n : w[k] \in S} /\ P \subseteq Nat
  BY <1>1, <1>2 DEF Places
<1>4. IsFiniteSet(P) /\ Cardinality(P) = Cardinality(S)
  BY EveryPlace
<1>5. Untied(S, part)
  BY FS_Subset DEF Untied
<1>6. PICK p, f, m : p = ByTitle(P) /\ f = ByTime(S, part) /\ m = Cardinality(S)
  OBVIOUS
<1>7. p \in [1 .. m -> P] /\ m \in Nat /\ \A k \in 1 .. m : Cardinality({j \in P : j < p[k]}) = k - 1
  <2>1. IsFiniteSet(P) /\ P \subseteq Nat /\ p = ByTitle(P) /\ m = Cardinality(P)
    BY <1>3, <1>4, <1>6
  <2>2. p \in [1 .. m -> P] /\ m \in Nat
    BY ONLY <2>1, NumberList
  <2>3. \A k \in 1 .. m : Cardinality({j \in P : j < p[k]}) = k - 1
    BY ONLY <2>1, NumberList
  <2> QED BY <2>2, <2>3
<1>8. f \in [1 .. m -> S] /\ \A k \in 1 .. m : Cardinality(Newer(S, part, f[k])) = k - 1
  BY ONLY SMTT(30), <1>5, <1>6, TimeList
<1>9. \A x \in S : \E k \in 1 .. m : f[k] = x
  BY ONLY SMTT(30), <1>5, <1>6, TimeList
<1>10. ASSUME NEW k \in 1 .. m PROVE w[p[k]] = f[k]
  <2>1. PICK i \in P : i = p[k]
    BY <1>7
  <2>2. i \in 1 .. n /\ w[i] \in S
    BY <1>3
  <2>3. PICK T : T = Newer(S, part, w[i])
    OBVIOUS
  <2>4. T \in SUBSET W /\ T \in SUBSET S
    BY <2>3 DEF Newer
  <2>5. ASSUME NEW j \in P PROVE w[j] \in T <=> j < i
    <3>1. j \in 1 .. n /\ w[j] \in S
      BY <1>3
    <3>2. time[w[j]] \in Int /\ time[w[i]] \in Int /\ part[w[j]] = time[w[j]] /\ part[w[i]] = time[w[i]]
      BY <2>2, <3>1 DEF Untied
    <3>3. j < i => time[w[j]] > time[w[i]]
      BY ONLY SMTT(30), <1>1, <2>2, <3>1, Untied(W, time), TimeOrder
    <3>4. i < j => time[w[i]] > time[w[j]]
      BY ONLY SMTT(30), <1>1, <2>2, <3>1, Untied(W, time), TimeOrder
    <3>5. w[j] \in T <=> time[w[j]] > time[w[i]]
      BY <2>3, <3>1, <3>2 DEF Newer
    <3>6. j \in Int /\ i \in Int
      BY <1>3
    <3>7. CASE i = j
      <4>1. w[j] = w[i] /\ ~(j < i)
        BY <3>6, <3>7
      <4>2. ~(time[w[j]] > time[w[i]])
        BY <3>2, <4>1
      <4> QED BY <3>5, <4>1, <4>2
    <3> QED BY <3>2, <3>3, <3>4, <3>5, <3>6, <3>7
  <2>6. Places(w, T) = {j \in P : j < i}
    BY <1>2, <1>3, <2>4, <2>5 DEF Places
  <2>7. Cardinality(T) = k - 1
    <3>1. Cardinality(Places(w, T)) = Cardinality(T)
      BY <1>1, <2>4, EveryPlace
    <3> QED BY <1>7, <2>1, <2>6, <3>1
  <2>8. PICK l \in 1 .. m : f[l] = w[i]
    BY <1>9, <2>2
  <2>9. l - 1 = k - 1
    BY <1>8, <2>3, <2>7, <2>8
  <2> QED BY <2>1, <2>8, <2>9
<1> QED BY <1>1, <1>5, <1>6, <1>7, <1>10

(* Of all that Resume shows, the films are what is of no series. *)
LEMMA SeedsAreEpisodes ==
  ASSUME QInv
  PROVE  /\ Wanted(All) = Frontier(All) \cup Films(OpenMovies(All))
         /\ Seeded(Wanted(All)) /\ Seeded(Frontier(All))
         /\ Cardinality(Frontier(All)) <= Cardinality(Item)
         /\ \A x \in Frontier(All) : x.id \in Episodes /\ x.id \notin Of("movie")
         /\ \A x \in Wanted(All) \ Frontier(All) : x.id \in Of("movie")
<1>1. Wanted(All) = Frontier(All) \cup Films(OpenMovies(All))
  BY AllIsScope, WantedIs
<1>2. OpenMovies(All) \in SUBSET {m \in Of("movie") : Started(m)}
  BY DEF OpenMovies
<1>3. Seeded(Wanted(All))
  BY <1>1, <1>2, AllIsScope, AllSeeds
<1>4. Seeded(Frontier(All)) /\ Cardinality(Frontier(All)) <= Cardinality(Item)
  <2>1. {} \in SUBSET {m \in Of("movie") : Started(m)}
    OBVIOUS
  <2>2. Frontier(All) \cup Films({}) = Frontier(All)
    BY DEF Films
  <2>3. Seeded(Frontier(All) \cup Films({})) /\ Cardinality(Frontier(All) \cup Films({})) <= Cardinality(Item)
    BY <2>1, AllIsScope, AllSeeds
  <2> QED BY <2>2, <2>3
<1>5. ASSUME NEW x \in Frontier(All) PROVE x.id \in Episodes /\ x.id \notin Of("movie")
  <2>1. PICK s \in Watched(All) : x \in Reps(s, All)
    BY DEF Frontier
  <2>2. x = SeedOf(Group(s, All)) /\ Shows(Group(s, All))
    BY <2>1, RepsIs
  <2>3. Group(s, All) \in SUBSET {e \in Episodes : Series(e) = s}
    BY DEF Group
  <2>4. x.id \in Episodes
    BY <2>2, <2>3, SeedIs
  <2>5. "movie" \in Types /\ "episode" \in Types
    BY DEF Types
  <2>6. Row[x.id].type = "episode"
    BY <2>4, <2>5, OnShelf
  <2> QED BY <2>4, <2>5, <2>6, OnShelf
<1>6. \A x \in Films(OpenMovies(All)) : x.id \in Of("movie")
  BY DEF Films, OpenMovies
<1> QED BY <1>1, <1>3, <1>4, <1>5, <1>6

(* NextUp of all series is every seed of theirs. *)
LEMMA NextUpIs ==
  ASSUME QInv, Item # {}
  PROVE  ListNextUp(Cardinality(Item), 0) = Ids(Frontier(All))
<1>1. PICK n \in Nat \ {0} : n = Cardinality(Item) /\ n = 0 + n
  BY ShelfAssumption, FS_CardinalityType, FS_EmptySet
<1>2. PICK W : W = Frontier(All) /\ Seeded(W) /\ Cardinality(W) <= n
  BY <1>1, SeedsAreEpisodes
<1>3. PICK F : F = FrontierEpisodes(All, n)
  OBVIOUS
<1>4. F \in SUBSET W /\ \A x \in W \ F : n <= Cardinality(Later(F, x))
  BY <1>2, <1>3, AllIsScope, FrontierIsTop
<1>5. ListNextUp(n, 0) = Page(Ids(F), 0, n)
  BY <1>1, <1>3 DEF ListNextUp, All
<1>6. Page(Ids(F), 0, n) = Page(Ids(W), 0, n)
  BY <1>1, <1>2, <1>4, TopPage
<1>7. Page(Ids(W), 0, n) = Ids(W)
  BY <1>2, SeedsListed, WholePage
<1> QED BY <1>1, <1>2, <1>5, <1>6, <1>7

(* Resume without its films is the same list. *)
LEMMA WithoutFilms ==
  ASSUME QInv
  PROVE  Without(Of("movie"), Ids(Wanted(All))) = Ids(Frontier(All))
<1>1. PICK W, F, time, part : /\ W = Wanted(All) /\ F = Frontier(All)
                              /\ time = [x \in W |-> x.recency] /\ part = [x \in F |-> x.recency]
  OBVIOUS
<1>2. F \in SUBSET W /\ Untied(W, time) /\ \A x \in F : part[x] = time[x]
  <2>1. F \in SUBSET W /\ Seeded(W)
    BY <1>1, SeedsAreEpisodes
  <2> QED BY <1>1, <2>1 DEF Seeded, Untied
<1>3. PICK w, f, P, p, n, m : /\ w = ByTime(W, time) /\ f = ByTime(F, part) /\ P = Places(ByTime(W, time), F)
                              /\ p = ByTitle(P) /\ n = Cardinality(W) /\ m = Cardinality(F)
  OBVIOUS
<1>4. w \in [1 .. n -> W]
  BY ONLY SMTT(30), <1>2, <1>3, TimeList
<1>5. p \in [1 .. m -> P] /\ Untied(F, part)
  BY ONLY <1>2, <1>3, PartOfList
<1>6. \A k \in 1 .. m : w[p[k]] = f[k]
  BY ONLY <1>2, <1>3, PartOfList
<1>7. f \in [1 .. m -> F]
  BY ONLY SMTT(30), <1>3, <1>5, TimeList
<1>8. Ids(F) = [k \in 1 .. m |-> f[k].id]
  BY <1>1, <1>3, <1>7 DEF Ids
<1>9. PICK L : L = Ids(W) /\ L = [k \in 1 .. n |-> w[k].id]
  BY <1>1, <1>3, <1>4 DEF Ids
<1>10. P = {k \in DOMAIN L : L[k] \notin Of("movie")}
  <2>1. \A x \in W : x \in F <=> x.id \notin Of("movie")
    BY <1>1, SeedsAreEpisodes
  <2>2. DOMAIN L = 1 .. n /\ DOMAIN w = 1 .. n /\ \A k \in 1 .. n : L[k] = w[k].id /\ w[k] \in W
    BY <1>4, <1>9
  <2> QED BY <1>3, <2>1, <2>2 DEF Places
<1>11. Without(Of("movie"), L) = [j \in DOMAIN p |-> L[p[j]]]
  BY <1>3, <1>10 DEF Without
<1>12. \A j \in 1 .. m : L[p[j]] = f[j].id
  <2> SUFFICES ASSUME NEW j \in 1 .. m PROVE L[p[j]] = f[j].id
    OBVIOUS
  <2>1. p[j] \in 1 .. n
    BY <1>4, <1>3, <1>5 DEF Places
  <2> QED BY <1>6, <1>9, <2>1
<1>13. Without(Of("movie"), L) = [j \in 1 .. m |-> f[j].id]
  BY <1>5, <1>11, <1>12
<1> QED BY <1>1, <1>8, <1>9, <1>13

(* The first one of a sorted row. *)
LEMMA FirstPage ==
  ASSUME QInv, NEW s, NEW G \in SUBSET {e \in Episodes : Series(e) = s}
  PROVE  Range(Page(Sorted(G, [e \in G |-> {f \in G : ~NotBefore(e, f)}]), 0, 1))
           = IF G = {} THEN {} ELSE {FirstOf(G)}
<1>1. PICK before, q, n : /\ before = [e \in G |-> {f \in G : ~NotBefore(e, f)}]
                          /\ q = Sorted(G, before) /\ n = Cardinality(G)
  OBVIOUS
<1>2. StrictOrder(G, before) /\ IsFiniteSet(G)
  BY <1>1, RowOrder
<1>3. q \in Seq(G) /\ Len(q) = n /\ n \in Nat /\ \A k \in 1 .. n : Cardinality(before[q[k]]) = k - 1
  <2>1. q = Sorted(G, before) /\ n = Cardinality(G)
    BY <1>1
  <2>2. q \in Seq(G) /\ Len(q) = n /\ n \in Nat
    BY ONLY SMTT(30), <1>2, <2>1, SortedList
  <2>3. \A k \in 1 .. n : Cardinality(before[q[k]]) = k - 1
    BY ONLY SMTT(30), <1>2, <2>1, SortedList
  <2> QED BY <2>2, <2>3
<1>4. CASE G = {}
  <2>1. n = 0
    BY <1>1, <1>4, FS_EmptySet
  <2>2. Page(q, 0, 1) = SubSeq(q, 1, 0)
    BY <1>3, <2>1 DEF Page
  <2>3. SubSeq(q, 1, 0) = <<>>
    BY SubSeqEmpty
  <2>4. Range(<<>>) = {}
    BY DEF Range
  <2> QED BY <1>1, <1>4, <2>2, <2>3, <2>4
<1>5. CASE G # {}
  <2>1. n # 0
    BY <1>1, <1>2, <1>5, FS_EmptySet
  <2>2. PICK p : p = Page(q, 0, 1)
    OBVIOUS
  <2>3. p = SubSeq(q, 1, 1)
    BY <1>3, <2>1, <2>2 DEF Page
  <2>4. q[1] \in G /\ Cardinality(before[q[1]]) = 0
    BY <1>3, <2>1
  <2>5. p \in Seq(G) /\ Len(p) = 1 /\ p[1] = q[1]
    <3>1. \A k \in 1 .. 1 : q[k] \in G
      BY <2>4
    <3>2. /\ p \in Seq(G) /\ Len(p) = (IF 1 <= 1 THEN 1 - 1 + 1 ELSE 0)
          /\ \A k \in 1 .. 1 - 1 + 1 : p[k] = q[1 + k - 1]
      BY <2>3, <3>1, SubSeqProperties
    <3>3. 1 - 1 + 1 = 1 /\ 1 + 1 - 1 = 1 /\ 1 \in 1 .. 1
      OBVIOUS
    <3> QED BY <3>2, <3>3
  <2>6. Range(p) = {q[1]}
    BY <2>5 DEF Range
  <2>7. before[q[1]] = {}
    <3>1. before[q[1]] \in SUBSET G
      BY <1>1, <2>4
    <3> QED BY <1>2, <2>4, <3>1, FS_Subset, FS_EmptySet
  <2>8. \A f \in G : NotBefore(q[1], f)
    BY <1>1, <2>4, <2>7
  <2>9. q[1] = FirstOf(G)
    BY <1>5, <2>4, <2>8, FirstIs
  <2> QED BY <1>1, <1>5, <2>2, <2>6, <2>9
<1> QED BY <1>4, <1>5

(* The candidates of NextUp for a named series: of the leads of its seed, those
   of the season watched last. *)
Here(G) == {e \in Lead(G) : Season(e) = Season(Newest(Used(G)))}

LEMMA NextUpOfSeries ==
  ASSUME QInv, NEW s, NEW G, G = {e \in Episodes : Series(e) = s}
  PROVE  Range(NextUpInSeason(s, 1, 0)) = IF Used(G) = {} \/ Here(G) = {} THEN {} ELSE {FirstOf(Here(G))}
<1>1. PICK a, cand : /\ a = Newest({e \in G : Started(e)})
                     /\ cand = {e \in G : Unplayed(e) /\ Season(e) = Season(a) /\ NotBefore(a, e)}
  OBVIOUS
<1>2. NextUpInSeason(s, 1, 0) = IF \A e \in G : ~Started(e) THEN <<>>
                                ELSE Page(Sorted(cand, [e \in cand |-> {f \in cand : ~NotBefore(e, f)}]), 0, 1)
  BY <1>1 DEF NextUpInSeason
<1>3. a = Newest(Used(G)) /\ (Used(G) = {} <=> \A e \in G : ~Started(e))
  BY <1>1 DEF Used
<1>4. cand = Here(G)
  BY <1>1, <1>3 DEF Here, Lead
<1>5. cand \in SUBSET {e \in Episodes : Series(e) = s}
  BY <1>1
<1>6. Range(<<>>) = {}
  BY DEF Range
<1>7. CASE Used(G) = {}
  BY <1>2, <1>3, <1>6, <1>7
<1>8. CASE Used(G) # {}
  <2>1. Range(Page(Sorted(cand, [e \in cand |-> {f \in cand : ~NotBefore(e, f)}]), 0, 1))
          = IF cand = {} THEN {} ELSE {FirstOf(cand)}
    BY <1>5, FirstPage
  <2>2. NextUpInSeason(s, 1, 0) = Page(Sorted(cand, [e \in cand |-> {f \in cand : ~NotBefore(e, f)}]), 0, 1)
    BY <1>2, <1>3, <1>8
  <2>3. Range(NextUpInSeason(s, 1, 0)) = IF cand = {} THEN {} ELSE {FirstOf(cand)}
    BY ONLY <2>1, <2>2
  <2> QED BY ONLY <1>4, <1>8, <2>3
<1> QED BY <1>7, <1>8

(* The first of the season watched last, if there is one, is the first of all:
   the season of the seed is not before that season, and not after it. *)
LEMMA SeedOfSeason ==
  ASSUME QInv, NEW s, NEW G, G = {e \in Episodes : Series(e) = s}, Used(G) # {}
  PROVE  /\ Here(G) = {} <=> ~(Lead(G) # {} /\ Season(FirstOf(Lead(G))) = Season(Newest(Used(G))))
         /\ Here(G) # {} => FirstOf(Here(G)) = FirstOf(Lead(G))
<1>1. PICK a : a = Newest(Used(G))
  OBVIOUS
<1>2. Used(G) \in SUBSET Item /\ \A i \in Used(G) : Started(i)
  BY OnShelf DEF Used
<1>3. a \in G
  BY <1>1, <1>2, NewestIs DEF Used
<1>4. Lead(G) \in SUBSET {e \in Episodes : Series(e) = s} /\ Here(G) \in SUBSET Lead(G)
  BY DEF Lead, Here
<1>5. CASE Lead(G) = {}
  BY <1>4, <1>5
<1>6. CASE Lead(G) # {}
  <2>1. PICK l : l = FirstOf(Lead(G))
    OBVIOUS
  <2>2. l \in Lead(G) /\ \A f \in Lead(G) : NotBefore(l, f)
    BY <1>4, <1>6, <2>1, FirstIs
  <2>3. CASE Season(l) = Season(a)
    <3>1. l \in Here(G)
      BY <1>1, <2>2, <2>3 DEF Here
    <3>2. Here(G) \in SUBSET {e \in Episodes : Series(e) = s} /\ \A f \in Here(G) : NotBefore(l, f)
      BY <1>4, <2>2
    <3>3. FirstOf(Here(G)) = l
      BY <3>1, <3>2, FirstIs
    <3> QED BY <1>1, <1>6, <2>1, <2>3, <3>1, <3>3
  <2>4. CASE Season(l) # Season(a)
    <3>1. ASSUME NEW c \in Here(G) PROVE FALSE
      <4>1. NotBefore(a, l) /\ NotBefore(l, c) /\ Season(c) = Season(a)
        BY <1>1, <1>4, <2>2 DEF Here, Lead
      <4>2. l \in Episodes /\ a \in Episodes /\ Series(l) = s /\ Series(a) = s
        BY <1>3, <1>4, <2>2
      <4>3. /\ Season(l) \in Item /\ Season(a) \in Item /\ s \in Item
            /\ Row[Season(l)].parent = s /\ Row[Season(a)].parent = s
        BY <4>2, OnShelf DEF Of
      <4>4. Row[Season(l)].no \in Nat /\ Row[Season(a)].no \in Nat /\ s # 0
        BY <4>3, ShelfAssumption, UserDataAssumption
      <4>5. Row[Season(l)].no = Row[Season(a)].no
        BY <4>1, <4>4 DEF NotBefore
      <4> QED BY <2>4, <4>3, <4>4, <4>5, ShelfAssumption
    <3> QED BY <1>1, <1>6, <2>1, <2>4, <3>1
  <2> QED BY <2>3, <2>4
<1> QED BY <1>5, <1>6

(* What the list of all series shows of one is its seed. *)
LEMMA ShownOfSeries ==
  ASSUME QInv, NEW s, NEW G, G = {e \in Episodes : Series(e) = s}
  PROVE  {e \in Range(Ids(Frontier(All))) : Series(e) = s} = IF Shows(G) THEN {FirstOf(Lead(G))} ELSE {}
<1>1. G = Group(s, All)
  BY DEF Group, All
<1>2. \A e : e \in Range(Ids(Frontier(All))) <=> \E x \in Frontier(All) : x.id = e
  BY SeedsAreEpisodes, SeedsListed
<1>3. ASSUME NEW x \in Frontier(All), Series(x.id) = s PROVE Shows(G) /\ x.id = FirstOf(Lead(G))
  <2>1. PICK t \in Watched(All) : x \in Reps(t, All)
    BY DEF Frontier
  <2>2. x = SeedOf(Group(t, All)) /\ Shows(Group(t, All))
    BY <2>1, RepsIs
  <2>3. Group(t, All) \in SUBSET {e \in Episodes : Series(e) = t}
    BY DEF Group
  <2>4. Series(x.id) = t
    BY <2>2, <2>3, SeedIs
  <2> QED BY <1>1, <1>3, <2>2, <2>4 DEF SeedOf
<1>4. ASSUME Shows(G) PROVE \E x \in Frontier(All) : x.id = FirstOf(Lead(G)) /\ Series(x.id) = s
  <2>1. SeedOf(G) \in Reps(s, All)
    BY <1>1, <1>4, RepsIs
  <2>2. PICK e \in G : Started(e)
    BY <1>4 DEF Shows, Used
  <2>3. s \in Watched(All)
    BY <2>2 DEF Watched, InScope, All
  <2>4. SeedOf(G) \in Frontier(All)
    BY <2>1, <2>3 DEF Frontier
  <2>5. SeedOf(G).id = FirstOf(Lead(G))
    BY DEF SeedOf
  <2>6. Series(SeedOf(G).id) = s
    BY <1>4, SeedIs
  <2> QED BY <2>4, <2>5, <2>6
<1> QED BY <1>2, <1>3, <1>4

(* list_next_up is list_resume without the films, and for a named series begins
   with the episode Resume shows of it, if that is of the season watched last. *)
THEOREM NextUpAgreesAlways == Spec => []NextUpAgrees
<1>1. ASSUME QInv, Item # {}, NEW n, n = Cardinality(Item), NEW shown, shown = Without(Of("movie"), ListResume(All, n, 0))
      PROVE  /\ ListNextUp(n, 0) = shown
             /\ \A s \in Of("series") :
                  Range(NextUpInSeason(s, 1, 0)) =
                    {e \in Range(shown) : Series(e) = s /\
                       Season(e) = Season(Newest({f \in Episodes : Series(f) = s /\ Started(f)}))}
  <2>1. shown = Ids(Frontier(All))
    BY <1>1, AllIsScope, ResumedIs, WithoutFilms
  <2>2. ListNextUp(n, 0) = shown
    BY <1>1, <2>1, NextUpIs
  <2>3. ASSUME NEW s PROVE Range(NextUpInSeason(s, 1, 0)) =
                             {e \in Range(shown) : Series(e) = s /\
                                Season(e) = Season(Newest({f \in Episodes : Series(f) = s /\ Started(f)}))}
    <3>1. PICK G : G = {e \in Episodes : Series(e) = s}
      OBVIOUS
    <3>2. PICK a : a = Newest(Used(G)) /\ a = Newest({f \in Episodes : Series(f) = s /\ Started(f)})
      <4>1. Used(G) = {f \in Episodes : Series(f) = s /\ Started(f)}
        BY <3>1 DEF Used
      <4> QED BY <4>1
    <3>3. Range(NextUpInSeason(s, 1, 0)) = IF Used(G) = {} \/ Here(G) = {} THEN {} ELSE {FirstOf(Here(G))}
      BY <1>1, <3>1, NextUpOfSeries
    <3>4. {e \in Range(shown) : Series(e) = s} = IF Shows(G) THEN {FirstOf(Lead(G))} ELSE {}
      BY <1>1, <2>1, <3>1, ShownOfSeries
    <3>5. Used(G) # {} => /\ Here(G) = {} <=> ~(Lead(G) # {} /\ Season(FirstOf(Lead(G))) = Season(a))
                          /\ Here(G) # {} => FirstOf(Here(G)) = FirstOf(Lead(G))
      BY <1>1, <3>1, <3>2, SeedOfSeason
    <3>6. {e \in Range(shown) : Series(e) = s /\ Season(e) = Season(a)}
            = {e \in {f \in Range(shown) : Series(f) = s} : Season(e) = Season(a)}
      OBVIOUS
    <3>7. CASE Used(G) = {}
      BY <3>2, <3>3, <3>4, <3>6, <3>7 DEF Shows
    <3>8. CASE Used(G) # {}
      BY <3>2, <3>3, <3>4, <3>5, <3>6, <3>8 DEF Shows
    <3> QED BY <3>7, <3>8
  <2> QED BY <2>2, <2>3
<1>2. ASSUME QInv, Item = {} PROVE NextUpAgrees
  <2>1. Of("series") = {} /\ Cardinality(Item) = 0
    BY <1>2, OnShelf, FS_EmptySet DEF Of
  <2>2. ListNextUp(0, 0) = <<>> /\ ListResume(All, 0, 0) = <<>>
    BY DEF ListNextUp, ListResume
  <2>3. Without(Of("movie"), <<>>) = <<>>
    <3>1. {j \in DOMAIN <<>> : <<>>[j] \notin Of("movie")} = {}
      OBVIOUS
    <3>2. ByTitle({}) = [k \in {} |-> CHOOSE x \in {} : FALSE]
      BY FS_EmptySet DEF ByTitle, Sorted
    <3> QED BY <3>1, <3>2 DEF Without
  <2> QED BY <2>1, <2>2, <2>3 DEF NextUpAgrees
<1>3. QInv => NextUpAgrees
  BY <1>1, <1>2 DEF NextUpAgrees
<1> QED BY <1>3, QueryInv, PTL DEF Spec
=============================================================================
