------------------------ MODULE MediaLifecycleProofs ------------------------
(* Proofs about MediaLifecycle, for every value of its constants. *)
EXTENDS MediaLifecycle, TLAPS, NaturalsInduction, WellFoundedInduction

Keys == {Chain[f][n].key : f \in File, n \in 1 .. 3} \cup Titles \cup Seasons \cup {0}
Dirs == {Dir[f] : f \in File}
Stage == {"idle", "claimed", "walk", "byPath", "lookup", "insert", "readBack", "source", "dropSubs",
          "dropSources", "insertSource", "attach", "stat", "itemOf", "delSubs", "delSource",
          "count", "delItem"}
ItemRow == [type : Types, parent : Nat, lib : Nat, key : Keys, virtual : BOOLEAN]
SourceRow == [item : Nat, file : File, status : {"pending", "ok", "failed"}]
LoopType == [at : Stage, lib : Nat, dirs : SUBSET Dirs, todo : SUBSET File,
             file : File \cup {NoFile}, level : Nat, parent : Nat, item : Nat,
             row : Nat \X (File \cup {NoFile}), rows : SUBSET (Nat \X File), stack : SUBSET Nat]
ProbeType == [rows : SUBSET Nat, flight : SUBSET Nat]
VirtType == [at : {"idle", "begun", "found", "ready"}, series : Nat, left : SUBSET Seasons,
             number : Seasons \cup {0}, lib : Nat]
HistType == [still : BOOLEAN, lost : BOOLEAN, torn : BOOLEAN, mixed : BOOLEAN, ghost : BOOLEAN]

Scanning == {"walk", "byPath", "lookup", "insert", "readBack", "source", "dropSubs",
             "dropSources", "insertSource", "attach"}
Seeking == {"lookup", "insert", "readBack"}
Replacing == {"dropSubs", "dropSources", "insertSource"}
Removing == {"delSubs", "delSource", "count"}
Leaf == {"movie", "episode"}

(* Rows have their columns, ids come from the counters, and a walk that is in a
   file knows which step of its chain it is at. *)
CountersOK == {lib, lastItem, lastSrc, lastLib} \subseteq Nat /\ disk \subseteq File
RowsOK ==
  /\ Items \subseteq 1 .. lastItem /\ item \in [Items -> ItemRow]
  /\ Sources \subseteq 1 .. lastSrc /\ src \in [Sources -> SourceRow]
TasksOK ==
  /\ loop \in LoopType /\ probe \in ProbeType /\ virt \in VirtType /\ hist \in HistType
FileOK ==
  /\ loop.at \in {"byPath"} \cup Seeking \cup {"source"} \cup Replacing => loop.file \in File
  /\ loop.at = "byPath" => loop.level = 1
  /\ loop.at \in Seeking => loop.level \in 1 .. Len(Chain[loop.file])
Typed == CountersOK /\ RowsOK /\ TasksOK /\ FileOK

(***************************************************************************)
(* What the tables and the loops hold while no scan outlives its library   *)
(* and no id of another task is read back.                                 *)
(***************************************************************************)
Clean == ~hist.ghost /\ ~hist.mixed

(* An item is below one of the right type, of the library there is. *)
Placed(i) ==
  /\ item[i].type \in {"movie", "series"} => item[i].parent = 0
  /\ item[i].type = "season" =>
       item[i].parent \in Items /\ item[item[i].parent].type = "series"
  /\ item[i].type = "episode" =>
       item[i].parent \in Items /\ item[item[i].parent].type = "season"
  /\ item[i].lib = lib /\ lib # 0
  /\ item[i].virtual => item[i].type = "season"

(* Item i stands for the first, second or third step of the chain of f; the
   title of a movie may be TMDB's by now. *)
First(i, f) == /\ item[i].type = Chain[f][1].type
               /\ item[i].type # "movie" => item[i].key = Chain[f][1].key
Second(i, f) == /\ item[i].type = "season" /\ item[i].key = Chain[f][2].key
                /\ First(item[i].parent, f)
Third(i, f) == /\ item[i].type = "episode" /\ item[i].key = Chain[f][3].key
               /\ Second(item[i].parent, f)
Stands(i, f, n) == i \in Items /\ IF n = 1 THEN First(i, f)
                                  ELSE IF n = 2 THEN Second(i, f) ELSE Third(i, f)
Holds(i, f) == Stands(i, f, Len(Chain[f]))

Unheld(f) == \A s \in Sources : src[s].file # f

ItemsOK ==
  /\ \A i \in Items : Placed(i)
  /\ \A i, j \in Items : (/\ item[i].type = item[j].type /\ item[i].type # "movie"
                          /\ item[i].parent = item[j].parent /\ item[i].key = item[j].key) => i = j
SourcesOK ==
  /\ \A s \in Sources : Holds(src[s].item, src[s].file)
  /\ \A s, t \in Sources : src[s].file = src[t].file => s = t
  /\ subs \subseteq Sources

(* Where the walk is: below the items of the chain it has found or made, and on
   to a file that has no source, or has it under the item the walk came to. *)
WalkAt(x) ==
  /\ x.at \in Scanning => x.lib = lib /\ lib # 0
  /\ x.at = "byPath" => x.parent = 0 /\ Len(Chain[x.file]) = 1
  /\ x.at \in Seeking =>
       /\ IF x.level = 1 THEN x.parent = 0 ELSE Stands(x.parent, x.file, x.level - 1)
       /\ Len(Chain[x.file]) = 1 => Unheld(x.file)
  /\ x.at = "insert" /\ x.level = 1 /\ Len(Chain[x.file]) = 3 =>
       \A i \in Items : item[i].type = "series" => item[i].key # Chain[x.file][1].key
  /\ x.at = "readBack" => Stands(x.item, x.file, x.level)
  /\ x.at \in {"source"} \cup Replacing => Holds(x.parent, x.file)
  /\ x.at = "source" => \A s \in Sources : src[s].file = x.file => src[s].item = x.parent
  /\ x.at \in Replacing => Unheld(x.file)
  /\ x.at \in {"dropSources", "insertSource"} => subs \cap SourcesOf(x.parent) = {}
  /\ x.at = "attach" => x.row[1] \in Sources

(* What deletion detection removes has no source but the one it removes, and
   nothing below it. *)
DetectAt(x) ==
  /\ x.at \in Removing => x.item <= lastItem /\ (x.item \in Items => item[x.item].type \in Leaf)
  /\ x.at \in {"delSubs", "delSource"} =>
       \A s \in Sources : src[s].item = x.item <=> s = x.row[1]
  /\ x.at = "delSource" => x.row[1] \notin subs
  /\ x.at = "count" => SourcesOf(x.item) = {}
  /\ x.at = "delItem" =>
       \A i \in x.stack : /\ i <= lastItem /\ i # 0 /\ SourcesOf(i) = {}
                          /\ i \in Items => item[i].type \in Leaf

(* The series whose virtual seasons are generated is there, and so is its
   library. *)
VirtOK ==
  virt.at # "idle" => /\ virt.series \in Items /\ item[virt.series].type = "series"
                      /\ virt.at = "ready" => virt.lib = lib

Good == ItemsOK /\ SourcesOK /\ WalkAt(loop) /\ DetectAt(loop) /\ VirtOK
CleanInv == Clean => Good

(* Before its first source an item is in the hands of the walk, after its last
   in those of deletion detection. *)
InHand(i) ==
  \/ loop.at = "readBack" /\ i = loop.item
  \/ loop.at \in {"source"} \cup Replacing /\ i = loop.parent
  \/ loop.at = "count" /\ i = loop.item
  \/ loop.at = "delItem" /\ i \in loop.stack
WholeInv ==
  Clean /\ ~hist.torn =>
    \A i \in Items : item[i].type \in Leaf /\ SourcesOf(i) = {} => InHand(i)

(* One source for an item, however the walk came to the item. *)
OneInv ==
  /\ loop.at = "insertSource" => SourcesOf(loop.parent) = {}
  /\ \A s, t \in Sources : src[s].item = src[t].item => s = t

-----------------------------------------------------------------------------
(* Numbers, chains and rows.                                               *)

LEMMA MinIs ==
  ASSUME NEW S \in SUBSET Nat, S # {} PROVE Min(S) \in S
<1>1. PICK m \in S : \A y \in S : ~(<<y, m>> \in OpToRel(<, Nat))
  BY NatLessThanWellFounded, WFMin
<1>2. ASSUME NEW y \in S PROVE m =< y
  <2>1. m \in Nat /\ y \in Nat
    OBVIOUS
  <2>2. ~(y < m)
    BY <1>1, <2>1 DEF OpToRel
  <2> QED BY <2>1, <2>2
<1> QED BY <1>2 DEF Min

LEMMA MaxIs ==
  ASSUME NEW n \in Nat, NEW S \in SUBSET (1 .. n), S # {} PROVE Max(S) \in S
<1> DEFINE B == {b \in Nat : \A y \in S : y =< b}
<1>1. B # {} /\ B \in SUBSET Nat
  <2>1. n \in B
    OBVIOUS
  <2> QED BY <2>1
<1>2. PICK m \in B : \A y \in B : ~(<<y, m>> \in OpToRel(<, Nat))
  BY <1>1, NatLessThanWellFounded, WFMin
<1>3. m \in S
  <2> SUFFICES ASSUME m \notin S PROVE FALSE
    OBVIOUS
  <2>1. m - 1 \in B
    <3>1. PICK y \in S : TRUE
      OBVIOUS
    <3>2. m >= y /\ m \in Nat /\ y \in Nat /\ y >= 1
      OBVIOUS
    <3>3. \A z \in S : z \in Nat /\ z =< m /\ z # m
      OBVIOUS
    <3> QED BY <3>2, <3>3
  <2>2. m - 1 < m /\ m \in Nat /\ m - 1 \in Nat
    BY <2>1
  <2> QED BY <1>2, <2>1, <2>2 DEF OpToRel
<1>4. \A y \in S : m >= y
  OBVIOUS
<1> QED BY <1>3, <1>4 DEF Max

LEMMA ChainIs ==
  ASSUME NEW f \in File
  PROVE  /\ Len(Chain[f]) \in {1, 3}
         /\ Len(Chain[f]) = 1 => Chain[f][1].type = "movie"
         /\ Len(Chain[f]) = 3 => /\ Chain[f][1].type = "series" /\ Chain[f][2].type = "season"
                                 /\ Chain[f][3].type = "episode"
         /\ \A n \in 1 .. Len(Chain[f]) : Chain[f][n].type \in Types /\ Chain[f][n].key \in Keys
<1>1. CASE Chain[f] = <<[type |-> "movie", key |-> Chain[f][1].key]>>
  <2>1. Len(Chain[f]) = 1 /\ Chain[f][1].type = "movie"
    BY <1>1
  <2> QED BY <2>1 DEF Types, Keys
<1>2. CASE Chain[f] = <<[type |-> "series", key |-> Chain[f][1].key],
                        [type |-> "season", key |-> Chain[f][2].key],
                        [type |-> "episode", key |-> Chain[f][3].key]>>
  <2>1. /\ Len(Chain[f]) = 3 /\ Chain[f][1].type = "series" /\ Chain[f][2].type = "season"
        /\ Chain[f][3].type = "episode"
    BY <1>2
  <2> QED BY <2>1 DEF Types, Keys
<1> QED BY <1>1, <1>2, MediaAssumption

LEMMA DescendIs ==
  ASSUME Typed, loop.at \in {"byPath"} \cup Seeking, NEW i \in Nat, loop' = Descend(i)
  PROVE  /\ loop' \in LoopType /\ FileOK'
         /\ loop'.file = loop.file /\ loop'.lib = loop.lib /\ loop'.parent = i
         /\ \/ /\ loop.level < Len(Chain[loop.file])
               /\ loop'.at = "lookup" /\ loop'.level = loop.level + 1
            \/ loop.level = Len(Chain[loop.file]) /\ loop'.at = "source"
<1>1. /\ loop \in LoopType /\ loop.file \in File /\ loop.level \in 1 .. Len(Chain[loop.file])
      /\ Len(Chain[loop.file]) \in {1, 3}
  BY ChainIs DEF Typed, TasksOK, FileOK, Seeking
<1>2. CASE loop.level < Len(Chain[loop.file])
  <2>1. loop' = [loop EXCEPT !.at = "lookup", !.level = @ + 1, !.parent = i]
    BY <1>2 DEF Descend
  <2>2. "lookup" \in Stage /\ loop.level + 1 \in Nat
    BY <1>1 DEF Stage
  <2>3. loop' \in LoopType
    BY <1>1, <2>1, <2>2 DEF LoopType
  <2>4. /\ loop'.at = "lookup" /\ loop'.level = loop.level + 1 /\ loop'.parent = i
        /\ loop'.file = loop.file /\ loop'.lib = loop.lib
    BY <1>1, <2>1 DEF LoopType
  <2> QED BY <1>1, <1>2, <2>3, <2>4 DEF FileOK, Seeking, Replacing
<1>3. CASE loop.level = Len(Chain[loop.file])
  <2>1. loop' = [loop EXCEPT !.at = "source", !.parent = i]
    BY <1>1, <1>3 DEF Descend
  <2>2. "source" \in Stage
    BY DEF Stage
  <2>3. loop' \in LoopType
    BY <1>1, <2>1, <2>2 DEF LoopType
  <2>4. /\ loop'.at = "source" /\ loop'.parent = i
        /\ loop'.file = loop.file /\ loop'.lib = loop.lib
    BY <1>1, <2>1 DEF LoopType
  <2> QED BY <1>1, <1>3, <2>3, <2>4 DEF FileOK, Seeking, Replacing
<1> QED BY <1>1, <1>2, <1>3

(* Rows that are looked for. *)
LEMMA RowIs ==
  ASSUME Typed
  PROVE  /\ \A i \in Items : /\ i \in Nat /\ i \in 1 .. lastItem /\ item[i] \in ItemRow
         /\ \A s \in Sources : s \in Nat /\ s \in 1 .. lastSrc /\ src[s] \in SourceRow
BY DEF Typed, RowsOK, CountersOK

LEMMA FoundIs ==
  ASSUME Typed, NEW S, S \subseteq Items \/ S \subseteq Sources, S # {}
  PROVE  Min(S) \in S /\ Min(S) \in Nat
<1>1. S \in SUBSET Nat
  BY RowIs
<1> QED BY <1>1, MinIs

LEMMA NewestIs ==
  ASSUME Typed, Items # {} PROVE Max(Items) \in Items /\ Max(Items) \in Nat
<1>1. Items \in SUBSET (1 .. lastItem) /\ lastItem \in Nat
  BY DEF Typed, RowsOK, CountersOK
<1>2. Max(Items) \in Items
  BY <1>1, MaxIs
<1> QED BY <1>2, RowIs

(* A step of the loop that leaves the tables alone. *)
LEMMA LoopTyped ==
  ASSUME Typed, loop' \in LoopType, FileOK', hist' \in HistType, UNCHANGED tables, LoopOnly
  PROVE  Typed'
BY DEF Typed, CountersOK, RowsOK, TasksOK, tables, LoopOnly, Items, Sources

LEMMA WalkTyped ==
  ASSUME Typed,
         \/ \E d \in loop.dirs : ListDir(d)
         \/ \E f \in loop.todo : PickFile(f)
         \/ FindByPath \/ Lookup \/ ReadBack \/ FindSource \/ FileFails
  PROVE  Typed'
<1>0. loop \in LoopType /\ hist \in HistType /\ disk \subseteq File
  BY DEF Typed, TasksOK, CountersOK
<1>1. ASSUME NEW d \in loop.dirs, ListDir(d) PROVE Typed'
  <2>1. loop' \in LoopType /\ loop'.at = "walk"
    BY <1>0, <1>1 DEF ListDir, LoopType
  <2> QED BY <1>0, <1>1, <2>1, LoopTyped DEF ListDir, FileOK, Seeking, Replacing
<1>2. ASSUME NEW f \in loop.todo, PickFile(f) PROVE Typed'
  <2>1. f \in File /\ Len(Chain[f]) \in {1, 3}
    BY <1>0, ChainIs DEF LoopType
  <2>2. CASE loop' = [loop EXCEPT !.todo = @ \ {f}]
    <3>1. loop' \in LoopType /\ loop'.at = "walk"
      BY ZenonT(60), <1>0, <1>2, <2>2 DEF PickFile, LoopType
    <3> QED BY <1>0, <1>2, <3>1, LoopTyped DEF PickFile, FileOK, Seeking, Replacing
  <2>3. CASE loop' = [loop EXCEPT !.todo = @ \ {f}, !.file = f, !.level = 1, !.parent = 0,
                         !.at = IF Chain[f][1].type = "movie" THEN "byPath" ELSE "lookup"]
    <3>1. loop' \in LoopType /\ loop'.at \in {"byPath", "lookup"} /\ loop'.file = f /\ loop'.level = 1
      BY <1>0, <2>1, <2>3 DEF LoopType, Stage
    <3>2. 1 \in 1 .. Len(Chain[f])
      <4>1. Len(Chain[f]) = 1 \/ Len(Chain[f]) = 3
        BY <2>1
      <4>2. 1 \in 1 .. 1 /\ 1 \in 1 .. 3
        OBVIOUS
      <4> QED BY <4>1, <4>2
    <3>3. FileOK'
      BY <2>1, <3>1, <3>2 DEF FileOK, Seeking, Replacing
    <3> QED BY <1>0, <1>2, <3>1, <3>3, LoopTyped DEF PickFile
  <2> QED BY <1>2, <2>2, <2>3 DEF PickFile
<1>3. CASE FindByPath
  <2> DEFINE found == {i \in Items : HoldsPath(i)}
  <2>1. loop.at = "byPath" /\ UNCHANGED <<tables, hist>> /\ LoopOnly
    BY <1>3 DEF FindByPath
  <2>2. CASE loop' = [loop EXCEPT !.at = "lookup"]
    <3>1. loop' \in LoopType /\ loop'.at = "lookup" /\ loop'.file = loop.file /\ loop'.level = loop.level
      BY <1>0, <2>2 DEF LoopType, Stage
    <3>2. FileOK'
      BY <2>1, <3>1, ChainIs DEF Typed, FileOK, Seeking, Replacing
    <3> QED BY <1>0, <2>1, <3>1, <3>2, LoopTyped
  <2>3. CASE found # {} /\ loop' = Descend(Min(found))
    <3>1. Min(found) \in Nat
      BY <2>3, FoundIs
    <3>2. PICK i \in Nat : loop' = Descend(i)
      BY <2>3, <3>1
    <3> QED BY <1>0, <2>1, <3>2, DescendIs, LoopTyped
  <2> QED BY <1>3, <2>2, <2>3 DEF FindByPath
<1>4. CASE Lookup
  <2>1. loop.at = "lookup" /\ UNCHANGED <<tables, hist>> /\ LoopOnly
    BY <1>4 DEF Lookup
  <2>2. CASE loop' = [loop EXCEPT !.at = "insert"]
    <3>1. loop' \in LoopType /\ loop'.at = "insert" /\ loop'.file = loop.file /\ loop'.level = loop.level
      BY <1>0, <2>2 DEF LoopType, Stage
    <3>2. FileOK'
      BY <2>1, <3>1 DEF Typed, FileOK, Seeking, Replacing
    <3> QED BY <1>0, <2>1, <3>1, <3>2, LoopTyped
  <2>3. CASE \E i \in Items : loop' = Descend(i)
    BY <1>0, <2>1, <2>3, RowIs, DescendIs, LoopTyped DEF Seeking
  <2> QED BY <1>4, <2>2, <2>3 DEF Lookup
<1>5. CASE ReadBack
  <2>1. loop.at = "readBack" /\ UNCHANGED tables /\ LoopOnly
    BY <1>5 DEF ReadBack
  <2>2. hist' \in HistType
    BY <1>0, <1>5 DEF ReadBack, Disturb, HistType
  <2>3. CASE loop' = [loop EXCEPT !.at = "walk"]
    <3>1. loop' \in LoopType /\ loop'.at = "walk"
      BY <1>0, <2>3 DEF LoopType, Stage
    <3> QED BY <2>1, <2>2, <3>1, LoopTyped DEF FileOK, Seeking, Replacing
  <2>4. CASE Items # {} /\ loop' = Descend(Max(Items))
    <3>1. PICK i \in Nat : loop' = Descend(i)
      BY <2>4, NewestIs
    <3> QED BY <2>1, <2>2, <3>1, DescendIs, LoopTyped DEF Seeking
  <2> QED BY <1>5, <2>3, <2>4 DEF ReadBack
<1>6. CASE FindSource
  <2> DEFINE found == {s \in SourcesOf(loop.parent) : src[s].file = loop.file}
  <2>1. loop.at = "source" /\ UNCHANGED <<tables, hist>> /\ LoopOnly
    BY <1>6 DEF FindSource
  <2>2. CASE loop' = [loop EXCEPT !.at = "dropSubs"]
    <3>1. loop' \in LoopType /\ loop'.at = "dropSubs" /\ loop'.file = loop.file
      BY <1>0, <2>2 DEF LoopType, Stage
    <3>2. FileOK'
      BY <2>1, <3>1 DEF Typed, FileOK, Seeking, Replacing
    <3> QED BY <1>0, <2>1, <3>1, <3>2, LoopTyped
  <2>3. CASE found # {} /\ loop' = [loop EXCEPT !.at = "attach", !.row = <<Min(found), loop.file>>]
    <3>1. Min(found) \in Nat
      BY <2>3, FoundIs DEF SourcesOf
    <3>2. loop' \in LoopType /\ loop'.at = "attach"
      BY <1>0, <2>3, <3>1 DEF LoopType, Stage
    <3> QED BY <1>0, <2>1, <3>2, LoopTyped DEF FileOK, Seeking, Replacing
  <2> QED BY <1>6, <2>2, <2>3 DEF FindSource
<1>7. CASE FileFails
  <2>1. hist' \in HistType
    BY <1>0, <1>7 DEF FileFails, Tear, HistType
  <2>2. loop' \in LoopType /\ loop'.at = "walk"
    BY <1>0, <1>7 DEF FileFails, LoopType, Stage
  <2> QED BY <1>7, <2>1, <2>2, LoopTyped DEF FileFails, FileOK, Seeking, Replacing
<1> QED BY <1>1, <1>2, <1>3, <1>4, <1>5, <1>6, <1>7

(* Rows put into a table, and taken out of it. *)
LEMMA ItemAdded ==
  ASSUME Typed, NEW row \in ItemRow, item' = With(item, lastItem + 1, row), lastItem' = lastItem + 1
  PROVE  /\ Items' = Items \cup {lastItem + 1} /\ lastItem + 1 \notin Items /\ lastItem + 1 \in Nat
         /\ item'[lastItem + 1] = row /\ \A i \in Items : item'[i] = item[i]
         /\ lastItem' \in Nat /\ Items' \subseteq 1 .. lastItem' /\ item' \in [Items' -> ItemRow]
<1>1. lastItem \in Nat /\ Items \subseteq 1 .. lastItem /\ item \in [Items -> ItemRow]
  BY DEF Typed, CountersOK, RowsOK
<1>2. item' = [j \in Items \cup {lastItem + 1} |-> IF j = lastItem + 1 THEN row ELSE item[j]]
  BY DEF With, Items
<1>3. Items' = Items \cup {lastItem + 1}
  BY <1>2 DEF Items
<1> QED BY <1>1, <1>2, <1>3

LEMMA SourceAdded ==
  ASSUME Typed, NEW row \in SourceRow, src' = With(src, lastSrc + 1, row), lastSrc' = lastSrc + 1
  PROVE  /\ Sources' = Sources \cup {lastSrc + 1} /\ lastSrc + 1 \notin Sources /\ lastSrc + 1 \in Nat
         /\ src'[lastSrc + 1] = row /\ \A s \in Sources : src'[s] = src[s]
         /\ lastSrc' \in Nat /\ Sources' \subseteq 1 .. lastSrc' /\ src' \in [Sources' -> SourceRow]
<1>1. lastSrc \in Nat /\ Sources \subseteq 1 .. lastSrc /\ src \in [Sources -> SourceRow]
  BY DEF Typed, CountersOK, RowsOK
<1>2. src' = [j \in Sources \cup {lastSrc + 1} |-> IF j = lastSrc + 1 THEN row ELSE src[j]]
  BY DEF With, Sources
<1>3. Sources' = Sources \cup {lastSrc + 1}
  BY <1>2 DEF Sources
<1> QED BY <1>1, <1>2, <1>3

LEMMA ItemsRemoved ==
  ASSUME Typed, NEW S, item' = Without(item, S)
  PROVE  /\ Items' = Items \ S /\ \A i \in Items' : item'[i] = item[i]
         /\ Items' \subseteq 1 .. lastItem /\ item' \in [Items' -> ItemRow]
<1>1. Items \subseteq 1 .. lastItem /\ item \in [Items -> ItemRow]
  BY DEF Typed, RowsOK
<1>2. item' = [j \in Items \ S |-> item[j]]
  BY DEF Without, Items
<1>3. Items' = Items \ S
  BY <1>2 DEF Items
<1> QED BY <1>1, <1>2, <1>3

LEMMA SourcesRemoved ==
  ASSUME Typed, NEW S, src' = Without(src, S)
  PROVE  /\ Sources' = Sources \ S /\ \A s \in Sources' : src'[s] = src[s]
         /\ Sources' \subseteq 1 .. lastSrc /\ src' \in [Sources' -> SourceRow]
<1>1. Sources \subseteq 1 .. lastSrc /\ src \in [Sources -> SourceRow]
  BY DEF Typed, RowsOK
<1>2. src' = [j \in Sources \ S |-> src[j]]
  BY DEF Without, Sources
<1>3. Sources' = Sources \ S
  BY <1>2 DEF Sources
<1> QED BY <1>1, <1>2, <1>3

LEMMA ClaimIs ==
  ASSUME Claim
  PROVE  /\ loop' = [Idle EXCEPT !.at = "claimed"] /\ loop'.at = "claimed" /\ loop.at = "idle"
         /\ ~hist'.still /\ Disturb
         /\ UNCHANGED <<disk, lib, item, src, subs, lastItem, lastSrc, lastLib, probe, virt>>
BY DEF Claim, Disturb, Idle, tables

LEMMA ClaimTyped ==
  ASSUME Typed, Claim PROVE Typed'
<1>1. loop' \in LoopType /\ loop'.at = "claimed"
  <2>1. NoRow \in Nat \X (File \cup {NoFile})
    BY DEF NoRow
  <2> QED BY <2>1, ClaimIs DEF Idle, LoopType, Stage
<1>2. hist' \in HistType
  BY ClaimIs DEF Disturb, HistType, Typed, TasksOK
<1>3. FileOK'
  BY <1>1 DEF FileOK, Seeking, Replacing
<1> QED BY <1>1, <1>2, <1>3, ClaimIs DEF Typed, TasksOK, CountersOK, RowsOK, Items, Sources

LEMMA StoreTyped ==
  ASSUME Typed, ScanStart \/ InsertItem \/ DropSubs \/ DropSources \/ InsertSource \/ Attach
  PROVE  Typed'
<1>0. /\ loop \in LoopType /\ hist \in HistType /\ disk \subseteq File /\ probe \in ProbeType
      /\ virt \in VirtType /\ {lib, lastItem, lastSrc, lastLib} \subseteq Nat
      /\ Items \subseteq 1 .. lastItem /\ item \in [Items -> ItemRow]
      /\ Sources \subseteq 1 .. lastSrc /\ src \in [Sources -> SourceRow] /\ FileOK
  BY DEF Typed, TasksOK, CountersOK, RowsOK
<1>1. CASE ScanStart
  <2>1. loop' \in LoopType /\ loop'.at = "walk"
    <3>1. lib' \in Nat /\ {Dir[f] : f \in File} \in SUBSET Dirs /\ NoRow \in Nat \X (File \cup {NoFile})
      BY <1>0, <1>1 DEF ScanStart, Dirs, NoRow
    <3> QED BY <1>1, <3>1 DEF ScanStart, Idle, LoopType, Stage
  <2>2. hist' \in HistType /\ lib' \in Nat /\ lastLib' \in Nat
    <3>1. hist' \in HistType
      BY <1>0, <1>1 DEF ScanStart, HistType
    <3> QED BY <1>0, <1>1, <3>1 DEF ScanStart
  <2>3. FileOK'
    BY <2>1 DEF FileOK, Seeking, Replacing
  <2> QED BY <1>0, <1>1, <2>1, <2>2, <2>3 DEF ScanStart, tables, Typed, TasksOK, CountersOK, RowsOK,
      Items, Sources
<1>2. CASE InsertItem
  <2>1. UNCHANGED <<src, lastSrc>> /\ LoopOnly /\ loop.at = "insert"
    BY <1>2 DEF InsertItem
  <2>2. loop' \in LoopType /\ FileOK' /\ hist' \in HistType
    <3>1. CASE loop' = [loop EXCEPT !.at = "walk"]
      <4>1. loop' \in LoopType /\ loop'.at = "walk"
        BY <1>0, <3>1 DEF LoopType, Stage
      <4> QED BY <1>0, <1>2, <4>1 DEF InsertItem, HistType, FileOK, Seeking, Replacing
    <3>2. CASE loop' = [loop EXCEPT !.at = "readBack", !.item = lastItem + 1]
      <4>1. loop' \in LoopType /\ loop'.at = "readBack" /\ loop'.file = loop.file /\ loop'.level = loop.level
        <5>1. "readBack" \in Stage /\ lastItem + 1 \in Nat
          BY <1>0 DEF Stage
        <5> QED BY <1>0, <3>2, <5>1 DEF LoopType
      <4> QED BY <1>0, <1>2, <4>1 DEF InsertItem, HistType, FileOK, Seeking, Replacing
    <3> QED BY <1>2, <3>1, <3>2 DEF InsertItem
  <2>3. /\ lastItem' \in Nat /\ Items' \subseteq 1 .. lastItem' /\ item' \in [Items' -> ItemRow]
    <3>1. CASE UNCHANGED <<item, lastItem>>
      BY <1>0, <3>1 DEF Items
    <3>2. CASE lastItem' = lastItem + 1 /\ item' = With(item, lastItem + 1, NewItem)
      <4>1. /\ loop.file \in File /\ loop.level \in 1 .. Len(Chain[loop.file]) /\ loop.parent \in Nat
            /\ loop.lib \in Nat
        BY <1>0, <2>1 DEF FileOK, Seeking, LoopType
      <4>2. Step(loop.file).type \in Types /\ Step(loop.file).key \in Keys
        BY <4>1, ChainIs DEF Step
      <4>3. NewItem \in ItemRow
        BY <4>1, <4>2 DEF NewItem, ItemRow
      <4> QED BY <1>0, <3>2, <4>3, ItemAdded
    <3> QED BY <1>2, <3>1, <3>2 DEF InsertItem
  <2> QED BY <1>0, <2>1, <2>2, <2>3 DEF LoopOnly, Typed, TasksOK, CountersOK, RowsOK, Sources
<1>3. CASE DropSubs
  <2>1. loop' \in LoopType /\ loop'.at = "dropSources" /\ loop'.file = loop.file
    BY <1>0, <1>3 DEF DropSubs, LoopType, Stage
  <2>2. FileOK'
    BY <1>0, <1>3, <2>1 DEF DropSubs, FileOK, Seeking, Replacing
  <2> QED BY <1>0, <1>3, <2>1, <2>2 DEF DropSubs, LoopOnly, Typed, TasksOK, CountersOK, RowsOK,
      Items, Sources
<1>4. CASE DropSources
  <2>1. loop' \in LoopType /\ loop'.at = "insertSource" /\ loop'.file = loop.file
    BY <1>0, <1>4 DEF DropSources, LoopType, Stage
  <2>2. FileOK'
    BY <1>0, <1>4, <2>1 DEF DropSources, FileOK, Seeking, Replacing
  <2>3. Sources' \subseteq 1 .. lastSrc /\ src' \in [Sources' -> SourceRow]
    BY <1>4, SourcesRemoved DEF DropSources
  <2> QED BY <1>0, <1>4, <2>1, <2>2, <2>3 DEF DropSources, LoopOnly, Typed, TasksOK, CountersOK,
      RowsOK, Items
<1>5. CASE InsertSource
  <2> DEFINE row == [item |-> loop.parent, file |-> loop.file,
                     status |-> IF Probed(loop.file) THEN "pending" ELSE "ok"]
  <2>1. loop' \in LoopType /\ loop'.at = "attach"
    <3>1. <<lastSrc + 1, loop.file>> \in Nat \X (File \cup {NoFile})
      BY <1>0, <1>5 DEF LoopType
    <3> QED BY <1>0, <1>5, <3>1 DEF InsertSource, LoopType, Stage
  <2>2. FileOK'
    BY <2>1 DEF FileOK, Seeking, Replacing
  <2>3. row \in SourceRow
    BY <1>0, <1>5 DEF InsertSource, FileOK, Replacing, LoopType, SourceRow
  <2>4. src' = With(src, lastSrc + 1, row) /\ lastSrc' = lastSrc + 1
    BY <1>5 DEF InsertSource
  <2> HIDE DEF row
  <2>5. Sources' \subseteq 1 .. lastSrc' /\ src' \in [Sources' -> SourceRow] /\ lastSrc' \in Nat
    BY <1>0, <2>3, <2>4, SourceAdded DEF Sources
  <2> QED BY <1>0, <1>5, <2>1, <2>2, <2>5 DEF InsertSource, LoopOnly, Typed, TasksOK, CountersOK,
      RowsOK, Items
<1>6. CASE Attach
  <2>1. loop' \in LoopType /\ loop'.at = "walk"
    <3>1. NoRow \in Nat \X (File \cup {NoFile})
      BY DEF NoRow
    <3> QED BY <1>0, <1>6, <3>1 DEF Attach, LoopType, Stage
  <2>2. FileOK'
    BY <2>1 DEF FileOK, Seeking, Replacing
  <2> QED BY <1>0, <1>6, <2>1, <2>2 DEF Attach, LoopOnly, Typed, TasksOK, CountersOK, RowsOK,
      Items, Sources
<1> QED BY <1>1, <1>2, <1>3, <1>4, <1>5, <1>6

LEMMA DetectTyped ==
  ASSUME Typed, Detection PROVE Typed' /\ loop'.at \notin Scanning
<1>0. /\ loop \in LoopType /\ hist \in HistType /\ disk \subseteq File /\ probe \in ProbeType
      /\ virt \in VirtType /\ {lib, lastItem, lastSrc, lastLib} \subseteq Nat
      /\ Items \subseteq 1 .. lastItem /\ item \in [Items -> ItemRow]
      /\ Sources \subseteq 1 .. lastSrc /\ src \in [Sources -> SourceRow]
  BY DEF Typed, TasksOK, CountersOK, RowsOK
<1>1. loop' \in LoopType /\ loop'.at \notin Scanning
  <2>1. NoRow \in Nat \X (File \cup {NoFile}) /\ Idle \in LoopType /\ Idle.at \notin Scanning
    <3>1. NoRow \in Nat \X (File \cup {NoFile})
      BY DEF NoRow
    <3> QED BY <3>1 DEF Idle, LoopType, Stage, Scanning
  <2>2. CASE DetectList
    <3> DEFINE R == {<<s, src[s].file>> : s \in {r \in Sources : Kind[src[r].file] # "url"}}
    <3>1. R \in SUBSET (Nat \X File)
      BY RowIs DEF SourceRow
    <3>2. loop' = [Idle EXCEPT !.at = "stat", !.rows = R]
      BY <2>2 DEF DetectList
    <3> HIDE DEF R
    <3> QED BY <2>1, <3>1, <3>2 DEF LoopType, Stage, Scanning
  <2>3. ASSUME NEW r \in loop.rows, Stat(r) PROVE loop' \in LoopType /\ loop'.at \notin Scanning
    <3>1. r \in Nat \X (File \cup {NoFile}) /\ loop.rows \ {r} \in SUBSET (Nat \X File)
      BY <1>0, <2>3 DEF LoopType
    <3>2. CASE loop' = [loop EXCEPT !.rows = @ \ {r}]
      BY <1>0, <2>3, <3>1, <3>2 DEF Stat, LoopType, Scanning
    <3>3. CASE loop' = [loop EXCEPT !.at = "itemOf", !.rows = @ \ {r}, !.row = r]
      BY ZenonT(60), <1>0, <3>1, <3>3 DEF LoopType, Stage, Scanning
    <3> QED BY <2>3, <3>2, <3>3 DEF Stat
  <2>4. CASE DetectEnd \/ DetectFails
    BY <2>1, <2>4 DEF DetectEnd, DetectFails
  <2>5. CASE ItemOf
    <3>1. (IF loop.row[1] \in Sources THEN src[loop.row[1]].item ELSE 0) \in Nat
      BY RowIs DEF SourceRow
    <3> QED BY ZenonT(60), <1>0, <2>5, <3>1 DEF ItemOf, LoopType, Stage, Scanning
  <2>6. CASE DelSubs
    BY <1>0, <2>6 DEF DelSubs, LoopType, Stage, Scanning
  <2>7. CASE DelSource
    BY <1>0, <2>7 DEF DelSource, LoopType, Stage, Scanning
  <2>8. CASE Count
    <3>1. {loop.item} \in SUBSET Nat
      BY <1>0 DEF LoopType
    <3>2. CASE loop' = [loop EXCEPT !.at = "delItem", !.stack = {loop.item}, !.row = NoRow, !.item = 0]
      <4>1. loop'.at \notin Scanning
        BY <1>0, <3>2 DEF LoopType, Scanning
      <4>2. "delItem" \in Stage
        BY DEF Stage
      <4> QED BY <1>0, <2>1, <3>1, <3>2, <4>1, <4>2 DEF LoopType
    <3>3. CASE loop' = [loop EXCEPT !.at = "stat", !.row = NoRow, !.item = 0]
      <4>1. loop'.at \notin Scanning
        BY <1>0, <3>3 DEF LoopType, Scanning
      <4>2. "stat" \in Stage
        BY DEF Stage
      <4> QED BY <1>0, <2>1, <3>3, <4>1, <4>2 DEF LoopType
    <3> QED BY <2>8, <3>2, <3>3 DEF Count
  <2>9. ASSUME NEW i \in loop.stack, DelItem(i) PROVE loop' \in LoopType /\ loop'.at \notin Scanning
    <3> DEFINE rest == (loop.stack \ {i}) \cup {c \in Items : item[c].parent = i}
    <3>1. rest \in SUBSET Nat
      BY <1>0, RowIs DEF LoopType
    <3>2. loop' = IF rest = {} THEN [loop EXCEPT !.at = "stat", !.stack = {}]
                  ELSE [loop EXCEPT !.stack = rest]
      BY <2>9 DEF DelItem
    <3>3. loop.at = "delItem"
      BY <2>9 DEF DelItem
    <3> HIDE DEF rest
    <3> QED BY <1>0, <3>1, <3>2, <3>3 DEF LoopType, Stage, Scanning
  <2> QED BY <2>2, <2>3, <2>4, <2>5, <2>6, <2>7, <2>8, <2>9 DEF Detection
<1>2. FileOK'
  BY <1>1 DEF FileOK, Scanning, Seeking, Replacing
<1>3. Sources' \subseteq 1 .. lastSrc /\ src' \in [Sources' -> SourceRow]
  <2>1. src' = src \/ src' = Without(src, {loop.row[1]})
    BY DEF Detection, DetectList, Stat, DetectEnd, ItemOf, DelSubs, DelSource, Count, DelItem,
        DetectFails, tables
  <2>2. CASE src' = Without(src, {loop.row[1]})
    BY <2>2, SourcesRemoved DEF Sources
  <2> QED BY <1>0, <2>1, <2>2 DEF Sources
<1>4. Items' \subseteq 1 .. lastItem /\ item' \in [Items' -> ItemRow]
  <2>1. item' = item \/ \E i \in loop.stack : item' = Without(item, {i})
    BY DEF Detection, DetectList, Stat, DetectEnd, ItemOf, DelSubs, DelSource, Count, DelItem,
        DetectFails, tables
  <2>2. ASSUME NEW i, item' = Without(item, {i}) PROVE Items' \subseteq 1 .. lastItem /\ item' \in [Items' -> ItemRow]
    BY <2>2, ItemsRemoved DEF Items
  <2> QED BY <1>0, <2>1, <2>2 DEF Items
<1>5. hist' \in HistType /\ UNCHANGED <<disk, lib, lastItem, lastSrc, lastLib, probe, virt>>
  <2>1. hist' \in HistType
    BY <1>0 DEF Detection, DetectList, Stat, DetectEnd, ItemOf, DelSubs, DelSource, Count, DelItem,
        DetectFails, Tear, HistType
  <2> QED BY <2>1 DEF Detection, DetectList, Stat, DetectEnd, ItemOf, DelSubs, DelSource, Count,
        DelItem, DetectFails, tables, LoopOnly
<1> QED BY <1>0, <1>1, <1>2, <1>3, <1>4, <1>5 DEF Typed, TasksOK, CountersOK, RowsOK

(* The steps of the generation of virtual seasons that insert nothing. *)
VirtMoves == (\E i \in Items : VirtBegin(i)) \/ (\E n \in Seasons : VirtFind(n)) \/ VirtLib \/ VirtEnd
Retitles == \E i \in Items, t \in Titles : Retitle(i, t)

LEMMA ScrapeIs == ScrapeLoop <=> VirtMoves \/ VirtInsert \/ Retitles
BY DEF ScrapeLoop, VirtGoesOn, VirtMoves, Retitles

LEMMA VirtMoveIs ==
  ASSUME VirtMoves
  PROVE  UNCHANGED <<disk, lib, wanted, tables, lastLib, loop, probe, checked, changes, crashes>>
BY DEF VirtMoves, VirtBegin, VirtFind, VirtLib, VirtEnd, NotVirt, tables

LEMMA NoSeriesIs == NoSeries \in VirtType /\ NoSeries.at = "idle"
BY DEF NoSeries, VirtType

LEMMA BegunIs ==
  ASSUME virt \in VirtType, virt' = NoSeries \/ virt' = [virt EXCEPT !.at = "begun", !.number = 0, !.lib = 0]
  PROVE  /\ virt' \in VirtType
         /\ virt'.at = "idle" \/ (virt'.at = "begun" /\ virt'.series = virt.series)
<1>1. CASE virt' = NoSeries
  BY <1>1, NoSeriesIs
<1>2. CASE virt' = [virt EXCEPT !.at = "begun", !.number = 0, !.lib = 0]
  <2>1. PICK v \in VirtType : v = virt
    OBVIOUS
  <2>2. virt' = [v EXCEPT !.at = "begun", !.number = 0, !.lib = 0]
    BY <1>2, <2>1
  <2>3. 0 \in Seasons \cup {0} /\ 0 \in Nat
    OBVIOUS
  <2> QED BY <2>1, <2>2, <2>3 DEF VirtType
<1> QED BY <1>1, <1>2

LEMMA OthersTyped ==
  ASSUME Typed, ProbeLoop \/ ScrapeLoop \/ Environment
  PROVE  Typed'
<1>0. /\ loop \in LoopType /\ hist \in HistType /\ disk \subseteq File /\ probe \in ProbeType
      /\ virt \in VirtType /\ {lib, lastItem, lastSrc, lastLib} \subseteq Nat
      /\ Items \subseteq 1 .. lastItem /\ item \in [Items -> ItemRow]
      /\ Sources \subseteq 1 .. lastSrc /\ src \in [Sources -> SourceRow] /\ FileOK
  BY DEF Typed, TasksOK, CountersOK, RowsOK
<1>1. CASE ProbeLoop
  <2>1. probe' \in ProbeType
    <3>1. CASE ProbeList
      <4>1. PendingSources \in SUBSET Nat
        BY RowIs DEF PendingSources
      <4> QED BY <3>1, <4>1 DEF ProbeList, ProbeType
    <3>2. CASE ProbeChunk
      BY <1>0, <3>2 DEF ProbeChunk, ProbeType
    <3>3. ASSUME NEW s \in probe.flight, ProbeDone(s) PROVE probe' \in ProbeType
      BY <1>0, <3>3 DEF ProbeDone, ProbeType
    <3> QED BY <1>1, <3>1, <3>2, <3>3 DEF ProbeLoop
  <2>2. Sources' = Sources /\ src' \in [Sources' -> SourceRow]
    <3>1. CASE src' = src
      BY <1>0, <3>1 DEF Sources
    <3>2. ASSUME NEW s \in Sources, NEW r \in {"ok", "failed"}, src' = [src EXCEPT ![s].status = r]
          PROVE  Sources' = Sources /\ src' \in [Sources' -> SourceRow]
      <4>1. [src[s] EXCEPT !.status = r] \in SourceRow
        BY <1>0 DEF SourceRow
      <4> QED BY <1>0, <3>2, <4>1 DEF Sources
    <3> QED BY <1>1, <3>1, <3>2 DEF ProbeLoop, ProbeList, ProbeChunk, ProbeDone
  <2>3. NotProbe
    BY <1>1 DEF ProbeLoop, ProbeList, ProbeChunk, ProbeDone
  <2> QED BY <1>0, <2>1, <2>2, <2>3 DEF NotProbe, Typed, TasksOK, CountersOK, RowsOK, FileOK, Items
<1>2. CASE VirtMoves
  <2>1. virt' \in VirtType /\ hist' \in HistType
    <3>1. ASSUME NEW i \in Items, VirtBegin(i) PROVE virt' \in VirtType /\ hist' \in HistType
      <4>1. hist' = hist /\ i \in Nat
        BY <3>1, RowIs DEF VirtBegin
      <4>2. PICK S \in SUBSET Seasons : virt' = [NoSeries EXCEPT !.at = "begun", !.series = i, !.left = S]
        BY <3>1 DEF VirtBegin
      <4> QED BY <1>0, <4>1, <4>2, NoSeriesIs DEF VirtType
    <3>2. ASSUME NEW n \in Seasons, VirtFind(n) PROVE virt' \in VirtType /\ hist' \in HistType
      BY <1>0, <3>2 DEF VirtFind, VirtType
    <3>3. CASE VirtLib
      <4>1. \A i \in Items : item[i].lib \in Nat
        BY RowIs DEF ItemRow
      <4>4. PICK n \in Nat : virt' = [virt EXCEPT !.at = "ready", !.lib = n]
        BY <3>3, <4>1 DEF VirtLib
      <4>2. virt' \in VirtType
        BY <1>0, <4>4 DEF VirtType
      <4>3. hist' \in HistType
        BY <1>0, <3>3 DEF VirtLib, HistType
      <4> QED BY <4>2, <4>3
    <3>4. CASE VirtEnd
      BY <1>0, <3>4 DEF VirtEnd, NoSeries, VirtType
    <3> QED BY <1>2, <3>1, <3>2, <3>3, <3>4 DEF VirtMoves
  <2> QED BY <1>0, <1>2, <2>1, VirtMoveIs DEF tables, Typed, TasksOK, CountersOK, RowsOK, FileOK, Items,
      Sources
<1>3. CASE VirtInsert
  <2> DEFINE row == [type |-> "season", parent |-> virt.series, key |-> virt.number, virtual |-> TRUE,
                     lib |-> virt.lib]
  <2>1. row \in ItemRow
    BY <1>0 DEF ItemRow, VirtType, Types, Keys
  <2>2. \/ UNCHANGED <<item, lastItem>>
        \/ lastItem' = lastItem + 1 /\ item' = With(item, lastItem + 1, row)
    BY <1>3 DEF VirtInsert
  <2> HIDE DEF row
  <2>3. lastItem' \in Nat /\ Items' \subseteq 1 .. lastItem' /\ item' \in [Items' -> ItemRow]
    BY <1>0, <2>1, <2>2, ItemAdded DEF Items
  <2>4. virt' \in VirtType
    <3>1. virt' = NoSeries \/ virt' = [virt EXCEPT !.at = "begun", !.number = 0, !.lib = 0]
      BY <1>3 DEF VirtInsert
    <3> QED BY <1>0, <3>1, BegunIs
  <2> QED BY <1>0, <1>3, <2>3, <2>4 DEF VirtInsert, NotVirt, Typed, TasksOK, CountersOK, RowsOK, FileOK,
      Sources
<1>4. ASSUME NEW i \in Items, NEW t \in Titles, Retitle(i, t) PROVE Typed'
  <2>1. [item[i] EXCEPT !.key = t] \in ItemRow
    BY <1>0 DEF ItemRow, Keys
  <2>2. Items' = Items /\ item' \in [Items' -> ItemRow]
    BY <1>0, <1>4, <2>1 DEF Retitle, Items
  <2> QED BY <1>0, <1>4, <2>2 DEF Retitle, Typed, TasksOK, CountersOK, RowsOK, FileOK, Sources
<1>5. CASE Request \/ MakeLibrary
  <2>1. lib' \in Nat /\ lastLib' \in Nat
    BY <1>0, <1>5 DEF Request, MakeLibrary
  <2>2. hist' \in HistType
    BY <1>0, <1>5 DEF Request, MakeLibrary, Disturb, HistType
  <2> QED BY <1>0, <1>5, <2>1, <2>2 DEF Request, MakeLibrary, tables, Typed, TasksOK, CountersOK, RowsOK, FileOK,
      Items, Sources
<1>6. CASE DeleteLibrary
  <2>1. Items' \subseteq 1 .. lastItem /\ item' \in [Items' -> ItemRow]
    BY <1>6, ItemsRemoved DEF DeleteLibrary
  <2>2. Sources' \subseteq 1 .. lastSrc /\ src' \in [Sources' -> SourceRow]
    BY <1>6, SourcesRemoved DEF DeleteLibrary
  <2>3. hist' \in HistType
    BY <1>0, <1>6 DEF DeleteLibrary, HistType
  <2> QED BY <1>0, <1>6, <2>1, <2>2, <2>3 DEF DeleteLibrary, Typed, TasksOK, CountersOK, RowsOK, FileOK
<1>7. ASSUME NEW f \in File, DiskChanges(f) PROVE Typed'
  <2>1. hist' \in HistType /\ disk' \subseteq File
    BY <1>0, <1>7 DEF DiskChanges, Disturb, HistType
  <2> QED BY <1>0, <1>7, <2>1 DEF DiskChanges, tables, Typed, TasksOK, CountersOK, RowsOK, FileOK,
      Items, Sources
<1>8. CASE Restart
  <2>1. hist' \in HistType
    BY <1>0, <1>8 DEF Restart, Disturb, Tear, HistType
  <2>2. loop' = Idle /\ probe' \in ProbeType /\ virt' \in VirtType
    BY <1>8 DEF Restart, Resting, ProbeType, NoSeries, VirtType
  <2>3. Idle \in LoopType /\ Idle.at = "idle"
    <3>1. NoRow \in Nat \X (File \cup {NoFile})
      BY DEF NoRow
    <3> QED BY <3>1 DEF Idle, LoopType, Stage
  <2>4. FileOK'
    BY <2>2, <2>3 DEF FileOK, Seeking, Replacing
  <2> QED BY <1>0, <1>8, <2>1, <2>2, <2>3, <2>4 DEF Restart, tables, Typed, TasksOK, CountersOK, RowsOK,
      Items, Sources
<1> QED BY <1>1, <1>2, <1>3, <1>4, <1>5, <1>6, <1>7, <1>8, ScrapeIs DEF Retitles, Environment

LEMMA TypedStep ==
  Typed /\ [Next]_vars => Typed'
<1>1. ASSUME Typed, Next PROVE Typed'
  BY <1>1, ClaimTyped, WalkTyped, StoreTyped, DetectTyped, OthersTyped DEF Next, ScanLoop
<1>2. ASSUME Typed, UNCHANGED vars PROVE Typed'
  BY <1>2 DEF vars, tables, Typed, TasksOK, CountersOK, RowsOK, FileOK, Items, Sources
<1> QED BY <1>1, <1>2

LEMMA TypedInit == Init => Typed
<1> SUFFICES ASSUME Init PROVE Typed
  OBVIOUS
<1>1. loop \in LoopType /\ loop.at = "idle"
  <2>1. NoRow \in Nat \X (File \cup {NoFile})
    BY DEF NoRow
  <2> QED BY <2>1 DEF Init, Idle, LoopType, Stage
<1>2. FileOK
  BY <1>1 DEF FileOK, Seeking, Replacing
<1>3. probe \in ProbeType /\ virt \in VirtType /\ hist \in HistType
  BY DEF Init, Resting, ProbeType, NoSeries, VirtType, HistType
<1>4. CountersOK
  BY DEF Init, CountersOK
<1>5. RowsOK
  BY DEF Init, RowsOK, Items, Sources
<1> QED BY <1>1, <1>2, <1>3, <1>4, <1>5 DEF Typed, TasksOK

-----------------------------------------------------------------------------
(* One source for an item.                                                 *)

(* No source is new, and those that stay are of the same item and file. *)
NoNewSources ==
  /\ Sources' \subseteq Sources
  /\ \A s \in Sources' : src'[s].item = src[s].item /\ src'[s].file = src[s].file

LEMMA ProbeKeeps ==
  ASSUME Typed, NEW s, ProbeDone(s)
  PROVE  NoNewSources /\ Sources' = Sources
<1>1. src \in [Sources -> SourceRow]
  BY DEF Typed, RowsOK
<1>2. CASE src' = src
  BY <1>2 DEF NoNewSources, Sources
<1>3. ASSUME NEW r, s \in Sources, src' = [src EXCEPT ![s].status = r]
      PROVE  NoNewSources /\ Sources' = Sources
  <2>1. Sources' = Sources
    BY <1>3 DEF Sources
  <2>2. \A t \in Sources : src[t] \in SourceRow
    BY <1>1
  <2>3. \A t \in Sources : src'[t] = IF t = s THEN [src[t] EXCEPT !.status = r] ELSE src[t]
    BY <1>1, <1>3
  <2>4. \A t \in Sources : src'[t].item = src[t].item /\ src'[t].file = src[t].file
    BY <2>2, <2>3 DEF SourceRow
  <2> QED BY <2>1, <2>4 DEF NoNewSources
<1> QED BY <1>2, <1>3 DEF ProbeDone

LEMMA SourcesMove ==
  ASSUME Typed, Next, ~InsertSource PROVE NoNewSources
<1>1. CASE src' = src
  BY <1>1 DEF NoNewSources, Sources
<1>2. ASSUME NEW S, src' = Without(src, S) PROVE NoNewSources
  BY <1>2, SourcesRemoved DEF NoNewSources
<1>3. CASE DropSources \/ DelSource \/ DeleteLibrary
  BY <1>2, <1>3 DEF DropSources, DelSource, DeleteLibrary
<1>4. ASSUME NEW s \in probe.flight, ProbeDone(s) PROVE NoNewSources
  BY <1>4, ProbeKeeps
<1>5. \/ src' = src \/ DropSources \/ DelSource \/ DeleteLibrary
      \/ \E s \in probe.flight : ProbeDone(s)
  BY ScrapeIs, VirtMoveIs DEF Next, ScanLoop, Detection, ProbeLoop, Environment, Claim, ScanStart, ListDir,
      PickFile, FindByPath, Lookup, InsertItem, ReadBack, FindSource, DropSubs, Attach, FileFails,
      DetectList, Stat, DetectEnd, ItemOf, DelSubs, Count, DelItem, DetectFails, ProbeList, ProbeChunk,
      VirtInsert, NotVirt, Retitles, Retitle, Request, MakeLibrary, DiskChanges, Restart, tables
<1> QED BY <1>1, <1>3, <1>4, <1>5

LEMMA OneStep ==
  Typed /\ OneInv /\ [Next]_vars => OneInv'
<1>1. ASSUME Typed, OneInv, InsertSource PROVE OneInv'
  <2> DEFINE row == [item |-> loop.parent, file |-> loop.file,
                     status |-> IF Probed(loop.file) THEN "pending" ELSE "ok"]
  <2>1. /\ src' = With(src, lastSrc + 1, row) /\ lastSrc' = lastSrc + 1
        /\ SourcesOf(loop.parent) = {} /\ loop' = [loop EXCEPT !.at = "attach", !.row = <<lastSrc + 1, loop.file>>]
    BY <1>1 DEF InsertSource, OneInv
  <2>2. row \in SourceRow /\ row.item = loop.parent
    BY <1>1 DEF InsertSource, Typed, TasksOK, FileOK, Replacing, LoopType, SourceRow
  <2> HIDE DEF row
  <2>3. /\ Sources' = Sources \cup {lastSrc + 1} /\ lastSrc + 1 \notin Sources
        /\ src'[lastSrc + 1] = row /\ \A s \in Sources : src'[s] = src[s]
    BY <1>1, <2>1, <2>2, SourceAdded
  <2>4. loop'.at # "insertSource"
    BY <1>1, <2>1 DEF Typed, TasksOK, LoopType
  <2>5. \A s, t \in Sources' : src'[s].item = src'[t].item => s = t
    BY <1>1, <2>1, <2>2, <2>3 DEF OneInv, SourcesOf
  <2> QED BY <2>4, <2>5 DEF OneInv
<1>2. ASSUME Typed, OneInv, NoNewSources,
             loop'.at = "insertSource" => loop.at = "insertSource" /\ loop'.parent = loop.parent
      PROVE  OneInv'
  BY <1>2 DEF OneInv, NoNewSources, SourcesOf
<1>3. ASSUME Typed, OneInv, DropSources PROVE OneInv'
  <2>1. Sources' = Sources \ SourcesOf(loop.parent) /\ \A s \in Sources' : src'[s] = src[s]
    BY <1>3, SourcesRemoved DEF DropSources
  <2>2. loop'.parent = loop.parent
    BY <1>3 DEF DropSources, Typed, TasksOK, LoopType
  <2> QED BY <1>3, <2>1, <2>2 DEF OneInv, SourcesOf
<1>4. ASSUME Typed, OneInv, Next PROVE OneInv'
  <2>1. CASE loop' = loop
    <3>1. ~InsertSource
      BY <1>4, <2>1 DEF InsertSource, Typed, TasksOK, LoopType
    <3> QED BY <1>2, <1>4, <2>1, <3>1, SourcesMove
  <2>2. CASE loop' # loop /\ ~DropSources /\ ~InsertSource
    <3>1. loop'.at # "insertSource"
      <4>1. CASE Detection
        BY <1>4, <4>1, DetectTyped DEF Scanning
      <4>2. CASE Restart
        BY <4>2 DEF Restart, Idle
      <4>3. CASE ScanLoop
        <5>1. loop \in LoopType
          BY <1>4 DEF Typed, TasksOK
        <5>2. CASE Claim \/ ScanStart
          BY <5>1, <5>2 DEF Claim, ScanStart, Idle
        <5>3. CASE \E d \in loop.dirs : ListDir(d)
          BY <5>1, <5>3 DEF ListDir, LoopType
        <5>4. CASE \E f \in loop.todo : PickFile(f)
          BY <5>1, <5>4 DEF PickFile, LoopType
        <5>5. ASSUME NEW i, loop' = Descend(i), loop.at # "insertSource" PROVE loop'.at # "insertSource"
          BY <5>1, <5>5 DEF Descend, LoopType
        <5>6. CASE FindByPath \/ Lookup \/ ReadBack
          BY <5>1, <5>5, <5>6 DEF FindByPath, Lookup, ReadBack, LoopType
        <5>7. CASE InsertItem \/ FindSource \/ DropSubs \/ Attach \/ FileFails
          BY <5>1, <5>7 DEF InsertItem, FindSource, DropSubs, Attach, FileFails, LoopType
        <5> QED BY <2>2, <4>3, <5>2, <5>3, <5>4, <5>6, <5>7 DEF ScanLoop
      <4>4. ProbeLoop \/ ScrapeLoop \/ (Environment /\ ~Restart) => loop' = loop
        BY ScrapeIs, VirtMoveIs DEF ProbeLoop, ProbeList, ProbeChunk, ProbeDone, NotProbe, VirtInsert,
            NotVirt, Retitles, Retitle, Environment, Request, MakeLibrary, DeleteLibrary, DiskChanges
      <4> QED BY <1>4, <2>2, <4>1, <4>2, <4>3, <4>4 DEF Next, Environment
    <3> QED BY <1>2, <1>4, <2>2, <3>1, SourcesMove
  <2> QED BY <1>1, <1>3, <1>4, <2>1, <2>2
<1>5. ASSUME Typed, OneInv, UNCHANGED vars PROVE OneInv'
  BY <1>2, <1>5 DEF vars, tables, NoNewSources, Sources
<1> QED BY <1>1, <1>4, <1>5

-----------------------------------------------------------------------------
(* The tables while the walk goes through them.                            *)

(* Every item stays, and stands for what it stood for. *)
ItemsStay ==
  \A i \in Items : /\ i \in Items' /\ item'[i].type = item[i].type /\ item'[i].parent = item[i].parent
                   /\ item'[i].lib = item[i].lib /\ item'[i].virtual = item[i].virtual
                   /\ item[i].type # "movie" => item'[i].key = item[i].key

LEMMA StandsStay ==
  ASSUME ItemsOK, ItemsStay, NEW i, NEW f \in File, NEW n, Stands(i, f, n)
  PROVE  Stands(i, f, n)'
<1>1. i \in Items /\ i \in Items'
  BY DEF Stands, ItemsStay
<1>2. ASSUME NEW k \in Items, First(k, f) PROVE First(k, f)'
  BY <1>2 DEF First, ItemsStay
<1>3. ASSUME NEW k \in Items, Second(k, f) PROVE Second(k, f)'
  <2>1. item[k].parent \in Items
    BY <1>3 DEF Second, ItemsOK, Placed
  <2> QED BY <1>2, <1>3, <2>1 DEF Second, ItemsStay, First
<1>4. ASSUME NEW k \in Items, Third(k, f) PROVE Third(k, f)'
  <2>1. item[k].parent \in Items
    BY <1>4 DEF Third, ItemsOK, Placed
  <2> QED BY <1>3, <1>4, <2>1 DEF Third, ItemsStay, Second, First
<1> QED BY <1>1, <1>2, <1>3, <1>4 DEF Stands

LEMMA HoldsStay ==
  ASSUME ItemsOK, ItemsStay, NEW i, NEW f \in File, Holds(i, f)
  PROVE  Holds(i, f)'
<1>1. Stands(i, f, Len(Chain[f]))'
  BY StandsStay DEF Holds
<1> QED BY <1>1 DEF Holds

(* What is above an item that stays is as it was. *)
LEMMA PlacedStay ==
  ASSUME ItemsOK, ItemsStay, lib' = lib, NEW i \in Items PROVE Placed(i)'
BY DEF ItemsOK, ItemsStay, Placed

LEMMA SameItems ==
  ASSUME Typed, item' = item PROVE Items' = Items /\ ItemsStay
BY DEF Items, ItemsStay

LEMMA SameItemsOK ==
  ASSUME ItemsOK, item' = item, lib' = lib PROVE ItemsOK'
BY DEF ItemsOK, Placed, Items

LEMMA FewerSourcesOK ==
  ASSUME Typed, ItemsOK, SourcesOK, ItemsStay, NoNewSources, subs' \subseteq Sources'
  PROVE  SourcesOK'
<1>1. ASSUME NEW s \in Sources' PROVE Holds(src[s].item, src[s].file)'
                                  /\ src'[s].item = src[s].item /\ src'[s].file = src[s].file
  <2>1. s \in Sources /\ src'[s].item = src[s].item /\ src'[s].file = src[s].file
    BY DEF NoNewSources
  <2>2. src[s].file \in File /\ src[s].item \in Nat
    BY <2>1, RowIs DEF SourceRow
  <2>3. PICK i \in Nat, f \in File : i = src[s].item /\ f = src[s].file
    BY <2>2
  <2>4. Holds(i, f)
    BY <2>1, <2>3 DEF SourcesOK
  <2>5. Holds(i, f)'
    BY <2>4, HoldsStay
  <2>6. src'[s].item = i /\ src'[s].file = f
    BY <2>1, <2>3
  <2> QED BY <2>1, <2>5, <2>6
<1>2. \A s, t \in Sources' : src'[s].file = src'[t].file => s = t
  BY DEF SourcesOK, NoNewSources
<1> QED BY <1>1, <1>2 DEF SourcesOK

(* The items of a chain are the only ones of their kind. *)
LEMMA StandsOnce ==
  ASSUME Typed, ItemsOK, NEW f \in File, Len(Chain[f]) = 3, NEW n \in 1 .. 3, NEW i, NEW j,
         Stands(i, f, n), Stands(j, f, n)
  PROVE  i = j
<1>0. /\ Chain[f][1].type = "series"
      /\ i \in Items /\ j \in Items
  BY ChainIs DEF Stands
<1>1. ASSUME NEW k \in Items, NEW l \in Items, First(k, f), First(l, f) PROVE k = l
  <2>1. item[k].type = "series" /\ item[l].type = "series" /\ item[k].key = item[l].key
    BY <1>0, <1>1 DEF First
  <2>2. item[k].parent = 0 /\ item[l].parent = 0
    BY <2>1 DEF ItemsOK, Placed
  <2> QED BY <2>1, <2>2 DEF ItemsOK
<1>2. ASSUME NEW k \in Items, NEW l \in Items, Second(k, f), Second(l, f) PROVE k = l
  <2>1. item[k].parent \in Items /\ item[l].parent \in Items
    BY <1>2 DEF Second, ItemsOK, Placed
  <2>2. item[k].parent = item[l].parent
    BY <1>1, <1>2, <2>1 DEF Second
  <2> QED BY <1>2, <2>2 DEF Second, ItemsOK
<1>3. ASSUME NEW k \in Items, NEW l \in Items, Third(k, f), Third(l, f) PROVE k = l
  <2>1. item[k].parent \in Items /\ item[l].parent \in Items
    BY <1>3 DEF Third, ItemsOK, Placed
  <2>2. item[k].parent = item[l].parent
    BY <1>2, <1>3, <2>1 DEF Third
  <2> QED BY <1>3, <2>2 DEF Third, ItemsOK
<1> QED BY <1>0, <1>1, <1>2, <1>3 DEF Stands

(* The walk comes to the item of the step it is at: one it found, or made. *)
LEMMA ReachedItem ==
  ASSUME Typed, ItemsOK, SourcesOK, WalkAt(loop), loop.at \in Seeking,
         NEW i, Stands(i, loop.file, loop.level), loop.level = Len(Chain[loop.file])
  PROVE  /\ Holds(i, loop.file)
         /\ \A s \in Sources : src[s].file = loop.file => src[s].item = i
<1>1. loop.file \in File /\ Len(Chain[loop.file]) \in {1, 3}
  BY ChainIs DEF Typed, FileOK
<1>2. Holds(i, loop.file)
  BY DEF Holds
<1>3. ASSUME NEW s \in Sources, src[s].file = loop.file, Len(Chain[loop.file]) = 3
      PROVE  src[s].item = i
  <2>1. PICK f \in File : f = loop.file
    BY <1>1
  <2>2. Stands(src[s].item, f, 3) /\ Stands(i, f, 3)
    BY <1>3, <2>1 DEF SourcesOK, Holds
  <2>3. 3 \in 1 .. 3
    OBVIOUS
  <2> QED BY <1>3, <2>1, <2>2, <2>3, StandsOnce
<1>4. Len(Chain[loop.file]) = 1 => Unheld(loop.file)
  BY DEF WalkAt
<1> QED BY <1>1, <1>2, <1>3, <1>4 DEF Unheld

LEMMA MatchStands ==
  ASSUME Typed, ItemsOK, WalkAt(loop), loop.at \in Seeking, NEW i \in Items, Matches(i, Step(loop.file))
  PROVE  Stands(i, loop.file, loop.level)
<1>1. loop.file \in File /\ loop.level \in 1 .. Len(Chain[loop.file]) /\ Len(Chain[loop.file]) \in {1, 3}
  BY ChainIs DEF Typed, FileOK
<1>2. /\ item[i].type = Chain[loop.file][loop.level].type /\ item[i].key = Chain[loop.file][loop.level].key
      /\ Chain[loop.file][loop.level].type \notin {"movie", "series"} => item[i].parent = loop.parent
  BY DEF Matches, Step
<1>3. CASE loop.level = 1
  BY <1>2, <1>3 DEF Stands, First
<1>4. CASE loop.level = 2
  <2>1. Chain[loop.file][2].type = "season"
    BY <1>1, <1>4, ChainIs
  <2>2. First(loop.parent, loop.file)
    BY <1>4 DEF WalkAt, Stands
  <2> QED BY <1>2, <1>4, <2>1, <2>2 DEF Stands, Second
<1>5. CASE loop.level = 3
  <2>1. Chain[loop.file][3].type = "episode"
    BY <1>1, <1>5, ChainIs
  <2>2. Second(loop.parent, loop.file)
    BY <1>5 DEF WalkAt, Stands
  <2> QED BY <1>2, <1>5, <2>1, <2>2 DEF Stands, Third
<1>6. loop.level \in {1, 2, 3}
  <2>1. CASE Len(Chain[loop.file]) = 1
    BY <1>1, <2>1
  <2>2. CASE Len(Chain[loop.file]) = 3
    BY <1>1, <2>2
  <2> QED BY <1>1, <2>1, <2>2
<1> QED BY <1>3, <1>4, <1>5, <1>6

(* A step of the loop alone. *)
LEMMA SameStore ==
  ASSUME UNCHANGED <<item, src, subs, lib, lastItem>>, NEW x
  PROVE  (WalkAt(x)' <=> WalkAt(x)) /\ (DetectAt(x)' <=> DetectAt(x))
BY DEF WalkAt, DetectAt, Stands, First, Second, Third, Holds, Unheld, SourcesOf, Items, Sources

LEMMA LoopGood ==
  ASSUME Typed, Good, UNCHANGED <<item, src, subs, lib, lastItem, virt>>, NEW x, loop' = x,
         WalkAt(x), DetectAt(x)
  PROVE  Good'
<1>1. WalkAt(x)' /\ DetectAt(x)'
  BY SameStore
<1>2. WalkAt(loop)' /\ DetectAt(loop)'
  BY <1>1
<1>3. ItemsOK' /\ ItemsStay
  BY SameItems, SameItemsOK DEF Good
<1>4. NoNewSources /\ subs' \subseteq Sources'
  BY DEF NoNewSources, Sources, Good, SourcesOK
<1>5. SourcesOK'
  BY <1>3, <1>4, FewerSourcesOK DEF Good
<1>6. VirtOK'
  BY DEF Good, VirtOK, Items
<1> QED BY <1>2, <1>3, <1>5, <1>6 DEF Good

(* At the stages where the walk, or detection, holds nothing. *)
LEMMA AtRest ==
  ASSUME NEW x, x.at \in {"idle", "claimed", "stat", "itemOf"} PROVE WalkAt(x) /\ DetectAt(x)
BY DEF WalkAt, DetectAt, Scanning, Seeking, Replacing, Removing

LEMMA AtWalk ==
  ASSUME NEW x, x.at = "walk", x.lib = lib, lib # 0 PROVE WalkAt(x) /\ DetectAt(x)
BY DEF WalkAt, DetectAt, Scanning, Seeking, Replacing, Removing

(* The walk goes down to the next item of the chain, or on to the source. *)
LEMMA DescendGood ==
  ASSUME Typed, Good, UNCHANGED <<item, src, subs, lib, lastItem, virt>>,
         loop.at \in {"byPath"} \cup Seeking, NEW i \in Nat, loop' = Descend(i),
         Stands(i, loop.file, loop.level),
         loop.level = Len(Chain[loop.file]) => \A s \in Sources : src[s].file = loop.file => src[s].item = i
  PROVE  Good'
<1>1. PICK x \in LoopType :
        /\ loop' = x /\ x.file = loop.file /\ x.lib = loop.lib /\ x.parent = i
        /\ \/ /\ loop.level < Len(Chain[loop.file])
              /\ x.at = "lookup" /\ x.level = loop.level + 1
           \/ loop.level = Len(Chain[loop.file]) /\ x.at = "source"
  BY DescendIs
<1>2. loop.file \in File /\ Len(Chain[loop.file]) \in {1, 3} /\ loop.level \in 1 .. Len(Chain[loop.file])
  BY ChainIs DEF Typed, FileOK, Seeking
<1>3. x.lib = lib /\ lib # 0
  BY <1>1 DEF Good, WalkAt, Scanning, Seeking
<1>4. CASE loop.level < Len(Chain[loop.file])
  <2>1. x.at = "lookup" /\ x.level = loop.level + 1 /\ x.level # 1 /\ x.level - 1 = loop.level
        /\ Len(Chain[loop.file]) # 1
    <3>1. x.at = "lookup" /\ x.level = loop.level + 1
      BY <1>1, <1>4
    <3>2. /\ loop.level \in Nat /\ loop.level >= 1 /\ loop.level < Len(Chain[loop.file])
          /\ Len(Chain[loop.file]) \in Nat
      BY <1>2, <1>4
    <3>3. loop.level + 1 # 1 /\ (loop.level + 1) - 1 = loop.level
      BY <3>2
    <3>4. Len(Chain[loop.file]) # 1
      <4>1. PICK n \in Nat, m \in Nat : n = Len(Chain[loop.file]) /\ m = loop.level /\ m >= 1 /\ m < n
        BY <3>2
      <4>2. m >= 1 /\ m < n /\ m \in Nat /\ n \in Nat
        BY <4>1
      <4>3. n # 1
        BY ONLY <4>2
      <4> QED BY <4>1, <4>3
    <3> QED BY ONLY <3>1, <3>3, <3>4
  <2>2. Stands(x.parent, x.file, x.level - 1)
    BY <1>1, <2>1
  <2>3. WalkAt(x)
    BY <1>1, <1>3, <2>1, <2>2 DEF WalkAt, Scanning, Seeking, Replacing
  <2>4. DetectAt(x)
    BY <2>1 DEF DetectAt, Removing
  <2> QED BY <1>1, <2>3, <2>4, LoopGood
<1>5. CASE loop.level = Len(Chain[loop.file])
  <2>1. x.at = "source"
    BY <1>1, <1>5
  <2>2. Holds(x.parent, x.file)
    BY <1>1, <1>5 DEF Holds
  <2>3. WalkAt(x)
    BY <1>1, <1>3, <1>5, <2>1, <2>2 DEF WalkAt, Scanning, Seeking, Replacing
  <2>4. DetectAt(x)
    BY <2>1 DEF DetectAt, Removing
  <2> QED BY <1>1, <2>3, <2>4, LoopGood
<1> QED BY <1>2, <1>4, <1>5

LEMMA WalkGood ==
  ASSUME Typed, Good, Clean',
         \/ \E d \in loop.dirs : ListDir(d)
         \/ \E f \in loop.todo : PickFile(f)
         \/ FindByPath \/ Lookup \/ ReadBack \/ FindSource \/ FileFails
  PROVE  Good'
<1>0. loop \in LoopType /\ UNCHANGED <<item, src, subs, lib, lastItem, virt>>
      /\ loop.at \in Scanning /\ loop.lib = lib /\ lib # 0
  <2>1. loop \in LoopType /\ loop.at \in Scanning
    BY DEF Typed, TasksOK, ListDir, PickFile, FindByPath, Lookup, ReadBack, FindSource, FileFails,
        InFile, Scanning
  <2>2. UNCHANGED <<item, src, subs, lib, lastItem, virt>>
    BY DEF ListDir, PickFile, FindByPath, Lookup, ReadBack, FindSource, FileFails, LoopOnly, tables
  <2> QED BY <2>1, <2>2 DEF Good, WalkAt
<1>1. ASSUME NEW x, loop' = x, x.at = "walk", x.lib = loop.lib PROVE Good'
  BY <1>0, <1>1, AtWalk, LoopGood
<1>2. ASSUME NEW d \in loop.dirs, ListDir(d) PROVE Good'
  <2>1. loop'.at = "walk" /\ loop'.lib = loop.lib
    BY <1>0, <1>2 DEF ListDir, LoopType
  <2>2. PICK x : x = loop'
    OBVIOUS
  <2> QED BY <1>1, <2>1, <2>2
<1>3. ASSUME NEW f \in loop.todo, PickFile(f) PROVE Good'
  <2>1. f \in File /\ Len(Chain[f]) \in {1, 3}
    BY <1>0, ChainIs DEF LoopType
  <2>2. CASE loop' = [loop EXCEPT !.todo = @ \ {f}]
    BY <1>0, <1>1, <1>3, <2>2 DEF PickFile, LoopType
  <2>3. CASE loop' = [loop EXCEPT !.todo = @ \ {f}, !.file = f, !.level = 1, !.parent = 0,
                         !.at = IF Chain[f][1].type = "movie" THEN "byPath" ELSE "lookup"]
    <3>1. PICK x : x = loop'
      OBVIOUS
    <3>2. /\ x.at = IF Chain[f][1].type = "movie" THEN "byPath" ELSE "lookup"
          /\ x.file = f /\ x.level = 1 /\ x.parent = 0 /\ x.lib = lib
      BY <1>0, <2>3, <3>1 DEF LoopType
    <3>3. Chain[f][1].type = "movie" <=> Len(Chain[f]) = 1
      BY <2>1, ChainIs
    <3>4. WalkAt(x) /\ DetectAt(x)
      BY <1>0, <3>2, <3>3 DEF WalkAt, DetectAt, Scanning, Seeking, Replacing, Removing
    <3> QED BY <1>0, <3>1, <3>4, LoopGood
  <2> QED BY <1>3, <2>2, <2>3 DEF PickFile
<1>4. CASE FindByPath
  <2> DEFINE found == {i \in Items : HoldsPath(i)}
  <2>1. loop.at = "byPath" /\ loop.file \in File /\ Len(Chain[loop.file]) = 1 /\ loop.level = 1
        /\ loop.parent = 0 /\ Chain[loop.file][1].type = "movie"
    BY <1>4, ChainIs DEF FindByPath, Typed, FileOK, Good, WalkAt
  <2>2. ASSUME NEW s \in Sources, src[s].file = loop.file PROVE src[s].item \in found
    <3>1. Stands(src[s].item, loop.file, 1)
      BY <2>1, <2>2 DEF Good, SourcesOK, Holds
    <3>2. /\ src[s].item \in Items /\ item[src[s].item].type = "movie"
          /\ item[src[s].item].lib = lib
      BY <2>1, <3>1 DEF Stands, First, Good, ItemsOK, Placed
    <3> QED BY <1>0, <2>2, <3>2 DEF HoldsPath, SourcesOf
  <2>3. CASE found = {} /\ loop' = [loop EXCEPT !.at = "lookup"]
    <3>1. PICK x : x = loop'
      OBVIOUS
    <3>2. x.at = "lookup" /\ x.file = loop.file /\ x.level = 1 /\ x.parent = 0 /\ x.lib = lib
      BY <1>0, <2>1, <2>3, <3>1 DEF LoopType
    <3>3. Unheld(x.file)
      BY <2>2, <2>3, <3>2 DEF Unheld
    <3>4. WalkAt(x) /\ DetectAt(x)
      BY <1>0, <2>1, <3>2, <3>3 DEF WalkAt, DetectAt, Scanning, Seeking, Replacing, Removing
    <3> QED BY <1>0, <3>1, <3>4, LoopGood
  <2>4. CASE found # {} /\ loop' = Descend(Min(found))
    <3>1. Min(found) \in found /\ Min(found) \in Nat
      BY <2>4, FoundIs
    <3>2. PICK i \in Nat : i \in found /\ loop' = Descend(i)
      BY <2>4, <3>1
    <3>3. i \in Items /\ item[i].type = "movie" /\ \E s \in Sources : src[s].item = i /\ src[s].file = loop.file
      BY <3>2 DEF HoldsPath, SourcesOf
    <3>4. Stands(i, loop.file, loop.level)
      BY <2>1, <3>3 DEF Stands, First
    <3>5. \A s \in Sources : src[s].file = loop.file => src[s].item = i
      BY <3>3 DEF Good, SourcesOK
    <3> QED BY <1>0, <2>1, <3>2, <3>4, <3>5, DescendGood
  <2> QED BY <1>4, <2>3, <2>4 DEF FindByPath
<1>5. ASSUME loop.at \in Seeking, NEW i \in Items, loop' = Descend(i), Stands(i, loop.file, loop.level)
      PROVE  Good'
  <2>1. i \in Nat
    BY RowIs
  <2>2. loop.level = Len(Chain[loop.file]) => \A s \in Sources : src[s].file = loop.file => src[s].item = i
    BY <1>5, ReachedItem DEF Good
  <2> QED BY <1>0, <1>5, <2>1, <2>2, DescendGood
<1>6. CASE Lookup
  <2>1. loop.at = "lookup" /\ loop.at \in Seeking /\ loop.file \in File
        /\ loop.level \in 1 .. Len(Chain[loop.file])
    BY <1>6 DEF Lookup, Seeking, Typed, FileOK
  <2>2. CASE (\A i \in Items : ~Matches(i, Step(loop.file))) /\ loop' = [loop EXCEPT !.at = "insert"]
    <3>1. PICK x : x = loop'
      OBVIOUS
    <3>2. x.at = "insert" /\ x.file = loop.file /\ x.level = loop.level /\ x.parent = loop.parent /\ x.lib = lib
      BY <1>0, <2>2, <3>1 DEF LoopType
    <3>3. loop.level = 1 /\ Len(Chain[loop.file]) = 3 =>
            \A i \in Items : item[i].type = "series" => item[i].key # Chain[loop.file][1].key
      <4> SUFFICES ASSUME loop.level = 1, Len(Chain[loop.file]) = 3, NEW i \in Items, item[i].type = "series",
                          item[i].key = Chain[loop.file][1].key
                   PROVE  FALSE
        OBVIOUS
      <4>1. Chain[loop.file][1].type = "series"
        BY <2>1, ChainIs
      <4>2. item[i].lib = loop.lib
        BY <1>0 DEF Good, ItemsOK, Placed
      <4>3. Matches(i, Step(loop.file))
        BY <4>1, <4>2 DEF Matches, Step
      <4> QED BY <2>2, <4>3
    <3>4. WalkAt(x) /\ DetectAt(x)
      BY <1>0, <2>1, <3>2, <3>3 DEF Good, WalkAt, DetectAt, Scanning, Seeking, Replacing, Removing
    <3> QED BY <1>0, <3>1, <3>4, LoopGood
  <2>3. CASE \E i \in Items : Matches(i, Step(loop.file)) /\ loop' = Descend(i)
    <3>1. PICK i \in Items : Matches(i, Step(loop.file)) /\ loop' = Descend(i)
      BY <2>3
    <3>2. Stands(i, loop.file, loop.level)
      BY <2>1, <3>1, MatchStands DEF Good
    <3> QED BY <1>5, <2>1, <3>1, <3>2
  <2> QED BY <1>6, <2>2, <2>3 DEF Lookup
<1>7. CASE ReadBack
  <2>1. loop.at = "readBack" /\ loop.at \in Seeking
    BY <1>7 DEF ReadBack, Seeking
  <2>2. Stands(loop.item, loop.file, loop.level) /\ loop.item \in Items
    BY <2>1 DEF Good, WalkAt, Stands
  <2>3. loop' = Descend(Max(Items)) /\ Max(Items) = loop.item
    <3>1. hist \in HistType
      BY DEF Typed, TasksOK
    <3> QED BY <1>7, <2>2, <3>1 DEF ReadBack, Clean, HistType
  <2>4. PICK i \in Items : i = loop.item
    BY <2>2
  <2> QED BY <1>5, <2>1, <2>2, <2>3, <2>4
<1>8. CASE FindSource
  <2> DEFINE found == {s \in SourcesOf(loop.parent) : src[s].file = loop.file}
  <2>1. loop.at = "source" /\ Holds(loop.parent, loop.file)
        /\ \A s \in Sources : src[s].file = loop.file => s \in found
    BY <1>8 DEF FindSource, Good, WalkAt, SourcesOf
  <2>2. CASE found = {} /\ loop' = [loop EXCEPT !.at = "dropSubs"]
    <3>1. PICK x : x = loop'
      OBVIOUS
    <3>2. x.at = "dropSubs" /\ x.file = loop.file /\ x.parent = loop.parent /\ x.lib = lib
      BY <1>0, <2>2, <3>1 DEF LoopType
    <3>3. Unheld(x.file)
      BY <2>1, <2>2, <3>2 DEF Unheld
    <3>4. WalkAt(x) /\ DetectAt(x)
      BY <1>0, <2>1, <3>2, <3>3 DEF WalkAt, DetectAt, Scanning, Seeking, Replacing, Removing
    <3> QED BY <1>0, <3>1, <3>4, LoopGood
  <2>3. CASE found # {} /\ loop' = [loop EXCEPT !.at = "attach", !.row = <<Min(found), loop.file>>]
    <3>1. Min(found) \in Sources
      BY <2>3, FoundIs DEF SourcesOf
    <3>2. PICK x : x = loop'
      OBVIOUS
    <3>3. x.at = "attach" /\ x.row[1] \in Sources /\ x.lib = lib
      BY <1>0, <2>3, <3>1, <3>2 DEF LoopType
    <3>4. WalkAt(x) /\ DetectAt(x)
      BY <1>0, <3>3 DEF WalkAt, DetectAt, Scanning, Seeking, Replacing, Removing
    <3> QED BY <1>0, <3>2, <3>4, LoopGood
  <2> QED BY <1>8, <2>2, <2>3 DEF FindSource
<1>9. CASE FileFails
  BY <1>0, <1>1, <1>9 DEF FileFails, LoopType
<1> QED BY <1>2, <1>3, <1>4, <1>6, <1>7, <1>8, <1>9

(* Items are added: what the new one needs is that it is placed, and that there
   is none like it yet. *)
LEMMA MoreItemsOK ==
  ASSUME Typed, ItemsOK, NEW row \in ItemRow, item' = With(item, lastItem + 1, row),
         lastItem' = lastItem + 1, lib' = lib, ~Taken(row),
         row.type \in {"movie", "series"} => row.parent = 0,
         row.type = "series" => \A i \in Items : item[i].type = "series" => item[i].key # row.key,
         row.type = "season" => row.parent \in Items /\ item[row.parent].type = "series",
         row.type = "episode" => row.parent \in Items /\ item[row.parent].type = "season",
         row.lib = lib, lib # 0, row.virtual => row.type = "season"
  PROVE  ItemsOK' /\ ItemsStay
<1>1. /\ Items' = Items \cup {lastItem + 1} /\ lastItem + 1 \notin Items
      /\ item'[lastItem + 1] = row /\ \A i \in Items : item'[i] = item[i]
  BY ItemAdded
<1>2. ItemsStay
  BY <1>1 DEF ItemsStay
<1>3. ASSUME NEW i \in Items' PROVE Placed(i)'
  <2>1. CASE i \in Items
    BY <1>2, <2>1, PlacedStay
  <2>2. CASE i = lastItem + 1
    <3>1. item'[i] = row
      BY <1>1, <2>2
    <3>2. row.parent \in Items => row.parent \in Items' /\ item'[row.parent] = item[row.parent]
      BY <1>1
    <3> QED BY <3>1, <3>2 DEF Placed
  <2> QED BY <1>1, <2>1, <2>2
<1>4. row.type \in Types
  BY DEF ItemRow
<1>5. ASSUME NEW i \in Items, item[i].type = row.type, item[i].type # "movie",
             item[i].parent = row.parent, item[i].key = row.key
      PROVE  FALSE
  <2>1. CASE row.type = "series"
    BY <1>5, <2>1
  <2>2. CASE row.type \in {"season", "episode"}
    BY <1>5, <2>2 DEF Taken
  <2> QED BY <1>4, <1>5, <2>1, <2>2 DEF Types
<1>6. ASSUME NEW i \in Items', NEW j \in Items', item'[i].type = item'[j].type, item'[i].type # "movie",
             item'[i].parent = item'[j].parent, item'[i].key = item'[j].key
      PROVE  i = j
  <2>1. CASE i \in Items /\ j \in Items
    BY <1>1, <1>6, <2>1 DEF ItemsOK
  <2>2. CASE i \in Items /\ j \notin Items
    BY <1>1, <1>5, <1>6, <2>2
  <2>3. CASE i \notin Items /\ j \in Items
    BY <1>1, <1>5, <1>6, <2>3
  <2>4. CASE i \notin Items /\ j \notin Items
    BY <1>1, <2>4
  <2> QED BY <2>1, <2>2, <2>3, <2>4
<1> QED BY <1>2, <1>3, <1>6 DEF ItemsOK

LEMMA InsertItemGood ==
  ASSUME Typed, Good, InsertItem PROVE Good'
<1>0. /\ loop \in LoopType /\ loop.at = "insert" /\ loop.at \in Seeking /\ loop.lib = lib /\ lib # 0
      /\ UNCHANGED <<src, subs, lib, virt>> /\ loop.file \in File
      /\ loop.level \in 1 .. Len(Chain[loop.file]) /\ Len(Chain[loop.file]) \in {1, 3}
  <2>1. loop \in LoopType /\ loop.at = "insert"
    BY DEF Typed, TasksOK, InsertItem
  <2> QED BY <2>1, ChainIs DEF InsertItem, LoopOnly, Typed, FileOK, Seeking, Good, WalkAt, Scanning
<1>1. CASE Taken(NewItem)
  <2>1. UNCHANGED <<item, lastItem>> /\ loop' = [loop EXCEPT !.at = "walk"]
    BY <1>1 DEF InsertItem
  <2>2. PICK x : x = loop'
    OBVIOUS
  <2>3. x.at = "walk" /\ x.lib = lib
    BY <1>0, <2>1, <2>2 DEF LoopType
  <2> QED BY <1>0, <2>1, <2>2, <2>3, AtWalk, LoopGood
<1>2. CASE ~Taken(NewItem)
  <2> DEFINE f == loop.file
  <2>1. /\ lastItem' = lastItem + 1 /\ item' = With(item, lastItem + 1, NewItem)
        /\ loop' = [loop EXCEPT !.at = "readBack", !.item = lastItem + 1]
    BY <1>2 DEF InsertItem
  <2>2. /\ NewItem.type = Chain[f][loop.level].type /\ NewItem.key = Chain[f][loop.level].key
        /\ NewItem.parent = loop.parent /\ NewItem.lib = lib /\ ~NewItem.virtual
    BY <1>0 DEF NewItem, Step
  <2>3. NewItem \in ItemRow
    <3>1. loop.parent \in Nat /\ loop.lib \in Nat
      BY <1>0 DEF LoopType
    <3>2. Step(loop.file).type \in Types /\ Step(loop.file).key \in Keys
      BY <1>0, ChainIs DEF Step
    <3> QED BY <3>1, <3>2 DEF NewItem, ItemRow
  <2>4. loop.level \in {1, 2, 3} /\ (loop.level # 1 => Len(Chain[f]) = 3)
    <3>1. CASE Len(Chain[f]) = 1
      BY <1>0, <3>1
    <3>2. CASE Len(Chain[f]) = 3
      BY <1>0, <3>2
    <3> QED BY <1>0, <3>1, <3>2
  <2>5. PICK row \in ItemRow :
          /\ row = NewItem /\ item' = With(item, lastItem + 1, row) /\ ~Taken(row)
          /\ row.type = Chain[f][loop.level].type /\ row.key = Chain[f][loop.level].key
          /\ row.parent = loop.parent /\ row.lib = lib /\ ~row.virtual
    <3>1. PICK row \in ItemRow : row = NewItem
      BY <2>3
    <3> QED BY <1>2, <2>1, <2>2, <3>1
  <2>6. /\ row.type \in {"movie", "series"} => row.parent = 0
        /\ row.type = "series" => \A i \in Items : item[i].type = "series" => item[i].key # row.key
        /\ row.type = "season" => row.parent \in Items /\ item[row.parent].type = "series"
        /\ row.type = "episode" => row.parent \in Items /\ item[row.parent].type = "season"
    <3>1. CASE loop.level = 1
      <4>1. row.type \in {"movie", "series"} /\ row.parent = 0
        BY <1>0, <2>5, <3>1, ChainIs DEF Good, WalkAt
      <4>2. row.type = "series" => \A i \in Items : item[i].type = "series" => item[i].key # row.key
        BY <1>0, <2>5, <3>1, ChainIs DEF Good, WalkAt
      <4> QED BY <4>1, <4>2
    <3>2. CASE loop.level = 2
      <4>1. row.type = "season" /\ Stands(loop.parent, f, 1) /\ Chain[f][1].type = "series"
        BY <1>0, <2>4, <2>5, <3>2, ChainIs DEF Good, WalkAt
      <4> QED BY <2>5, <4>1 DEF Stands, First
    <3>3. CASE loop.level = 3
      <4>1. row.type = "episode" /\ Stands(loop.parent, f, 2)
        BY <1>0, <2>4, <2>5, <3>3, ChainIs DEF Good, WalkAt
      <4> QED BY <2>5, <4>1 DEF Stands, Second
    <3> QED BY <2>4, <3>1, <3>2, <3>3
  <2>7. ItemsOK' /\ ItemsStay
    <3>1. Typed /\ ItemsOK /\ lib' = lib /\ lib # 0 /\ lastItem' = lastItem + 1
      BY <1>0, <2>1 DEF Good
    <3> HIDE DEF f
    <3> QED BY <2>5, <2>6, <3>1, MoreItemsOK
  <2>8. Good'
    <3>1. NoNewSources /\ subs' \subseteq Sources' /\ Sources' = Sources
      BY <1>0 DEF NoNewSources, Sources, Good, SourcesOK
    <3>2. SourcesOK'
      BY <2>7, <3>1, FewerSourcesOK DEF Good
    <3>3. VirtOK'
      BY <1>0, <2>7 DEF Good, VirtOK, ItemsStay
    <3>4. PICK x : x = loop'
      OBVIOUS
    <3>5. x.at = "readBack" /\ x.file = f /\ x.level = loop.level /\ x.parent = loop.parent
          /\ x.item = lastItem + 1 /\ x.lib = lib
      BY <1>0, <2>1, <3>4 DEF LoopType
    <3>6. DetectAt(x)'
      BY <3>5 DEF DetectAt, Removing
    <3>7. PICK g \in File : g = f
      BY <1>0
    <3>8. x.level # 1 => Stands(x.parent, g, x.level - 1) /\ Stands(x.parent, g, x.level - 1)'
      <4>1. x.level # 1 => Stands(x.parent, g, x.level - 1)
        BY <1>0, <3>5, <3>7 DEF Good, WalkAt
      <4> QED BY <2>7, <4>1, StandsStay DEF Good
    <3>9. x.item \in Items' /\ item'[x.item] = NewItem
      BY <2>1, <2>3, <3>5, ItemAdded
    <3>10. Stands(x.item, g, x.level)'
      <4>1. CASE x.level = 1
        BY <2>2, <3>5, <3>7, <3>9, <4>1 DEF Stands, First
      <4>2. CASE x.level = 2
        <5>1. First(x.parent, g)' /\ Chain[g][2].type = "season"
          BY <2>4, <3>5, <3>7, <3>8, <4>2, ChainIs DEF Stands
        <5>2. Second(x.item, g)'
          BY <2>2, <3>5, <3>7, <3>9, <4>2, <5>1 DEF Second, First
        <5> QED BY <3>9, <4>2, <5>2 DEF Stands
      <4>3. CASE x.level = 3
        <5>1. Second(x.parent, g)' /\ Chain[g][3].type = "episode"
          BY <2>4, <3>5, <3>7, <3>8, <4>3, ChainIs DEF Stands
        <5>2. Third(x.item, g)'
          BY <2>2, <3>5, <3>7, <3>9, <4>3, <5>1 DEF Third, Second, First
        <5> QED BY <3>9, <4>3, <5>2 DEF Stands
      <4> QED BY <2>4, <3>5, <4>1, <4>2, <4>3
    <3>11. Len(Chain[g]) = 1 => Unheld(g)'
      BY <1>0, <3>1, <3>7 DEF Good, WalkAt, Unheld, NoNewSources
    <3>12. x.level = 1 => x.parent = 0
      BY <1>0, <3>5 DEF Good, WalkAt
    <3>13. WalkAt(x)'
      BY <1>0, <3>5, <3>7, <3>8, <3>10, <3>11, <3>12 DEF WalkAt, Scanning, Seeking, Replacing
    <3>14. WalkAt(loop)' /\ DetectAt(loop)'
      BY <3>4, <3>6, <3>13
    <3> QED BY <2>7, <3>2, <3>3, <3>14 DEF Good
  <2> QED BY <2>8
<1> QED BY <1>1, <1>2

(* A step that leaves the items as they are. *)
LEMMA SameItemsGood ==
  ASSUME Typed, Good, UNCHANGED <<item, lib, virt>>, SourcesOK', WalkAt(loop)', DetectAt(loop)'
  PROVE  Good'
<1>1. ItemsOK'
  BY SameItemsOK DEF Good
<1>2. VirtOK'
  BY DEF Good, VirtOK, Items
<1> QED BY <1>1, <1>2 DEF Good

LEMMA SourceGood ==
  ASSUME Typed, Good, DropSubs \/ DropSources \/ InsertSource \/ Attach
  PROVE  Good'
<1>0. /\ loop \in LoopType /\ loop.at \in Scanning /\ loop.lib = lib /\ lib # 0
      /\ UNCHANGED <<item, lib, virt, lastItem>> /\ ItemsOK /\ SourcesOK
  <2>1. loop \in LoopType /\ loop.at \in Scanning
    BY DEF Typed, TasksOK, DropSubs, DropSources, InsertSource, Attach, Scanning
  <2>2. UNCHANGED <<item, lib, virt, lastItem>>
    BY DEF DropSubs, DropSources, InsertSource, Attach, LoopOnly
  <2> QED BY <2>1, <2>2 DEF Good, WalkAt
<1>1. Items' = Items /\ ItemsStay
  BY <1>0, SameItems
<1>2. PICK x : x = loop'
  OBVIOUS
<1>3. PICK p \in Nat, g \in File \cup {NoFile} : p = loop.parent /\ g = loop.file
  BY <1>0 DEF LoopType
<1>4. loop.at \in Replacing => /\ g \in File /\ Holds(p, g) /\ Unheld(g)
                              /\ Holds(p, g)'
  <2>1. loop.at \in Replacing => g \in File /\ Holds(p, g) /\ Unheld(g)
    BY <1>3 DEF Good, WalkAt, Typed, FileOK
  <2> QED BY <1>0, <1>1, <2>1, HoldsStay
<1>5. CASE DropSubs
  <2>1. x.at = "dropSources" /\ x.file = g /\ x.parent = p /\ x.lib = lib
    BY <1>0, <1>2, <1>3, <1>5 DEF DropSubs, LoopType
  <2>2. subs' = subs \ SourcesOf(p) /\ src' = src /\ Sources' = Sources
    BY <1>3, <1>5 DEF DropSubs, Sources
  <2>3. SourcesOK'
    <3>1. NoNewSources /\ subs' \subseteq Sources'
      BY <1>0, <2>2 DEF NoNewSources, SourcesOK
    <3> QED BY <1>0, <1>1, <3>1, FewerSourcesOK
  <2>4. DetectAt(x)'
    BY <2>1 DEF DetectAt, Removing
  <2>5. loop.at \in Replacing
    BY <1>5 DEF DropSubs, Replacing
  <2>6. WalkAt(x)'
    <3>1. Holds(x.parent, x.file)' /\ Unheld(x.file)'
      BY <1>4, <2>1, <2>2, <2>5 DEF Unheld
    <3>2. subs' \cap SourcesOf(x.parent)' = {}
      BY <2>1, <2>2 DEF SourcesOf
    <3> QED BY <1>0, <2>1, <3>1, <3>2 DEF WalkAt, Scanning, Seeking, Replacing
  <2> QED BY <1>0, <1>2, <2>3, <2>4, <2>6, SameItemsGood
<1>6. CASE DropSources
  <2>1. x.at = "insertSource" /\ x.file = g /\ x.parent = p /\ x.lib = lib
    BY <1>0, <1>2, <1>3, <1>6 DEF DropSources, LoopType
  <2>2. /\ subs' = subs /\ Sources' = Sources \ SourcesOf(p)
        /\ \A s \in Sources' : src'[s] = src[s]
    BY <1>3, <1>6, SourcesRemoved DEF DropSources
  <2>3. subs \cap SourcesOf(p) = {} /\ loop.at \in Replacing
    BY <1>3, <1>6 DEF DropSources, Good, WalkAt, Replacing
  <2>4. SourcesOK'
    <3>1. NoNewSources /\ subs' \subseteq Sources'
      BY <1>0, <2>2, <2>3 DEF NoNewSources, SourcesOK
    <3> QED BY <1>0, <1>1, <3>1, FewerSourcesOK
  <2>5. DetectAt(x)'
    BY <2>1 DEF DetectAt, Removing
  <2>6. WalkAt(x)'
    <3>1. Unheld(x.file)'
      BY <1>4, <2>1, <2>2, <2>3 DEF Unheld
    <3>2. Holds(x.parent, x.file)'
      BY <1>4, <2>1, <2>3
    <3>3. subs' \cap SourcesOf(x.parent)' = {}
      BY <2>1, <2>2, <2>3 DEF SourcesOf
    <3> QED BY <1>0, <2>1, <3>1, <3>2, <3>3 DEF WalkAt, Scanning, Seeking, Replacing
  <2> QED BY <1>0, <1>2, <2>4, <2>5, <2>6, SameItemsGood
<1>7. CASE InsertSource
  <2> DEFINE new == [item |-> loop.parent, file |-> loop.file,
                     status |-> IF Probed(loop.file) THEN "pending" ELSE "ok"]
  <2>1. loop.at \in Replacing
    BY <1>7 DEF InsertSource, Replacing
  <2>2. PICK row \in SourceRow : src' = With(src, lastSrc + 1, row) /\ row.item = p /\ row.file = g
    <3>1. new \in SourceRow
      BY <1>0, <1>3, <1>4, <2>1 DEF LoopType, SourceRow
    <3>2. src' = With(src, lastSrc + 1, new)
      BY <1>7 DEF InsertSource
    <3> QED BY <1>3, <3>1, <3>2
  <2>3. lastSrc' = lastSrc + 1 /\ subs' = subs /\ x.at = "attach" /\ x.row[1] = lastSrc + 1 /\ x.lib = lib
    BY <1>0, <1>2, <1>7 DEF InsertSource, LoopType
  <2>4. /\ Sources' = Sources \cup {lastSrc + 1} /\ lastSrc + 1 \notin Sources
        /\ src'[lastSrc + 1] = row /\ \A s \in Sources : src'[s] = src[s]
    BY <2>2, <2>3, SourceAdded
  <2>5. ASSUME NEW s \in Sources' PROVE Holds(src[s].item, src[s].file)'
    <3>1. PICK i \in Nat, h \in File : i = src'[s].item /\ h = src'[s].file /\ Holds(i, h)
      <4>1. CASE s \in Sources
        BY <1>0, <2>4, <4>1, RowIs DEF SourcesOK, SourceRow
      <4>2. CASE s = lastSrc + 1
        BY <1>4, <2>1, <2>2, <2>4, <4>2
      <4> QED BY <2>4, <4>1, <4>2
    <3>2. Holds(i, h)'
      BY <1>0, <1>1, <3>1, HoldsStay
    <3> QED BY <3>1, <3>2
  <2>6. \A s, t \in Sources' : src'[s].file = src'[t].file => s = t
    BY <1>0, <1>4, <2>1, <2>2, <2>4 DEF SourcesOK, Unheld
  <2>7. SourcesOK'
    BY <1>0, <2>3, <2>4, <2>5, <2>6 DEF SourcesOK
  <2>8. WalkAt(x)' /\ DetectAt(x)'
    BY <1>0, <2>3, <2>4 DEF WalkAt, DetectAt, Scanning, Seeking, Replacing, Removing
  <2> QED BY <1>0, <1>2, <2>7, <2>8, SameItemsGood
<1>8. CASE Attach
  <2>1. x.at = "walk" /\ x.lib = lib /\ src' = src /\ Sources' = Sources
    BY <1>0, <1>2, <1>8 DEF Attach, LoopType, Sources
  <2>2. loop.row[1] \in Sources
    BY <1>8 DEF Attach, Good, WalkAt
  <2>3. SourcesOK'
    <3>1. NoNewSources /\ subs' \subseteq Sources'
      BY <1>0, <1>8, <2>1, <2>2 DEF Attach, NoNewSources, SourcesOK
    <3> QED BY <1>0, <1>1, <3>1, FewerSourcesOK
  <2>4. WalkAt(x)' /\ DetectAt(x)'
    BY <1>0, <2>1 DEF WalkAt, DetectAt, Scanning, Seeking, Replacing, Removing
  <2> QED BY <1>0, <1>2, <2>3, <2>4, SameItemsGood
<1> QED BY <1>5, <1>6, <1>7, <1>8

(* Without a library there is nothing, and nothing is walked. *)
LEMMA NoLibrary ==
  ASSUME Good, lib = 0
  PROVE  Items = {} /\ Sources = {} /\ subs = {} /\ virt.at = "idle" /\ loop.at \notin Scanning
<1>1. Items = {}
  BY DEF Good, ItemsOK, Placed
<1>2. Sources = {} /\ subs = {}
  BY <1>1 DEF Good, SourcesOK, Holds, Stands
<1> QED BY <1>1, <1>2 DEF Good, VirtOK, WalkAt

LEMMA ClaimGood ==
  ASSUME Typed, Good, Claim PROVE Good'
<1>1. PICK x : x = loop' /\ x.at = "claimed"
  BY ClaimIs
<1> QED BY <1>1, ClaimIs, AtRest, LoopGood

LEMMA MakeLibraryGood ==
  ASSUME Typed, Good, MakeLibrary PROVE Good'
<1>1. Items = {} /\ Sources = {} /\ subs = {} /\ virt.at = "idle" /\ loop.at \notin Scanning
  BY NoLibrary DEF MakeLibrary
<1>2. Items' = {} /\ Sources' = {} /\ subs' = {} /\ UNCHANGED <<virt, loop, lastItem, item, src>>
  BY <1>1 DEF MakeLibrary, tables, Items, Sources
<1>3. ItemsOK' /\ SourcesOK' /\ VirtOK'
  BY <1>1, <1>2 DEF ItemsOK, SourcesOK, VirtOK
<1>4. PICK x : x = loop /\ x.at \notin Scanning /\ DetectAt(x)
  BY <1>1 DEF Good
<1>5. WalkAt(x)'
  BY <1>4 DEF WalkAt, Scanning, Seeking, Replacing
<1>6. DetectAt(x)'
  BY <1>2, <1>4 DEF DetectAt, SourcesOf, Items, Sources
<1> QED BY <1>2, <1>3, <1>4, <1>5, <1>6 DEF Good

LEMMA ScanStartGood ==
  ASSUME Typed, Good, ScanStart PROVE Good'
<1>1. PICK x : x = loop'
  OBVIOUS
<1>2. UNCHANGED <<item, src, subs, lastItem, virt>> /\ Items' = Items /\ Sources' = Sources
  BY DEF ScanStart, tables, Items, Sources
<1>3. x.at = "walk" /\ x.lib = lib' /\ lib' # 0
  <2>1. x.at = "walk" /\ x.lib = lib'
    BY <1>1 DEF ScanStart, Idle
  <2>2. (lib' = lib /\ lib # 0) \/ lib' = lastLib + 1
    BY DEF ScanStart
  <2>3. lastLib \in Nat
    BY DEF Typed, CountersOK
  <2> QED BY <2>1, <2>2, <2>3
<1>4. WalkAt(x)' /\ DetectAt(x)'
  BY <1>3 DEF WalkAt, DetectAt, Scanning, Seeking, Replacing, Removing
<1>5. CASE lib # 0
  <2>1. lib' = lib
    BY <1>5 DEF ScanStart
  <2>2. ItemsStay /\ NoNewSources /\ subs' \subseteq Sources'
    BY <1>2, SameItems DEF NoNewSources, Good, SourcesOK
  <2>3. SourcesOK'
    BY <2>2, FewerSourcesOK DEF Good
  <2> QED BY <1>1, <1>2, <1>4, <2>1, <2>3, SameItemsGood
<1>6. CASE lib = 0
  <2>1. Items = {} /\ Sources = {} /\ subs = {} /\ virt.at = "idle"
    BY <1>6, NoLibrary
  <2>2. VirtOK'
    BY <1>2, <2>1 DEF VirtOK
  <2> QED BY <1>1, <1>2, <1>4, <2>1, <2>2 DEF Good, ItemsOK, SourcesOK
<1> QED BY <1>5, <1>6

-----------------------------------------------------------------------------
(* Deletion detection.                                                     *)

(* The item of a source is the innermost of a chain. *)
LEMMA HeldIsLeaf ==
  ASSUME NEW f \in File, NEW i, Holds(i, f) PROVE i \in Items /\ item[i].type \in Leaf
<1>1. Len(Chain[f]) \in {1, 3}
  BY ChainIs
<1>2. CASE Len(Chain[f]) = 1
  BY <1>2, ChainIs DEF Holds, Stands, First, Leaf
<1>3. CASE Len(Chain[f]) = 3
  BY <1>3 DEF Holds, Stands, Third, Leaf
<1> QED BY <1>1, <1>2, <1>3

(* An item without children goes: nothing else stands on it. *)
LEMMA HoldsWithout ==
  ASSUME Typed, ItemsOK, NEW i, item' = Without(item, {i}), i \in Items => item[i].type \in Leaf,
         NEW k, NEW f \in File, Holds(k, f), k # i
  PROVE  Holds(k, f)'
<1>1. Items' = Items \ {i} /\ \A j \in Items' : item'[j] = item[j]
  BY ItemsRemoved
<1>2. k \in Items'
  BY <1>1, HeldIsLeaf
<1>3. ASSUME NEW j \in Items', First(j, f) PROVE First(j, f)'
  BY <1>1, <1>3 DEF First
<1>4. ASSUME NEW j \in Items' PROVE item[j].parent \in Items => item[j].parent \in Items'
  <2>1. item[j].parent \in Items => item[item[j].parent].type \notin Leaf
    <3>1. j \in Items /\ item[j].type \in Types /\ 0 \notin Items
      BY <1>1, RowIs DEF ItemRow
    <3> QED BY <3>1 DEF ItemsOK, Placed, Leaf, Types
  <2> QED BY <1>1, <2>1
<1>5. ASSUME NEW j \in Items', Second(j, f) PROVE Second(j, f)'
  <2>1. item[j].parent \in Items'
    BY <1>1, <1>4, <1>5 DEF Second, ItemsOK, Placed
  <2>2. First(item[j].parent, f)'
    <3>1. PICK m \in Items' : m = item[j].parent
      BY <2>1
    <3>2. First(m, f)'
      BY <1>3, <1>5, <3>1 DEF Second
    <3> QED BY <1>1, <3>1, <3>2 DEF First
  <2> QED BY <1>1, <1>5, <2>2 DEF Second, First
<1>6. ASSUME NEW j \in Items', Third(j, f) PROVE Third(j, f)'
  <2>1. item[j].parent \in Items'
    BY <1>1, <1>4, <1>6 DEF Third, ItemsOK, Placed
  <2>2. PICK m \in Items' : m = item[j].parent /\ m = item'[j].parent
    BY <1>1, <2>1
  <2>3. Second(m, f)'
    BY <1>5, <1>6, <2>2 DEF Third
  <2> QED BY <1>1, <1>6, <2>2, <2>3 DEF Third, Second, First
<1>7. Len(Chain[f]) \in {1, 3}
  BY ChainIs
<1>8. CASE Len(Chain[f]) = 1
  BY <1>2, <1>3, <1>8 DEF Holds, Stands
<1>9. CASE Len(Chain[f]) = 3
  BY <1>2, <1>6, <1>9 DEF Holds, Stands
<1> QED BY <1>7, <1>8, <1>9

LEMMA DetectGood ==
  ASSUME Typed, OneInv, Good, Detection PROVE Good'
<1>0. /\ loop \in LoopType /\ UNCHANGED <<lib, lastItem, virt>> /\ ItemsOK /\ SourcesOK
      /\ lastItem \in Nat
  BY DEF Typed, TasksOK, CountersOK, Good, Detection, DetectList, Stat, DetectEnd, ItemOf, DelSubs, DelSource,
      Count, DelItem, DetectFails, LoopOnly, tables
<1> PICK x : x = loop'
  OBVIOUS
<1>1. CASE UNCHANGED <<item, src, subs>> /\ x.at \in {"idle", "stat", "itemOf"}
  BY <1>0, <1>1, AtRest, LoopGood
<1>2. CASE DetectList \/ (\E r \in loop.rows : Stat(r)) \/ DetectEnd \/ DetectFails
  <2>1. x.at \in {"idle", "stat", "itemOf"}
    <3>1. CASE DetectList
      BY <3>1 DEF DetectList, Idle
    <3>3. CASE DetectEnd \/ DetectFails
      BY <3>3 DEF DetectEnd, DetectFails, Idle
    <3>2. CASE \E r \in loop.rows : Stat(r)
      BY <1>0, <3>2 DEF Stat, LoopType
    <3> QED BY <1>2, <3>1, <3>2, <3>3
  <2>2. UNCHANGED <<item, src, subs>>
    BY <1>2 DEF DetectList, Stat, DetectEnd, DetectFails, tables
  <2> QED BY <1>1, <2>1, <2>2
<1>3. CASE ItemOf
  <2>1. UNCHANGED <<item, src, subs>>
    BY <1>3 DEF ItemOf, tables
  <2>2. /\ x.at = "delSubs" /\ x.row = loop.row
        /\ x.item = IF loop.row[1] \in Sources THEN src[loop.row[1]].item ELSE 0
    BY <1>0, <1>3 DEF ItemOf, LoopType
  <2>3. ASSUME NEW s \in Sources
        PROVE  /\ src[s].item \in Items /\ item[src[s].item].type \in Leaf
               /\ src[s].item \in 1 .. lastItem
    <3>1. src[s].file \in File /\ Holds(src[s].item, src[s].file)
      BY <1>0, RowIs DEF SourceRow, SourcesOK
    <3>2. src[s].item \in Items /\ item[src[s].item].type \in Leaf
      BY <3>1, HeldIsLeaf
    <3> QED BY <3>2, RowIs
  <2>4. x.item <= lastItem /\ (x.item \in Items => item[x.item].type \in Leaf)
    <3>1. CASE loop.row[1] \in Sources
      BY <2>2, <2>3, <3>1
    <3>2. CASE loop.row[1] \notin Sources
      BY <1>0, <2>2, <3>2, RowIs
    <3> QED BY <3>1, <3>2
  <2>5. \A s \in Sources : src[s].item = x.item <=> s = x.row[1]
    <3>1. CASE loop.row[1] \in Sources
      BY <2>2, <3>1 DEF OneInv
    <3>2. CASE loop.row[1] \notin Sources
      BY <2>2, <2>3, <3>2
    <3> QED BY <3>1, <3>2
  <2>6. WalkAt(x) /\ DetectAt(x)
    BY <2>2, <2>4, <2>5 DEF WalkAt, DetectAt, Scanning, Seeking, Replacing, Removing
  <2> QED BY <1>0, <2>1, <2>6, LoopGood
<1>4. CASE DelSubs
  <2>1. /\ item' = item /\ src' = src /\ Sources' = Sources /\ subs' = subs \ {loop.row[1]}
        /\ x.at = "delSource" /\ x.row = loop.row /\ x.item = loop.item /\ loop.at = "delSubs"
    BY <1>0, <1>4 DEF DelSubs, LoopType, Sources
  <2>2. SourcesOK'
    BY <1>0, <2>1, SameItems, FewerSourcesOK DEF NoNewSources, SourcesOK
  <2>3. DetectAt(x)'
    BY <1>0, <2>1 DEF Good, DetectAt, Removing, Items
  <2>4. WalkAt(x)'
    BY <2>1 DEF WalkAt, Scanning, Seeking, Replacing
  <2> QED BY <1>0, <2>1, <2>2, <2>3, <2>4, SameItemsGood
<1>5. CASE DelSource
  <2>1. /\ item' = item /\ Items' = Items /\ subs' = subs /\ Sources' = Sources \ {loop.row[1]}
        /\ \A s \in Sources' : src'[s] = src[s]
        /\ x.at = "count" /\ x.item = loop.item /\ loop.at = "delSource"
    BY <1>0, <1>5, SourcesRemoved DEF DelSource, LoopType, Items
  <2>2. SourcesOK'
    <3>1. NoNewSources
      BY <2>1 DEF NoNewSources
    <3>2. subs' \subseteq Sources'
      BY <1>0, <2>1 DEF SourcesOK, Good, DetectAt
    <3> QED BY <1>0, <2>1, <3>1, <3>2, SameItems, FewerSourcesOK
  <2>3. x.item <= lastItem' /\ (x.item \in Items' => item'[x.item].type \in Leaf) /\ SourcesOf(x.item)' = {}
    BY <1>0, <2>1 DEF Good, DetectAt, Removing, SourcesOf
  <2>4. WalkAt(x)' /\ DetectAt(x)'
    BY <2>1, <2>3 DEF WalkAt, DetectAt, Scanning, Seeking, Replacing, Removing
  <2> QED BY <1>0, <2>1, <2>2, <2>4, SameItemsGood
<1>6. CASE Count
  <2>1. UNCHANGED <<item, src, subs>> /\ loop.at = "count"
    BY <1>6 DEF Count, tables
  <2>2. CASE x = [loop EXCEPT !.at = "stat", !.row = NoRow, !.item = 0]
    BY <1>0, <1>1, <2>1, <2>2 DEF LoopType
  <2>3. CASE /\ loop.item # 0
             /\ x = [loop EXCEPT !.at = "delItem", !.stack = {loop.item}, !.row = NoRow, !.item = 0]
    <3>1. x.at = "delItem" /\ x.stack = {loop.item}
      BY <1>0, <2>3 DEF LoopType
    <3>2. WalkAt(x) /\ DetectAt(x)
      BY <2>1, <2>3, <3>1 DEF Good, WalkAt, DetectAt, Scanning, Seeking, Replacing, Removing
    <3> QED BY <1>0, <2>1, <3>2, LoopGood
  <2> QED BY <1>6, <2>2, <2>3 DEF Count
<1>7. ASSUME NEW i \in loop.stack, DelItem(i) PROVE Good'
  <2>1. /\ UNCHANGED <<src, subs>> /\ Sources' = Sources
        /\ \A k \in loop.stack : /\ k <= lastItem /\ k # 0 /\ SourcesOf(k) = {}
                                 /\ k \in Items => item[k].type \in Leaf
    BY <1>7 DEF DelItem, Good, DetectAt, Sources
  <2>2. \A c \in Items : item[c].parent # i
    <3>1. ASSUME NEW c \in Items, item[c].parent = i PROVE FALSE
      <4>1. item[c].type \in Types
        BY RowIs DEF ItemRow
      <4> QED BY <1>0, <2>1, <3>1, <4>1 DEF ItemsOK, Placed, Leaf, Types
    <3> QED BY <3>1
  <2>3. x.at = "stat" \/ (x.at = "delItem" /\ x.stack = loop.stack \ {i})
    <3> DEFINE rest == (loop.stack \ {i}) \cup {c \in Items : item[c].parent = i}
    <3>1. rest = loop.stack \ {i}
      BY <2>2
    <3>2. x = (IF rest = {} THEN [loop EXCEPT !.at = "stat", !.stack = {}]
                            ELSE [loop EXCEPT !.stack = rest]) /\ loop.at = "delItem"
      BY <1>7 DEF DelItem
    <3> HIDE DEF rest
    <3> QED BY <1>0, <3>1, <3>2 DEF LoopType
  <2>4. item' = item \/ item' = Without(item, {i})
    BY <1>7 DEF DelItem
  <2>5. Items' \subseteq Items /\ Items \ {i} \subseteq Items' /\ \A k \in Items' : item'[k] = item[k]
    BY <2>4, ItemsRemoved DEF Items
  <2>6. ItemsOK'
    <3>1. ASSUME NEW k \in Items' PROVE Placed(k)'
      BY <1>0, <2>2, <2>5, <3>1 DEF ItemsOK, Placed
    <3> QED BY <1>0, <2>5, <3>1 DEF ItemsOK
  <2>7. SourcesOK'
    <3>1. ASSUME NEW s \in Sources PROVE Holds(src[s].item, src[s].file)'
      <4>1. PICK k \in Nat, f \in File : k = src[s].item /\ f = src[s].file /\ Holds(k, f)
        BY <1>0, RowIs DEF SourcesOK, SourceRow
      <4>2. k # i
        BY <2>1, <4>1 DEF SourcesOf
      <4>3. Holds(k, f)'
        <5>1. CASE item' = item
          BY <1>0, <4>1, <5>1, SameItems, HoldsStay
        <5>2. CASE item' = Without(item, {i})
          BY <1>0, <2>1, <4>1, <4>2, <5>2, HoldsWithout
        <5> QED BY <2>4, <5>1, <5>2
      <4> QED BY <2>1, <4>1, <4>3
    <3> QED BY <1>0, <2>1, <3>1 DEF SourcesOK
  <2>8. VirtOK'
    BY <1>0, <2>1, <2>5 DEF Good, VirtOK, Leaf
  <2>9. WalkAt(x)' /\ DetectAt(x)'
    <3>1. WalkAt(x)'
      BY <2>3 DEF WalkAt, Scanning, Seeking, Replacing
    <3>2. \A k \in loop.stack : SourcesOf(k)' = {}
      BY <2>1 DEF SourcesOf
    <3>3. DetectAt(x)'
      BY <1>0, <2>1, <2>3, <2>5, <3>2 DEF DetectAt, Removing
    <3> QED BY <3>1, <3>3
  <2> QED BY <2>6, <2>7, <2>8, <2>9 DEF Good
<1> QED BY <1>2, <1>3, <1>4, <1>5, <1>6, <1>7 DEF Detection

-----------------------------------------------------------------------------
(* The steps beside the scan loop.                                         *)

(* Items may come, but no series, and sources stay as they are: the loop is
   where it was, and finds what it relies on. *)
LEMMA BesideLoop ==
  ASSUME Typed, Good, ItemsStay, ItemsOK', NoNewSources, Sources' = Sources,
         UNCHANGED <<subs, loop, lib>>, lastItem' \in Nat, lastItem' >= lastItem,
         \A i \in Items' \ Items : i > lastItem /\ item'[i].type # "series", VirtOK'
  PROVE  Good'
<1>0. loop \in LoopType /\ lastItem \in Nat /\ ItemsOK /\ SourcesOK /\ WalkAt(loop) /\ DetectAt(loop)
  BY DEF Typed, TasksOK, CountersOK, Good
<1>1. SourcesOK'
  BY <1>0, FewerSourcesOK DEF SourcesOK
<1>2. PICK x \in LoopType : x = loop /\ WalkAt(x) /\ DetectAt(x)
  BY <1>0
<1>3. \A k : SourcesOf(k)' = SourcesOf(k) /\ (Unheld(k)' <=> Unheld(k))
  BY DEF SourcesOf, Unheld, NoNewSources
<1>4. \A s \in Sources' : src'[s].item = src[s].item /\ src'[s].file = src[s].file
  BY DEF NoNewSources
<1>5. /\ x.at \in Seeking \cup {"source"} \cup Replacing => x.file \in File
      /\ x.at = "readBack" => x.at \in Seeking
  BY <1>2 DEF Typed, FileOK, Seeking
<1>6. x.at \in Seeking /\ x.level # 1 => Stands(x.parent, x.file, x.level - 1)'
  BY <1>0, <1>2, <1>5, StandsStay DEF WalkAt
<1>7. x.at = "readBack" => Stands(x.item, x.file, x.level)'
  BY <1>0, <1>2, <1>5, StandsStay DEF WalkAt
<1>8. x.at \in {"source"} \cup Replacing => Holds(x.parent, x.file)'
  BY <1>0, <1>2, <1>5, HoldsStay DEF WalkAt
<1>9. x.at = "insert" /\ x.level = 1 /\ Len(Chain[x.file]) = 3 =>
        \A i \in Items' : item'[i].type = "series" => item'[i].key # Chain[x.file][1].key
  <2>1. SUFFICES ASSUME x.at = "insert", x.level = 1, Len(Chain[x.file]) = 3, NEW i \in Items',
                        item'[i].type = "series"
                 PROVE  item'[i].key # Chain[x.file][1].key
    OBVIOUS
  <2>2. i \in Items /\ item[i].type = "series" /\ item'[i].key = item[i].key
    BY <2>1 DEF ItemsStay
  <2> QED BY <1>2, <2>1, <2>2 DEF WalkAt
<1>10. WalkAt(x)'
  <2>1. /\ x.at \in Scanning => x.lib = lib' /\ lib' # 0
        /\ x.at = "byPath" => x.parent = 0 /\ Len(Chain[x.file]) = 1
        /\ x.at \in Seeking => (x.level = 1 => x.parent = 0)
        /\ x.at \in Seeking => (Len(Chain[x.file]) = 1 => Unheld(x.file)')
        /\ x.at = "source" => \A s \in Sources' : src'[s].file = x.file => src'[s].item = x.parent
        /\ x.at \in Replacing => Unheld(x.file)'
        /\ x.at \in {"dropSources", "insertSource"} => subs' \cap SourcesOf(x.parent)' = {}
        /\ x.at = "attach" => x.row[1] \in Sources'
    BY <1>2, <1>3, <1>4 DEF WalkAt
  <2> QED BY <2>1, <1>6, <1>7, <1>8, <1>9 DEF WalkAt
<1>11. DetectAt(x)'
  <2>1. ASSUME NEW k \in Nat, k <= lastItem, k \in Items => item[k].type \in Leaf
        PROVE  k <= lastItem' /\ (k \in Items' => item'[k].type \in Leaf)
    <3>1. k \in Items' => k \in Items
      BY <1>0, <2>1
    <3> QED BY <1>0, <2>1, <3>1 DEF ItemsStay
  <2>2. x.item \in Nat /\ \A k \in x.stack : k \in Nat
    BY DEF LoopType
  <2>3. x.at \in Removing => x.item <= lastItem' /\ (x.item \in Items' => item'[x.item].type \in Leaf)
    BY <1>2, <2>1, <2>2 DEF DetectAt
  <2>4. x.at = "delItem" =>
          \A i \in x.stack : /\ i <= lastItem' /\ i # 0 /\ SourcesOf(i)' = {}
                             /\ i \in Items' => item'[i].type \in Leaf
    BY <1>2, <1>3, <2>1, <2>2 DEF DetectAt
  <2>5. /\ x.at \in {"delSubs", "delSource"} => \A s \in Sources' : src'[s].item = x.item <=> s = x.row[1]
        /\ x.at = "delSource" => x.row[1] \notin subs'
        /\ x.at = "count" => SourcesOf(x.item)' = {}
    BY <1>2, <1>3, <1>4 DEF DetectAt
  <2> QED BY <2>3, <2>4, <2>5 DEF DetectAt
<1>12. WalkAt(loop)' /\ DetectAt(loop)'
  BY <1>2, <1>10, <1>11
<1> QED BY <1>1, <1>12 DEF Good

LEMMA BesideGood ==
  ASSUME Typed, Good, Clean',
         \/ ProbeLoop \/ ScrapeLoop \/ Request \/ \E f \in File : DiskChanges(f)
  PROVE  Good'
<1>0. lastItem \in Nat /\ ItemsOK /\ SourcesOK /\ VirtOK
  BY DEF Typed, CountersOK, Good
<1>1. ASSUME item' = item, UNCHANGED <<subs, loop, lib, lastItem, virt>>, NoNewSources, Sources' = Sources
      PROVE  Good'
  <2>1. Items' = Items /\ ItemsStay /\ ItemsOK' /\ VirtOK'
    BY <1>0, <1>1, SameItems, SameItemsOK DEF VirtOK, Items
  <2> QED BY <1>0, <1>1, <2>1, BesideLoop
<1>2. CASE ProbeList \/ ProbeChunk \/ Request \/ \E f \in File : DiskChanges(f)
  <2>1. UNCHANGED <<item, src, subs, loop, lib, lastItem, virt>>
    BY <1>2 DEF ProbeList, ProbeChunk, Request, DiskChanges, NotProbe, tables
  <2> QED BY <1>1, <2>1 DEF NoNewSources, Sources
<1>3. ASSUME NEW s \in probe.flight, ProbeDone(s) PROVE Good'
  BY <1>1, <1>3, ProbeKeeps DEF ProbeDone, NotProbe
<1>4. CASE VirtMoves
  <2>1. UNCHANGED <<item, src, subs, loop, lib, lastItem>>
    BY <1>4, VirtMoveIs DEF tables
  <2>2. Items' = Items /\ ItemsStay /\ ItemsOK'
    BY <1>0, <2>1, SameItems, SameItemsOK
  <2>3. VirtOK'
    <3>1. ASSUME NEW i \in Items, VirtBegin(i) PROVE VirtOK'
      BY <2>1, <2>2, <3>1 DEF VirtBegin, NoSeries, VirtOK
    <3>2. ASSUME NEW n \in Seasons, VirtFind(n) PROVE VirtOK'
      <4>1. virt'.at \in {"begun", "found"} /\ virt'.series = virt.series /\ virt.at = "begun"
        BY <3>2 DEF VirtFind, Typed, TasksOK, VirtType
      <4> QED BY <1>0, <2>1, <2>2, <4>1 DEF VirtOK
    <3>3. CASE VirtLib
      <4>1. ~hist'.mixed /\ hist \in HistType
        BY <1>4 DEF Clean, Typed, TasksOK
      <4>2. virt'.at = "ready" /\ virt'.series = virt.series /\ virt.at = "found"
            /\ virt'.lib = IF virt.series \in Items THEN item[virt.series].lib ELSE 0
        BY <3>3, <4>1 DEF VirtLib, Typed, TasksOK, VirtType, HistType
      <4>3. item[virt.series].lib = lib
        BY <1>0, <4>2 DEF VirtOK, ItemsOK, Placed
      <4> QED BY <1>0, <2>1, <2>2, <4>2, <4>3 DEF VirtOK
    <3>4. CASE VirtEnd
      BY <3>4 DEF VirtEnd, NoSeries, VirtOK
    <3> QED BY <1>4, <3>1, <3>2, <3>3, <3>4 DEF VirtMoves
  <2> QED BY <1>0, <2>1, <2>2, <2>3, BesideLoop DEF NoNewSources, Sources
<1>5. CASE VirtInsert
  <2>1. UNCHANGED <<src, subs, loop, lib>> /\ virt.at = "ready"
        /\ (virt' = NoSeries \/ virt' = [virt EXCEPT !.at = "begun", !.number = 0, !.lib = 0])
        /\ NoNewSources /\ Sources' = Sources
    BY <1>5 DEF VirtInsert, NotVirt, NoNewSources, Sources
  <2>0. ASSUME ItemsStay PROVE VirtOK'
    <3>1. \/ virt'.at = "idle"
          \/ virt'.at = "begun" /\ virt'.series = virt.series
      <4>1. virt \in VirtType
        BY DEF Typed, TasksOK
      <4> QED BY <2>1, <4>1, BegunIs
    <3> QED BY <1>0, <2>0, <2>1, <3>1 DEF VirtOK, ItemsStay
  <2>2. CASE UNCHANGED <<item, lastItem>>
    <3>1. Items' = Items /\ ItemsStay /\ ItemsOK'
      BY <1>0, <2>1, <2>2, SameItems, SameItemsOK
    <3> QED BY <1>0, <2>0, <2>1, <2>2, <3>1, BesideLoop
  <2> DEFINE new == [type |-> "season", parent |-> virt.series, key |-> virt.number, virtual |-> TRUE,
                     lib |-> virt.lib]
  <2>3. CASE lastItem' = lastItem + 1 /\ item' = With(item, lastItem + 1, new) /\ ~Taken(new)
    <3>1. virt \in VirtType /\ virt.series \in Items /\ item[virt.series].type = "series"
          /\ virt.lib = lib /\ lib # 0
      BY <1>0, <2>1 DEF Typed, TasksOK, VirtOK, ItemsOK, Placed
    <3>2. new \in ItemRow
      BY <3>1 DEF VirtType, ItemRow, Types, Keys
    <3>3. PICK row \in ItemRow : row = new
      BY <3>2
    <3>4. row.type = "season" /\ row.parent = virt.series /\ row.lib = lib
      BY <3>1, <3>3
    <3>5. item' = With(item, lastItem + 1, row) /\ ~Taken(row)
      BY <2>3, <3>3
    <3> HIDE DEF new
    <3>6. ItemsOK' /\ ItemsStay
      BY <1>0, <2>1, <2>3, <3>1, <3>4, <3>5, MoreItemsOK
    <3>7. Items' = Items \cup {lastItem + 1} /\ item'[lastItem + 1] = row
      BY <2>3, <3>5, ItemAdded
    <3>8. \A i \in Items' \ Items : i > lastItem /\ item'[i].type # "series"
      BY <1>0, <3>4, <3>7
    <3>9. lastItem' \in Nat /\ lastItem' >= lastItem
      BY <1>0, <2>3
    <3> QED BY <2>0, <2>1, <3>6, <3>8, <3>9, BesideLoop
  <2> QED BY <1>5, <2>2, <2>3 DEF VirtInsert
<1>6. ASSUME NEW i \in Items, NEW t \in Titles, Retitle(i, t) PROVE Good'
  <2>1. UNCHANGED <<src, subs, loop, lib, lastItem, virt>> /\ item' = [item EXCEPT ![i].key = t]
        /\ item[i].type = "movie"
    BY <1>6 DEF Retitle
  <2>2. item \in [Items -> ItemRow] /\ Items' = Items
    BY <2>1 DEF Typed, RowsOK, Items
  <2>3. \A k \in Items : /\ item'[k].type = item[k].type /\ item'[k].parent = item[k].parent
                         /\ item'[k].lib = item[k].lib /\ item'[k].virtual = item[k].virtual
                         /\ k # i => item'[k].key = item[k].key
    <3>1. \A k \in Items : item[k] \in ItemRow
      BY <2>2
    <3>2. \A k \in Items : item'[k] = IF k = i THEN [item[k] EXCEPT !.key = t] ELSE item[k]
      BY <2>1, <2>2
    <3> QED BY <3>1, <3>2 DEF ItemRow
  <2>4. ItemsStay
    BY <2>1, <2>2, <2>3 DEF ItemsStay
  <2>5. ItemsOK'
    <3>1. ASSUME NEW k \in Items' PROVE Placed(k)'
      BY <1>0, <2>1, <2>2, <2>4, PlacedStay
    <3>2. ASSUME NEW k \in Items', NEW j \in Items', item'[k].type = item'[j].type,
                 item'[k].type # "movie", item'[k].parent = item'[j].parent, item'[k].key = item'[j].key
          PROVE  k = j
      BY <1>0, <2>1, <2>2, <2>3, <3>2 DEF ItemsOK
    <3> QED BY <3>1, <3>2 DEF ItemsOK
  <2>6. VirtOK'
    BY <1>0, <2>1, <2>2, <2>3 DEF VirtOK
  <2> QED BY <1>0, <2>1, <2>2, <2>4, <2>5, <2>6, BesideLoop DEF NoNewSources, Sources
<1> QED BY <1>2, <1>3, <1>4, <1>5, <1>6, ScrapeIs DEF ProbeLoop, Retitles

(* The library goes with everything in it; nothing is under way in it. *)
LEMMA DeleteGood ==
  ASSUME Typed, Good, DeleteLibrary, Clean' PROVE Good' /\ Items' = {}
<1>0. loop \in LoopType /\ hist \in HistType /\ ItemsOK /\ SourcesOK /\ lib # 0 /\ lib' = 0
      /\ UNCHANGED <<loop, virt, lastItem>>
  BY DEF Typed, TasksOK, Good, DeleteLibrary
<1>1. ~(loop.lib = lib /\ loop.at # "idle") /\ virt.at = "idle"
  BY <1>0 DEF DeleteLibrary, Clean, HistType
<1>2. loop.at \notin Scanning
  BY <1>0, <1>1 DEF Good, WalkAt, Scanning
<1> DEFINE dead == {i \in Items : item[i].lib = lib}
           gone == {s \in Sources : src[s].item \in dead}
<1>3. dead = Items /\ gone = Sources
  <2>1. dead = Items
    BY <1>0 DEF ItemsOK, Placed
  <2>2. \A s \in Sources : src[s].item \in Items
    BY <1>0 DEF SourcesOK, Holds, Stands
  <2> QED BY <2>1, <2>2
<1>4. item' = Without(item, dead) /\ src' = Without(src, gone) /\ subs' = subs \ gone
  BY DEF DeleteLibrary
<1> HIDE DEF dead, gone
<1>5. Items' = {} /\ Sources' = {} /\ subs' = {}
  BY <1>0, <1>3, <1>4, ItemsRemoved, SourcesRemoved DEF SourcesOK
<1>6. ItemsOK' /\ SourcesOK' /\ VirtOK'
  BY <1>0, <1>1, <1>5 DEF ItemsOK, SourcesOK, VirtOK
<1>7. PICK x : x = loop /\ x.at \notin Scanning /\ DetectAt(x)
  BY <1>2 DEF Good
<1>8. WalkAt(x)'
  BY <1>7 DEF WalkAt, Scanning, Seeking, Replacing
<1>9. DetectAt(x)'
  BY <1>0, <1>5, <1>7 DEF DetectAt, SourcesOf
<1>10. WalkAt(loop)' /\ DetectAt(loop)'
  BY <1>0, <1>7, <1>8, <1>9
<1> QED BY <1>5, <1>6, <1>10 DEF Good

LEMMA RestartGood ==
  ASSUME Typed, Good, Restart PROVE Good'
<1>1. UNCHANGED <<item, src, subs, lib, lastItem>> /\ virt'.at = "idle"
  BY DEF Restart, NoSeries, tables
<1>2. PICK x : x = loop' /\ x.at = "idle"
  BY DEF Restart, Idle
<1>3. WalkAt(x)' /\ DetectAt(x)'
  BY <1>2 DEF WalkAt, DetectAt, Scanning, Seeking, Replacing, Removing
<1>4. ItemsOK' /\ ItemsStay
  BY <1>1, SameItems, SameItemsOK DEF Good
<1>5. SourcesOK'
  BY <1>1, <1>4, FewerSourcesOK DEF Good, NoNewSources, Sources, SourcesOK
<1>6. VirtOK'
  BY <1>1 DEF VirtOK
<1> QED BY <1>2, <1>3, <1>4, <1>5, <1>6 DEF Good

(* What spoils the guarantee is never forgotten. *)
LEMMA Remembered ==
  ASSUME Typed, Next PROVE (Clean' => Clean) /\ (hist.torn => hist'.torn)
<1>1. hist \in HistType
  BY DEF Typed, TasksOK
<1>2. CASE hist' = hist
  BY <1>2 DEF Clean
<1>3. CASE Disturb \/ Tear
  BY <1>1, <1>3 DEF Disturb, Tear, Clean, HistType
<1>4. CASE ScanStart
  BY <1>1, <1>4 DEF ScanStart, Clean, HistType
<1>5. CASE InsertItem
  BY <1>1, <1>5 DEF InsertItem, Clean, HistType
<1>6. CASE ReadBack
  BY <1>1, <1>6 DEF ReadBack, Disturb, Clean, HistType
<1>7. CASE DeleteLibrary
  BY <1>1, <1>7 DEF DeleteLibrary, Clean, HistType
<1>8. CASE VirtLib
  BY <1>1, <1>8 DEF VirtLib, Clean, HistType
<1>9. \/ hist' = hist \/ Disturb \/ Tear \/ ScanStart \/ InsertItem \/ ReadBack \/ DeleteLibrary
      \/ VirtLib
  BY ClaimIs, ScrapeIs
     DEF Next, ScanLoop, Detection, ProbeLoop, Environment, ListDir, PickFile,
      FindByPath, Lookup, FindSource, DropSubs, DropSources, InsertSource, Attach, FileFails, DetectList,
      Stat, DetectEnd, ItemOf, DelSubs, DelSource, Count, DelItem, DetectFails, ProbeList, ProbeChunk,
      ProbeDone, NotProbe, VirtMoves, VirtBegin, VirtFind, VirtEnd, VirtInsert, Retitles, Retitle, Request,
      MakeLibrary, DiskChanges, Restart
<1> QED BY <1>2, <1>3, <1>4, <1>5, <1>6, <1>7, <1>8, <1>9

LEMMA CleanStep ==
  Typed /\ OneInv /\ CleanInv /\ [Next]_vars => CleanInv'
<1>1. ASSUME Typed, OneInv, CleanInv, Next PROVE CleanInv'
  <2>1. SUFFICES ASSUME Clean' PROVE Good'
    BY DEF CleanInv
  <2>2. Good
    BY <1>1, <2>1, Remembered DEF CleanInv
  <2> QED BY <1>1, <2>1, <2>2, ClaimGood, WalkGood, InsertItemGood, SourceGood, ScanStartGood, DetectGood,
        BesideGood, MakeLibraryGood, DeleteGood, RestartGood DEF Next, ScanLoop, Environment
<1>2. ASSUME Typed, OneInv, CleanInv, UNCHANGED vars PROVE CleanInv'
  <2>1. CASE Good
    <3>1. UNCHANGED <<item, src, subs, lib, lastItem, virt, loop>>
      BY <1>2 DEF vars, tables
    <3>2. PICK x : x = loop
      OBVIOUS
    <3> QED BY <1>2, <2>1, <3>1, <3>2, LoopGood DEF CleanInv, Good
  <2>2. CASE ~Clean
    BY <1>2, <2>2 DEF CleanInv, Clean, vars
  <2> QED BY <1>2, <2>1, <2>2 DEF CleanInv
<1> QED BY <1>1, <1>2

LEMMA CleanInit == Init => CleanInv
<1> SUFFICES ASSUME Init PROVE Good
  BY DEF CleanInv
<1>1. Items = {} /\ Sources = {} /\ subs = {} /\ loop.at = "idle" /\ virt.at = "idle"
  BY DEF Init, Items, Sources, Idle, NoSeries
<1>2. ItemsOK /\ SourcesOK /\ VirtOK
  BY <1>1 DEF ItemsOK, SourcesOK, VirtOK
<1> QED BY <1>1, <1>2, AtRest DEF Good

LEMMA OneInit == Init => OneInv
BY DEF Init, OneInv, Sources, Idle

-----------------------------------------------------------------------------
(* At every moment a source has its item, an item its parent and a subtitle its
   source: the order of the statements keeps the tables whole without foreign
   keys, however the scan, the detection, the probe loop, failing statements and
   restarts interleave. *)
THEOREM IntactAlways == Spec => []Intact
<1>1. Init => Typed /\ OneInv /\ CleanInv
  BY TypedInit, OneInit, CleanInit
<1>2. Typed /\ OneInv /\ CleanInv /\ [Next]_vars => (Typed /\ OneInv /\ CleanInv)'
  BY TypedStep, OneStep, CleanStep
<1>3. Typed /\ CleanInv => Intact
  <2> SUFFICES ASSUME Typed, Good PROVE
        /\ \A s \in Sources : src[s].item \in Items
        /\ \A i \in Items : item[i].parent # 0 => item[i].parent \in Items
        /\ subs \subseteq Sources
    BY DEF Intact, CleanInv, Clean
  <2>1. \A s \in Sources : src[s].item \in Items
    BY DEF Good, SourcesOK, Holds, Stands
  <2>2. ASSUME NEW i \in Items, item[i].parent # 0 PROVE item[i].parent \in Items
    <3>1. item[i].type \in Types
      BY RowIs DEF ItemRow
    <3> QED BY <2>2, <3>1 DEF Good, ItemsOK, Placed, Types
  <2> QED BY <2>1, <2>2 DEF Good, SourcesOK
<1> QED BY <1>1, <1>2, <1>3, PTL DEF Spec

(* No item ever has two sources, and no file either unless it was written for a
   library that was gone or on a row of the scrape stage: each insert is preceded
   by the deletion that makes room for it, and the walk finds the source a file
   has before it makes another. *)
THEOREM OneSourceAlways == Spec => []OneSource
<1>1. Init => Typed /\ OneInv /\ CleanInv
  BY TypedInit, OneInit, CleanInit
<1>2. Typed /\ OneInv /\ CleanInv /\ [Next]_vars => (Typed /\ OneInv /\ CleanInv)'
  BY TypedStep, OneStep, CleanStep
<1>3. OneInv /\ CleanInv => OneSource
  BY DEF OneSource, OneInv, CleanInv, Clean, Good, SourcesOK
<1> QED BY <1>1, <1>2, <1>3, PTL DEF Spec

-----------------------------------------------------------------------------
(* Nothing is left over.                                                   *)

Bare(i) == i \in Items /\ item[i].type \in Leaf /\ SourcesOf(i) = {}
Whole == \A i : Bare(i) => InHand(i)
HandStage == {"readBack", "source"} \cup Replacing \cup {"count", "delItem"}

LEMMA WalkWhole ==
  ASSUME Typed, Good, Whole, Clean',
         \/ ScanStart \/ (\E d \in loop.dirs : ListDir(d)) \/ (\E f \in loop.todo : PickFile(f))
         \/ FindByPath \/ Lookup \/ InsertItem \/ ReadBack
         \/ FindSource \/ DropSubs \/ DropSources \/ InsertSource \/ Attach
  PROVE  Whole'
<1>0. loop \in LoopType /\ hist \in HistType
  BY DEF Typed, TasksOK
<1> PICK x : x = loop'
  OBVIOUS
<1>1. ASSUME UNCHANGED <<item, src>>, loop.at \notin HandStage PROVE Whole'
  <2>1. \A i : Bare(i)' => Bare(i)
    BY <1>1 DEF Bare, SourcesOf, Items, Sources
  <2>2. \A i : ~InHand(i)
    BY <1>1 DEF InHand, HandStage
  <2> QED BY <2>1, <2>2 DEF Whole
<1>2. CASE \/ ScanStart \/ (\E d \in loop.dirs : ListDir(d)) \/ (\E f \in loop.todo : PickFile(f))
           \/ FindByPath \/ Lookup \/ Attach
  BY <1>1, <1>2 DEF ScanStart, ListDir, PickFile, FindByPath, Lookup, Attach, tables, HandStage, Replacing
<1>3. CASE InsertItem
  <2>1. loop.at \notin HandStage /\ src' = src /\ Sources' = Sources
    BY <1>3 DEF InsertItem, HandStage, Replacing, Sources
  <2>2. CASE item' = item
    BY <1>1, <2>1, <2>2
  <2>3. CASE /\ item' = With(item, lastItem + 1, NewItem)
             /\ x = [loop EXCEPT !.at = "readBack", !.item = lastItem + 1]
    <3>1. x.at = "readBack" /\ x.item = lastItem + 1
      BY <1>0, <2>3 DEF LoopType
    <3>2. Items' = Items \cup {lastItem + 1}
      BY <2>3 DEF With, Items
    <3>3. \A i \in Items : i # lastItem + 1 => item'[i] = item[i]
      BY <2>3 DEF With, Items
    <3>4. ASSUME NEW i, Bare(i)' PROVE i = lastItem + 1
      <4>1. SUFFICES ASSUME i # lastItem + 1 PROVE FALSE
        OBVIOUS
      <4>2. Bare(i)
        BY <2>1, <3>2, <3>3, <3>4, <4>1 DEF Bare, SourcesOf
      <4> QED BY <2>1, <4>2 DEF Whole, InHand, HandStage
    <3> QED BY <3>1, <3>4 DEF Whole, InHand
  <2> QED BY <1>3, <2>2, <2>3 DEF InsertItem
<1>4. CASE ReadBack
  <2>1. loop.at = "readBack" /\ loop.at \in Seeking /\ UNCHANGED <<item, src>>
    BY <1>4 DEF ReadBack, Seeking, tables
  <2>2. Stands(loop.item, loop.file, loop.level) /\ loop.item \in Items /\ loop.file \in File
        /\ loop.level \in 1 .. Len(Chain[loop.file])
    BY <2>1 DEF Good, WalkAt, Stands, Typed, FileOK
  <2>3. x = Descend(loop.item)
    BY <1>0, <1>4, <2>2 DEF ReadBack, Clean, HistType
  <2>4. PICK k \in Items : k = loop.item /\ Stands(k, loop.file, loop.level) /\ loop' = Descend(k)
    BY <2>2, <2>3
  <2>5. ASSUME NEW i, Bare(i)' PROVE i = k /\ item[k].type \in Leaf
    <3>1. Bare(i)
      BY <2>1, <2>5 DEF Bare, SourcesOf, Items, Sources
    <3> QED BY <2>1, <2>4, <3>1 DEF Whole, InHand, Bare, Replacing
  <2>6. k \in Nat
    BY RowIs
  <2>7. loop.at \in {"byPath"} \cup Seeking
    BY <2>1
  <2>8. x.parent = k /\ (loop.level < Len(Chain[loop.file]) \/ x.at = "source")
    BY <2>4, <2>6, <2>7, DescendIs
  <2>9. loop.level < Len(Chain[loop.file]) => item[k].type \notin Leaf
    <3>1. SUFFICES ASSUME loop.level < Len(Chain[loop.file]) PROVE item[k].type \notin Leaf
      OBVIOUS
    <3>2. Len(Chain[loop.file]) \in {1, 3}
      BY <2>2, ChainIs
    <3>3. Len(Chain[loop.file]) = 3 /\ loop.level \in {1, 2}
      <4>1. CASE Len(Chain[loop.file]) = 1
        BY <2>2, <3>1, <4>1
      <4>2. CASE Len(Chain[loop.file]) = 3
        BY <2>2, <3>1, <4>2
      <4> QED BY <3>2, <4>1, <4>2
    <3>4. CASE loop.level = 1
      BY <2>2, <2>4, <3>3, <3>4, ChainIs DEF Stands, First, Leaf
    <3>5. CASE loop.level = 2
      BY <2>4, <3>3, <3>5 DEF Stands, Second, Leaf
    <3> QED BY <3>3, <3>4, <3>5
  <2> QED BY <2>5, <2>8, <2>9 DEF Whole, InHand
<1>5. CASE FindSource
  <2>1. loop.at = "source" /\ UNCHANGED <<item, src>>
    BY <1>5 DEF FindSource, tables
  <2>2. ASSUME NEW i, Bare(i)' PROVE Bare(i) /\ i = loop.parent
    <3>1. Bare(i)
      BY <2>1, <2>2 DEF Bare, SourcesOf, Items, Sources
    <3> QED BY <2>1, <3>1 DEF Whole, InHand
  <2> DEFINE found == {s \in SourcesOf(loop.parent) : src[s].file = loop.file}
  <2>3. CASE found = {} /\ x = [loop EXCEPT !.at = "dropSubs"]
    <3>1. x.at = "dropSubs" /\ x.parent = loop.parent
      BY <1>0, <2>3 DEF LoopType
    <3> QED BY <2>2, <3>1 DEF Whole, InHand, Replacing
  <2>4. CASE found # {}
    BY <2>2, <2>4 DEF Whole, Bare
  <2> QED BY <1>5, <2>3, <2>4 DEF FindSource
<1>6. CASE DropSubs
  <2>1. loop.at = "dropSubs" /\ UNCHANGED <<item, src>> /\ x.at = "dropSources" /\ x.parent = loop.parent
    BY <1>0, <1>6 DEF DropSubs, LoopType
  <2>2. \A i : Bare(i)' => Bare(i)
    BY <2>1 DEF Bare, SourcesOf, Items, Sources
  <2> QED BY <2>1, <2>2 DEF Whole, InHand, Replacing
<1>7. CASE DropSources
  <2>1. /\ loop.at = "dropSources" /\ item' = item /\ x.at = "insertSource" /\ x.parent = loop.parent
        /\ Sources' = Sources \ SourcesOf(loop.parent) /\ \A s \in Sources' : src'[s] = src[s]
    BY <1>0, <1>7, SourcesRemoved DEF DropSources, LoopType
  <2>2. ASSUME NEW i, Bare(i)' PROVE i = loop.parent
    <3>1. SUFFICES ASSUME i # loop.parent PROVE FALSE
      OBVIOUS
    <3>2. Bare(i)
      BY <2>1, <2>2, <3>1 DEF Bare, SourcesOf, Items
    <3> QED BY <2>1, <3>1, <3>2 DEF Whole, InHand
  <2> QED BY <2>1, <2>2 DEF Whole, InHand, Replacing
<1>8. CASE InsertSource
  <2> DEFINE new == [item |-> loop.parent, file |-> loop.file,
                     status |-> IF Probed(loop.file) THEN "pending" ELSE "ok"]
  <2>1. loop.at = "insertSource" /\ item' = item /\ src' = With(src, lastSrc + 1, new)
    BY <1>8 DEF InsertSource
  <2>2. /\ Sources' = Sources \cup {lastSrc + 1} /\ src'[lastSrc + 1].item = loop.parent
        /\ \A s \in Sources : src'[s] = src[s]
    <3>1. lastSrc + 1 \notin Sources
      BY DEF Typed, CountersOK, RowsOK
    <3> QED BY <2>1, <3>1 DEF With, Sources
  <2>3. ASSUME NEW i, Bare(i)' PROVE FALSE
    <3>1. Bare(i) /\ i # loop.parent
      BY <2>1, <2>2, <2>3 DEF Bare, SourcesOf, Items
    <3> QED BY <2>1, <3>1 DEF Whole, InHand
  <2> QED BY <2>3 DEF Whole
<1> QED BY <1>2, <1>3, <1>4, <1>5, <1>6, <1>7, <1>8

LEMMA DetectWhole ==
  ASSUME Typed, OneInv, Good, Whole, Detection, ~hist'.torn
  PROVE  Whole'
<1>0. loop \in LoopType /\ hist \in HistType
  BY DEF Typed, TasksOK
<1> PICK x : x = loop'
  OBVIOUS
<1>1. ASSUME UNCHANGED <<item, src>>, loop.at \notin HandStage PROVE Whole'
  <2>1. \A i : Bare(i)' => Bare(i)
    BY <1>1 DEF Bare, SourcesOf, Items, Sources
  <2>2. \A i : ~InHand(i)
    BY <1>1 DEF InHand, HandStage
  <2> QED BY <2>1, <2>2 DEF Whole
<1>2. CASE DetectList \/ (\E r \in loop.rows : Stat(r)) \/ DetectEnd \/ ItemOf \/ DelSubs
  BY <1>1, <1>2 DEF DetectList, Stat, DetectEnd, ItemOf, DelSubs, tables, HandStage, Replacing
<1>3. CASE DelSource
  <2>1. /\ item' = item /\ Sources' = Sources \ {loop.row[1]} /\ \A s \in Sources' : src'[s] = src[s]
        /\ x.at = "count" /\ x.item = loop.item /\ loop.at = "delSource"
    BY <1>0, <1>3, SourcesRemoved DEF DelSource, LoopType
  <2>2. \A s \in Sources : src[s].item = loop.item <=> s = loop.row[1]
    BY <2>1 DEF Good, DetectAt
  <2>3. ASSUME NEW i, Bare(i)' PROVE i = loop.item
    <3>1. SUFFICES ASSUME i # loop.item PROVE FALSE
      OBVIOUS
    <3>2. Bare(i)
      BY <2>1, <2>2, <2>3, <3>1 DEF Bare, SourcesOf, Items
    <3> QED BY <2>1, <3>2 DEF Whole, InHand, Replacing
  <2> QED BY <2>1, <2>3 DEF Whole, InHand
<1>4. CASE Count
  <2>1. loop.at = "count" /\ UNCHANGED <<item, src>>
    BY <1>4 DEF Count, tables
  <2>2. SourcesOf(loop.item) = {} /\ 0 \notin Items
    BY <2>1, RowIs DEF Good, DetectAt
  <2>3. ASSUME NEW i, Bare(i)' PROVE i \in Items /\ i = loop.item
    <3>1. Bare(i)
      BY <2>1, <2>3 DEF Bare, SourcesOf, Items, Sources
    <3> QED BY <2>1, <3>1 DEF Whole, InHand, Bare, Replacing
  <2>4. CASE loop.item = 0
    BY <2>2, <2>3, <2>4 DEF Whole
  <2>5. CASE loop.item # 0
    <3>1. x = [loop EXCEPT !.at = "delItem", !.stack = {loop.item}, !.row = NoRow, !.item = 0]
      BY <1>4, <2>2, <2>5 DEF Count
    <3>2. x.at = "delItem" /\ loop.item \in x.stack
      BY <1>0, <3>1 DEF LoopType
    <3> QED BY <2>3, <3>2 DEF Whole, InHand
  <2> QED BY <2>4, <2>5
<1>5. ASSUME NEW i \in loop.stack, DelItem(i) PROVE Whole'
  <2>1. src' = src /\ Sources' = Sources /\ loop.at = "delItem"
    BY <1>5 DEF DelItem, Sources
  <2>2. i \in Items => item[i].type \in Leaf /\ ~item[i].virtual
    BY <2>1 DEF Good, DetectAt, ItemsOK, Placed, Leaf
  <2>3. Items' = Items \ {i} /\ \A k \in Items' : item'[k] = item[k]
    <3>1. item' = Without(item, {i})
      BY <1>5, <2>2 DEF DelItem
    <3> QED BY <3>1, ItemsRemoved
  <2>4. ASSUME NEW k, Bare(k)' PROVE k \in loop.stack \ {i}
    <3>1. Bare(k) /\ k # i
      BY <2>1, <2>3, <2>4 DEF Bare, SourcesOf
    <3> QED BY <2>1, <3>1 DEF Whole, InHand, Replacing
  <2> DEFINE rest == (loop.stack \ {i}) \cup {c \in Items : item[c].parent = i}
  <2>5. x = (IF rest = {} THEN [loop EXCEPT !.at = "stat", !.stack = {}]
                          ELSE [loop EXCEPT !.stack = rest])
    BY <1>5 DEF DelItem
  <2>6. ASSUME NEW k, Bare(k)' PROVE x.at = "delItem" /\ k \in x.stack
    <3>1. k \in rest
      BY <2>4, <2>6
    <3>2. x = [loop EXCEPT !.stack = rest]
      BY <2>5, <3>1
    <3> HIDE DEF rest
    <3> QED BY <1>0, <2>1, <3>1, <3>2 DEF LoopType
  <2> QED BY <2>6 DEF Whole, InHand
<1>6. CASE DetectFails
  BY <1>0, <1>6 DEF DetectFails, Tear, HistType
<1> QED BY <1>2, <1>3, <1>4, <1>5, <1>6 DEF Detection

LEMMA ClaimWhole ==
  ASSUME Typed, Whole, Claim PROVE Whole'
<1>1. \A i : ~InHand(i)
  BY ClaimIs DEF InHand, Replacing
<1> QED BY <1>1, ClaimIs DEF Whole, Bare, SourcesOf, Items, Sources

LEMMA OtherWhole ==
  ASSUME Typed, Good, Whole, ProbeLoop \/ ScrapeLoop \/ Environment, Clean', ~hist'.torn
  PROVE  Whole'
<1>0. hist \in HistType
  BY DEF Typed, TasksOK
<1>1. ASSUME loop' = loop, \A i : Bare(i)' => Bare(i) PROVE Whole'
  BY <1>1 DEF Whole, InHand
<1>2. CASE ProbeList \/ ProbeChunk \/ VirtMoves \/ Request \/ MakeLibrary \/ \E f \in File : DiskChanges(f)
  <2>1. UNCHANGED <<item, src, loop>>
    BY <1>2, VirtMoveIs DEF ProbeList, ProbeChunk, NotProbe, Request, MakeLibrary, DiskChanges, tables
  <2> QED BY <1>1, <2>1 DEF Bare, SourcesOf, Items, Sources
<1>3. ASSUME NEW s \in probe.flight, ProbeDone(s) PROVE Whole'
  <2>1. UNCHANGED <<item, loop>> /\ Sources' = Sources /\ NoNewSources
    BY <1>3, ProbeKeeps DEF ProbeDone, NotProbe
  <2> QED BY <1>1, <2>1 DEF Bare, SourcesOf, Items, NoNewSources
<1>4. CASE VirtInsert
  <2> DEFINE new == [type |-> "season", parent |-> virt.series, key |-> virt.number, virtual |-> TRUE,
                     lib |-> virt.lib]
  <2>1. UNCHANGED <<src, loop>> /\ Sources' = Sources
        /\ (item' = item \/ item' = With(item, lastItem + 1, new))
    BY <1>4 DEF VirtInsert, NotVirt, Sources
  <2>2. CASE item' = item
    BY <1>1, <2>1, <2>2 DEF Bare, SourcesOf, Items
  <2>3. CASE item' = With(item, lastItem + 1, new)
    <3>1. Items' = Items \cup {lastItem + 1} /\ item'[lastItem + 1].type = "season"
          /\ \A i \in Items : i # lastItem + 1 => item'[i] = item[i]
      BY <2>3 DEF With, Items
    <3>2. \A i : Bare(i)' => Bare(i)
      BY <2>1, <3>1 DEF Bare, SourcesOf, Leaf
    <3> QED BY <1>1, <2>1, <3>2
  <2> QED BY <2>1, <2>2, <2>3
<1>5. ASSUME NEW i \in Items, NEW t \in Titles, Retitle(i, t) PROVE Whole'
  <2>1. UNCHANGED <<src, loop>> /\ Sources' = Sources /\ item' = [item EXCEPT ![i].key = t]
    BY <1>5 DEF Retitle, Sources
  <2>2. \A k \in Items : item[k] \in ItemRow
    BY RowIs
  <2>3. Items' = Items /\ \A k \in Items : item'[k].type = item[k].type
    BY <2>1, <2>2 DEF Items, ItemRow
  <2> QED BY <1>1, <2>1, <2>3 DEF Bare, SourcesOf
<1>6. CASE DeleteLibrary
  BY <1>6, DeleteGood DEF Whole, Bare
<1>7. CASE Restart
  <2>1. UNCHANGED <<item, src>>
    BY <1>7 DEF Restart, tables
  <2>2. loop.at = "idle"
    BY <1>0, <1>7 DEF Restart, Tear, HistType
  <2>3. \A i : ~InHand(i)
    BY <2>2 DEF InHand, Replacing
  <2> QED BY <2>1, <2>3 DEF Whole, Bare, SourcesOf, Items, Sources
<1> QED BY <1>2, <1>3, <1>4, <1>5, <1>6, <1>7, ScrapeIs DEF ProbeLoop, Retitles, Environment

LEMMA WholeStep ==
  Typed /\ OneInv /\ CleanInv /\ WholeInv /\ [Next]_vars => WholeInv'
<1>1. WholeInv <=> (Clean /\ ~hist.torn => Whole)
  BY DEF WholeInv, Whole, Bare
<1>2. WholeInv' <=> (Clean' /\ ~hist'.torn => Whole')
  BY DEF WholeInv, Whole, Bare, Clean
<1>3. ASSUME Typed, OneInv, CleanInv, WholeInv, Next PROVE WholeInv'
  <2>1. SUFFICES ASSUME Clean', ~hist'.torn PROVE Whole'
    BY <1>2
  <2>2. Good /\ Whole
    BY <1>1, <1>3, <2>1, Remembered DEF CleanInv
  <2>3. CASE FileFails
    BY <1>3, <2>1, <2>3 DEF FileFails, Tear, Typed, TasksOK, HistType
  <2> QED BY <1>3, <2>1, <2>2, <2>3, ClaimWhole, WalkWhole, DetectWhole, OtherWhole DEF Next, ScanLoop
<1>4. ASSUME WholeInv, UNCHANGED vars PROVE WholeInv'
  BY <1>4 DEF WholeInv, InHand, Clean, SourcesOf, Items, Sources, vars, tables
<1> QED BY <1>3, <1>4

(* Between two rounds no movie and no episode is without a source, unless a
   crash or a failing statement has torn a file or a detection apart: an item
   has no source only while the walk is about to give it one or the detection
   is about to delete it. *)
THEOREM NothingLeftOverAlways == Spec => []NothingLeftOver
<1>1. Init => Typed /\ OneInv /\ CleanInv /\ WholeInv
  <2>1. Init => WholeInv
    BY DEF Init, WholeInv, Items
  <2> QED BY <2>1, TypedInit, OneInit, CleanInit
<1>2. Typed /\ OneInv /\ CleanInv /\ WholeInv /\ [Next]_vars => (Typed /\ OneInv /\ CleanInv /\ WholeInv)'
  BY TypedStep, OneStep, CleanStep, WholeStep
<1>3. WholeInv => NothingLeftOver
  <2> SUFFICES ASSUME WholeInv, Settled, Clean, ~hist.torn, NEW i \in Items,
                      item[i].type \in {"movie", "episode"}, SourcesOf(i) = {}
               PROVE  FALSE
    BY DEF NothingLeftOver, Clean
  <2> QED BY DEF WholeInv, Settled, InHand, Replacing, Leaf
<1> QED BY <1>1, <1>2, <1>3, PTL DEF Spec

-----------------------------------------------------------------------------
(***************************************************************************)
(* What the tables mirror.  A scan that outlives its library leaves rows    *)
(* without parents, so the chain of a source is known as far as it is       *)
(* there; ids are not reused, so what is gone never comes back.             *)
(***************************************************************************)

(* Item i, if there, is the one the chain of f names at its first, second or
   third step, or had its title and got TMDB's. *)
NearFirst(i, f) ==
  i \in Items => /\ item[i].type = Chain[f][1].type
                 /\ \/ item[i].key = Chain[f][1].key
                    \/ item[i].type = "movie" /\ item[i].key \in Titles
NearSecond(i, f) ==
  i \in Items => item[i].type = "season" /\ item[i].key = Chain[f][2].key /\ NearFirst(item[i].parent, f)
NearThird(i, f) ==
  i \in Items => item[i].type = "episode" /\ item[i].key = Chain[f][3].key /\ NearSecond(item[i].parent, f)
Near(i, f, n) ==
  /\ i \in 0 .. lastItem
  /\ IF n = 1 THEN NearFirst(i, f) ELSE IF n = 2 THEN NearSecond(i, f) ELSE NearThird(i, f)
NearEnd(i, f) == Near(i, f, Len(Chain[f]))

(* Rows of one chain are of one library. *)
OfOneLib(i, l) ==
  i \in Items /\ (item[i].type = "season" => item[i].parent \in Items) => item[i].lib = l

RowsNear ==
  /\ \A s \in Sources : NearEnd(src[s].item, src[s].file)
  /\ \A i \in Items :
       /\ item[i].parent \in 0 .. lastItem
       /\ item[i].type \in {"movie", "series"} => item[i].parent = 0
       /\ item[i].type \in {"season", "episode"} => OfOneLib(item[i].parent, item[i].lib)
WalkNear(x) ==
  /\ x.at \in {"byPath"} \cup Seeking =>
       IF x.level = 1 THEN x.parent = 0
       ELSE Near(x.parent, x.file, x.level - 1) /\ OfOneLib(x.parent, x.lib)
  /\ x.at = "readBack" => Near(x.item, x.file, x.level) /\ OfOneLib(x.item, x.lib) /\ SourcesOf(x.item) = {}
  /\ x.at \in {"source"} \cup Replacing => NearEnd(x.parent, x.file)
VirtNear ==
  virt.at # "idle" =>
    /\ virt.series \in 0 .. lastItem
    /\ virt.series \in Items => /\ item[virt.series].type = "series"
                                /\ virt.at = "ready" => virt.lib = item[virt.series].lib
NearInv == ~hist.mixed => RowsNear /\ WalkNear(loop) /\ VirtNear

(* The items from i up are there, n of them, in the library. *)
There(i, n) ==
  /\ i \in Items /\ item[i].lib = lib
  /\ n > 1 => item[i].parent \in Items
  /\ n > 2 => item[item[i].parent].parent \in Items
Line(i, n) ==
  {i} \cup (IF n > 1 THEN {item[i].parent} ELSE {}) \cup (IF n > 2 THEN {item[item[i].parent].parent} ELSE {})
Sits(s) == There(src[s].item, Len(Chain[src[s].file]))
LineOf(s) == Line(src[s].item, Len(Chain[src[s].file]))

(* A file the walk has been at is claimed by the source of a rival, or by the
   rival that is about to get one. *)
InFileStage == {"byPath"} \cup Seeking \cup {"source"} \cup Replacing
Walked(x, f) ==
  x.at \in Scanning => /\ Dir[f] \notin x.dirs /\ f \notin x.todo
                       /\ x.at \in InFileStage => f # x.file
Claimed(x, f) ==
  \/ \E s \in Sources : src[s].file \in Rivals(f) /\ Sits(s)
  \/ x.at = "insertSource" /\ x.file \in Rivals(f)
Wanted(f) == Twin[f] \cap disk = {} /\ \A g \in Rivals(f) : Kind[g] # "fileUrl"

WalkRound(x) ==
  /\ x.at \in Scanning => x.lib = lib /\ lib # 0
  /\ x.at \in Scanning \cup {"idle"} => x.rows = {}
  /\ x.todo \subseteq disk
  /\ x.at \in InFileStage => x.file \in disk
  /\ x.at \in Seeking /\ x.level > 1 => There(x.parent, x.level - 1)
  /\ x.at = "readBack" => There(x.item, x.level)
  /\ x.at \in {"source"} \cup Replacing => There(x.parent, Len(Chain[x.file]))
  /\ x.at \in {"source", "dropSubs", "dropSources"} =>
       \A s \in SourcesOf(x.parent) : MayTakeOver(x.file, src[s].file)
  /\ x.at \in Replacing => \A s \in SourcesOf(x.parent) : src[s].file # x.file

Finding == {"itemOf", "delSubs", "delSource"}
DetectRound(x) ==
  /\ \A r \in x.rows : Kind[r[2]] # "url" /\ (r[1] \in Sources => src[r[1]].file = r[2])
  /\ x.at \in Finding =>
       /\ x.row[2] \in File /\ Kind[x.row[2]] # "url" /\ ~OnDisk(x.row[2])
       /\ x.row[1] \in Sources => src[x.row[1]].file = x.row[2]
  /\ x.at \in Removing => x.item \in 0 .. lastItem /\ (x.item \in Items => item[x.item].type \in Leaf)
  /\ x.at \in Removing /\ x.item # 0 =>
       \A s \in SourcesOf(x.item) : x.at # "count" /\ s = x.row[1]
  /\ x.at = "delItem" => 0 \notin x.stack /\ \A s \in Sources : Sits(s) => LineOf(s) \cap x.stack = {}

(* What detection has still to find missing. *)
Missing(x) ==
  \A s \in Sources : Kind[src[s].file] = "local" /\ src[s].file \notin disk =>
    \/ x.at \in Scanning \/ <<s, src[s].file>> \in x.rows
    \/ x.at \in Finding /\ x.row[1] = s

Round(x) ==
  /\ WalkRound(x) /\ DetectRound(x) /\ Missing(x)
  /\ \A f \in disk : Wanted(f) /\ Walked(x, f) => Claimed(x, f)
RoundInv == hist.still /\ ~hist.mixed => Round(loop)

-----------------------------------------------------------------------------
(* Items come with new ids, go, and keep what they are; a movie may get a title
   of TMDB. *)
Moves ==
  /\ lastItem' >= lastItem /\ lastItem' \in Nat
  /\ \A i \in Items' :
       \/ i \notin Items /\ i > lastItem
       \/ /\ i \in Items
          /\ item'[i].type = item[i].type /\ item'[i].parent = item[i].parent /\ item'[i].lib = item[i].lib
          /\ \/ item'[i].key = item[i].key
             \/ item[i].type = "movie" /\ item'[i].key \in Titles

(* What is known of an id stays known. *)
LEMMA NearKept ==
  ASSUME Typed, RowsNear, Moves, NEW i, NEW f \in File, NEW n, Near(i, f, n)
  PROVE  Near(i, f, n)'
<1>1. lastItem \in Nat /\ i \in 0 .. lastItem /\ i \in 0 .. lastItem'
  BY DEF Typed, CountersOK, Near, Moves
<1>2. ASSUME NEW k \in 0 .. lastItem, k \in Items'
      PROVE  /\ k \in Items /\ item'[k].type = item[k].type /\ item'[k].parent = item[k].parent
             /\ \/ item'[k].key = item[k].key
                \/ item[k].type = "movie" /\ item'[k].key \in Titles
             /\ item[k].parent \in 0 .. lastItem
  <2>1. k \in Items
    BY <1>1, <1>2 DEF Moves
  <2> QED BY <1>1, <1>2, <2>1 DEF Moves, RowsNear
<1>3. ASSUME NEW k \in 0 .. lastItem, NearFirst(k, f) PROVE NearFirst(k, f)'
  BY <1>2, <1>3 DEF NearFirst
<1>4. ASSUME NEW k \in 0 .. lastItem, NearSecond(k, f) PROVE NearSecond(k, f)'
  <2> SUFFICES ASSUME k \in Items' PROVE NearSecond(k, f)'
    BY DEF NearSecond
  <2>1. k \in Items /\ item[k].parent \in 0 .. lastItem /\ item[k].type = "season"
    BY <1>2, <1>4 DEF NearSecond
  <2>2. NearFirst(item[k].parent, f)'
    <3>1. PICK p \in 0 .. lastItem : p = item[k].parent
      BY <2>1
    <3>2. NearFirst(p, f)'
      BY <1>3, <1>4, <2>1, <3>1 DEF NearSecond
    <3>3. item'[k].parent = p
      BY <1>2, <2>1, <3>1
    <3> QED BY <3>2, <3>3, <3>1, <2>1, <1>2 DEF NearFirst
  <2> QED BY <1>2, <1>4, <2>1, <2>2 DEF NearSecond, NearFirst
<1>5. ASSUME NEW k \in 0 .. lastItem, NearThird(k, f) PROVE NearThird(k, f)'
  <2> SUFFICES ASSUME k \in Items' PROVE NearThird(k, f)'
    BY DEF NearThird
  <2>1. k \in Items /\ item[k].parent \in 0 .. lastItem /\ item[k].type = "episode"
    BY <1>2, <1>5 DEF NearThird
  <2>2. PICK p \in 0 .. lastItem : p = item[k].parent
    BY <2>1
  <2>3. NearSecond(p, f)'
    BY <1>4, <1>5, <2>1, <2>2 DEF NearThird
  <2>4. item'[k].parent = p
    BY <1>2, <2>1, <2>2
  <2> QED BY <1>2, <1>5, <2>1, <2>3, <2>4 DEF NearThird
<1> QED BY <1>1, <1>3, <1>4, <1>5 DEF Near

LEMMA OneLibKept ==
  ASSUME Typed, RowsNear, Moves, NEW i \in 0 .. lastItem, NEW l, OfOneLib(i, l)
  PROVE  OfOneLib(i, l)'
<1> SUFFICES ASSUME i \in Items', item'[i].type = "season" => item'[i].parent \in Items'
             PROVE  item'[i].lib = l
  BY DEF OfOneLib
<1>1. lastItem \in Nat
  BY DEF Typed, CountersOK
<1>2. i \in Items /\ item'[i].type = item[i].type /\ item'[i].parent = item[i].parent /\ item'[i].lib = item[i].lib
  BY <1>1 DEF Moves
<1>3. item[i].type = "season" => item[i].parent \in Items
  <2>1. item[i].parent \in 0 .. lastItem
    BY <1>2 DEF RowsNear
  <2> QED BY <1>1, <1>2, <2>1 DEF Moves
<1> QED BY <1>2, <1>3 DEF OfOneLib

LEMMA RowsNearKept ==
  ASSUME Typed, RowsNear, Moves, NoNewSources, Typed',
         \A i \in Items' \ Items :
           /\ item'[i].parent \in 0 .. lastItem
           /\ item'[i].type \in {"movie", "series"} => item'[i].parent = 0
           /\ item'[i].type \in {"season", "episode"} => OfOneLib(item'[i].parent, item'[i].lib)
  PROVE  RowsNear'
<1>0. lastItem \in Nat /\ lastItem' \in Nat /\ lastItem' >= lastItem
  BY DEF Typed, CountersOK, Moves
<1>1. ASSUME NEW s \in Sources' PROVE NearEnd(src[s].item, src[s].file)'
  <2>1. s \in Sources /\ src'[s].item = src[s].item /\ src'[s].file = src[s].file
    BY DEF NoNewSources
  <2>2. src[s].file \in File /\ src[s].item \in Nat
    BY <2>1, RowIs DEF SourceRow
  <2>3. PICK i \in Nat, f \in File : i = src[s].item /\ f = src[s].file
    BY <2>2
  <2>4. Near(i, f, Len(Chain[f]))
    BY <2>1, <2>3 DEF RowsNear, NearEnd
  <2>5. Near(i, f, Len(Chain[f]))'
    BY <2>4, NearKept
  <2>6. src'[s].item = i /\ src'[s].file = f
    BY <2>1, <2>3
  <2> QED BY <2>5, <2>6 DEF NearEnd
<1>2. ASSUME NEW i \in Items'
      PROVE  /\ item'[i].parent \in 0 .. lastItem
             /\ item'[i].type \in {"movie", "series"} => item'[i].parent = 0
             /\ item'[i].type \in {"season", "episode"} => OfOneLib(item'[i].parent, item'[i].lib)
  BY DEF Moves, RowsNear
<1>3. ASSUME NEW i \in Items', item'[i].type \in {"season", "episode"}
      PROVE  OfOneLib(item[i].parent, item[i].lib)'
  <2>1. PICK p \in 0 .. lastItem, l \in Nat : p = item'[i].parent /\ l = item'[i].lib
    <3>1. item'[i].lib \in Nat
      BY DEF Typed, RowsOK, ItemRow
    <3> QED BY <1>2, <3>1
  <2>2. OfOneLib(p, l)
    BY <1>2, <1>3, <2>1
  <2>3. OfOneLib(p, l)'
    BY <2>2, OneLibKept
  <2> QED BY <2>1, <2>3
<1>4. \A i \in Items' : item'[i].parent \in 0 .. lastItem'
  BY <1>0, <1>2
<1> QED BY <1>1, <1>2, <1>3, <1>4 DEF RowsNear

LEMMA WalkNearKept ==
  ASSUME Typed, RowsNear, Moves, NoNewSources, NEW x \in LoopType, WalkNear(x),
         x.at \in InFileStage => x.file \in File
  PROVE  WalkNear(x)'
<1>1. ASSUME x.at \in {"byPath"} \cup Seeking, x.level # 1
      PROVE  Near(x.parent, x.file, x.level - 1)' /\ OfOneLib(x.parent, x.lib)'
  <2>1. Near(x.parent, x.file, x.level - 1) /\ OfOneLib(x.parent, x.lib) /\ x.file \in File
    BY <1>1 DEF WalkNear, InFileStage
  <2>2. x.parent \in 0 .. lastItem
    BY <2>1 DEF Near
  <2> QED BY <2>1, <2>2, NearKept, OneLibKept
<1>2. ASSUME x.at = "readBack"
      PROVE  Near(x.item, x.file, x.level)' /\ OfOneLib(x.item, x.lib)' /\ SourcesOf(x.item)' = {}
  <2>1. Near(x.item, x.file, x.level) /\ OfOneLib(x.item, x.lib) /\ SourcesOf(x.item) = {} /\ x.file \in File
    BY <1>2 DEF WalkNear, InFileStage, Seeking
  <2>2. x.item \in 0 .. lastItem
    BY <2>1 DEF Near
  <2>3. SourcesOf(x.item)' = {}
    BY <2>1 DEF SourcesOf, NoNewSources
  <2> QED BY <2>1, <2>2, <2>3, NearKept, OneLibKept
<1>3. ASSUME x.at \in {"source"} \cup Replacing PROVE NearEnd(x.parent, x.file)'
  <2>1. Near(x.parent, x.file, Len(Chain[x.file])) /\ x.file \in File
    BY <1>3 DEF WalkNear, InFileStage, NearEnd
  <2>2. Near(x.parent, x.file, Len(Chain[x.file]))'
    BY <2>1, NearKept
  <2> QED BY <2>2 DEF NearEnd
<1> QED BY <1>1, <1>2, <1>3 DEF WalkNear

LEMMA VirtNearKept ==
  ASSUME Typed, Moves, VirtNear, virt' = virt PROVE VirtNear'
<1>1. lastItem \in Nat
  BY DEF Typed, CountersOK
<1> QED BY <1>1 DEF Moves, VirtNear

-----------------------------------------------------------------------------
(* Every step keeps what is known of the chains.                           *)

NearTables == RowsNear /\ WalkNear(loop) /\ VirtNear
InFileTyped(x) == x \in LoopType /\ (x.at \in InFileStage => x.file \in File)

LEMMA LoopFile ==
  ASSUME Typed PROVE InFileTyped(loop)
BY DEF Typed, TasksOK, FileOK, InFileTyped, InFileStage

(* A step of the loop that adds no rows. *)
LEMMA LoopNear ==
  ASSUME Typed, Typed', NearTables, Moves, NoNewSources, Items' \subseteq Items, virt' = virt,
         NEW x, loop' = x, WalkNear(x)
  PROVE  NearTables'
<1>1. PICK y \in LoopType : y = loop' /\ (y.at \in InFileStage => y.file \in File)
  BY DEF Typed, TasksOK, FileOK, InFileStage
<1>2. WalkNear(y)'
  BY <1>1, WalkNearKept DEF NearTables
<1>3. WalkNear(loop)'
  BY <1>1, <1>2
<1> QED BY <1>3, RowsNearKept, VirtNearKept DEF NearTables

LEMMA SameItemsMove ==
  ASSUME Typed, UNCHANGED <<item, lastItem>> PROVE Moves /\ Items' \subseteq Items
BY DEF Typed, CountersOK, Moves, Items

(* A step of the loop in which it comes to hold nothing it looked for. *)
LEMMA NearAtRest ==
  ASSUME NEW x, x.at \notin InFileStage PROVE WalkNear(x)
BY DEF WalkNear, InFileStage, Seeking

LEMMA DescendNear ==
  ASSUME Typed, NearTables, loop.at \in {"byPath"} \cup Seeking, NEW i \in Nat,
         loop' = Descend(i), Near(i, loop.file, loop.level),
         loop.level < Len(Chain[loop.file]) => OfOneLib(i, loop.lib)
  PROVE  \E x : loop' = x /\ WalkNear(x)
<1>1. PICK x \in LoopType :
        /\ loop' = x /\ x.file = loop.file /\ x.lib = loop.lib /\ x.parent = i
        /\ \/ /\ loop.level < Len(Chain[loop.file])
              /\ x.at = "lookup" /\ x.level = loop.level + 1
           \/ loop.level = Len(Chain[loop.file]) /\ x.at = "source"
  BY DescendIs
<1>2. CASE loop.level < Len(Chain[loop.file])
  <2>1. x.at = "lookup" /\ x.level = loop.level + 1
    BY <1>1, <1>2
  <2>2. loop.level \in Nat /\ loop.level >= 1
    BY DEF Typed, TasksOK, FileOK, LoopType
  <2>3. x.level # 1 /\ x.level - 1 = loop.level
    BY <2>1, <2>2
  <2>4. WalkNear(x)
    BY <1>1, <1>2, <2>1, <2>3 DEF WalkNear, Seeking, Replacing
  <2> QED BY <1>1, <2>4
<1>3. CASE loop.level = Len(Chain[loop.file])
  <2>1. x.at = "source"
    BY <1>1, <1>3
  <2>2. WalkNear(x)
    BY <1>1, <1>3, <2>1 DEF WalkNear, Seeking, Replacing, NearEnd
  <2> QED BY <1>1, <2>2
<1> QED BY <1>1, <1>2, <1>3

(* A row found by its parent, type and key is the one the chain names. *)
LEMMA MatchNear ==
  ASSUME Typed, NearTables, loop.at = "lookup", NEW i \in Items, Matches(i, Step(loop.file))
  PROVE  /\ Near(i, loop.file, loop.level)
         /\ loop.level < Len(Chain[loop.file]) => OfOneLib(i, loop.lib)
<1>1. /\ loop.file \in File /\ loop.level \in 1 .. Len(Chain[loop.file]) /\ Len(Chain[loop.file]) \in {1, 3}
      /\ loop.at \in Seeking /\ i \in 0 .. lastItem
  BY ChainIs, RowIs DEF Typed, FileOK, Seeking
<1>2. /\ item[i].type = Chain[loop.file][loop.level].type /\ item[i].key = Chain[loop.file][loop.level].key
      /\ IF Chain[loop.file][loop.level].type \in {"movie", "series"}
         THEN item[i].lib = loop.lib ELSE item[i].parent = loop.parent
  BY DEF Matches, Step
<1>3. loop.level # 1 => Near(loop.parent, loop.file, loop.level - 1) /\ OfOneLib(loop.parent, loop.lib)
  BY <1>1 DEF NearTables, WalkNear
<1>4. CASE loop.level = 1
  <2>1. item[i].type \in {"movie", "series"} /\ item[i].lib = loop.lib
    BY <1>1, <1>2, <1>4, ChainIs
  <2> QED BY <1>1, <1>2, <1>4, <2>1 DEF Near, NearFirst, OfOneLib
<1>5. CASE loop.level = 2
  <2>1. Chain[loop.file][2].type = "season" /\ Chain[loop.file][1].type = "series"
    BY <1>1, <1>5, ChainIs
  <2>2. item[i].parent = loop.parent /\ item[i].type = "season"
    BY <1>2, <1>5, <2>1
  <2>3. NearFirst(loop.parent, loop.file) /\ OfOneLib(loop.parent, loop.lib)
    BY <1>3, <1>5 DEF Near
  <2>4. Near(i, loop.file, loop.level)
    BY <1>1, <1>2, <1>5, <2>2, <2>3 DEF Near, NearSecond
  <2>5. OfOneLib(loop.parent, item[i].lib)
    BY <2>2 DEF NearTables, RowsNear
  <2>6. OfOneLib(i, loop.lib)
    BY <2>1, <2>2, <2>3, <2>5 DEF OfOneLib, NearFirst
  <2> QED BY <2>4, <2>6
<1>6. CASE loop.level = 3
  <2>1. Chain[loop.file][3].type = "episode" /\ Len(Chain[loop.file]) = 3
    BY <1>1, <1>6, ChainIs
  <2>2. NearSecond(loop.parent, loop.file)
    BY <1>3, <1>6 DEF Near
  <2> QED BY <1>1, <1>2, <1>6, <2>1, <2>2 DEF Near, NearThird
<1>7. loop.level \in {1, 2, 3}
  <2>1. CASE Len(Chain[loop.file]) = 1
    BY <1>1, <2>1
  <2>2. CASE Len(Chain[loop.file]) = 3
    BY <1>1, <2>2
  <2> QED BY <1>1, <2>1, <2>2
<1> QED BY <1>4, <1>5, <1>6, <1>7

(* A movie found by the path of its source is the file's. *)
LEMMA PathNear ==
  ASSUME Typed, NearTables, loop.at = "byPath", NEW i \in Items, HoldsPath(i)
  PROVE  Len(Chain[loop.file]) = 1 /\ loop.level = 1 /\ Near(i, loop.file, 1) /\ OfOneLib(i, loop.lib)
<1>1. loop.file \in File /\ Len(Chain[loop.file]) \in {1, 3} /\ loop.level = 1
  BY ChainIs DEF Typed, FileOK
<1>2. PICK s \in Sources : src[s].item = i /\ src[s].file = loop.file
  BY DEF HoldsPath, SourcesOf
<1>3. Near(i, loop.file, Len(Chain[loop.file]))
  BY <1>2 DEF NearTables, RowsNear, NearEnd
<1>4. Len(Chain[loop.file]) # 3
  <2> SUFFICES ASSUME Len(Chain[loop.file]) = 3 PROVE FALSE
    OBVIOUS
  <2>1. NearThird(i, loop.file)
    BY <1>3 DEF Near
  <2> QED BY <2>1 DEF NearThird, HoldsPath
<1> QED BY <1>1, <1>3, <1>4 DEF HoldsPath, OfOneLib

LEMMA WalkNearStep ==
  ASSUME Typed, Typed', NearTables, ~hist.mixed',
         \/ \E d \in loop.dirs : ListDir(d)
         \/ \E f \in loop.todo : PickFile(f)
         \/ FindByPath \/ Lookup \/ ReadBack \/ FindSource \/ FileFails
         \/ DropSubs \/ DropSources \/ Attach
  PROVE  NearTables'
<1>0. loop \in LoopType /\ UNCHANGED <<item, lastItem, virt>>
  BY DEF ListDir, PickFile, FindByPath, Lookup, ReadBack, FindSource, FileFails, DropSubs, DropSources,
      Attach, LoopOnly, tables, Typed, TasksOK
<1>1. NoNewSources
  <2>1. CASE DropSources
    BY <2>1, SourcesRemoved DEF DropSources, NoNewSources
  <2>2. CASE src' = src
    BY <2>2 DEF NoNewSources, Sources
  <2> QED BY <2>1, <2>2 DEF ListDir, PickFile, FindByPath, Lookup, ReadBack, FindSource, FileFails,
          DropSubs, Attach, tables
<1>2. ASSUME NEW x, loop' = x, WalkNear(x) PROVE NearTables'
  BY <1>0, <1>1, <1>2, SameItemsMove, LoopNear
<1>3. ASSUME loop'.at \notin InFileStage PROVE NearTables'
  <2>1. PICK x : x = loop'
    OBVIOUS
  <2> QED BY <1>2, <1>3, <2>1, NearAtRest
<1>4. ASSUME NEW d \in loop.dirs, ListDir(d) PROVE NearTables'
  <2>1. loop'.at = "walk"
    BY <1>0, <1>4 DEF ListDir, LoopType
  <2> QED BY <1>3, <2>1 DEF InFileStage, Seeking, Replacing
<1>5. ASSUME NEW f \in loop.todo, PickFile(f) PROVE NearTables'
  <2>2. CASE loop' = [loop EXCEPT !.todo = @ \ {f}]
    <3>1. loop'.at = "walk"
      BY <1>0, <1>5, <2>2 DEF PickFile, LoopType
    <3> QED BY <1>3, <3>1 DEF InFileStage, Seeking, Replacing
  <2>3. CASE loop' = [loop EXCEPT !.todo = @ \ {f}, !.file = f, !.level = 1, !.parent = 0,
                         !.at = IF Chain[f][1].type = "movie" THEN "byPath" ELSE "lookup"]
    <3>1. PICK x : x = loop'
      OBVIOUS
    <3>2. x.at \in {"byPath", "lookup"} /\ x.level = 1 /\ x.parent = 0
      BY <1>0, <2>3, <3>1 DEF LoopType
    <3>3. WalkNear(x)
      BY <3>2 DEF WalkNear, Seeking, Replacing
    <3> QED BY <1>2, <3>1, <3>3
  <2> QED BY <1>5, <2>2, <2>3 DEF PickFile
<1>6. ASSUME NEW i \in Nat, loop.at \in {"byPath"} \cup Seeking, loop' = Descend(i),
             Near(i, loop.file, loop.level), loop.level < Len(Chain[loop.file]) => OfOneLib(i, loop.lib)
      PROVE  NearTables'
  BY <1>2, <1>6, DescendNear
<1>7. CASE FindByPath
  <2> DEFINE found == {i \in Items : HoldsPath(i)}
  <2>1. CASE loop' = [loop EXCEPT !.at = "lookup"]
    <3>1. PICK x : x = loop'
      OBVIOUS
    <3>2. x.at = "lookup" /\ x.level = loop.level /\ x.parent = loop.parent /\ loop.at = "byPath" /\ loop.level = 1
      BY <1>0, <1>7, <2>1, <3>1 DEF LoopType, FindByPath, Typed, FileOK
    <3>3. WalkNear(x)
      BY <3>2 DEF NearTables, WalkNear, Seeking, Replacing
    <3> QED BY <1>2, <3>1, <3>3
  <2>2. CASE found # {} /\ loop' = Descend(Min(found))
    <3>1. PICK i \in Nat : i \in found /\ loop' = Descend(i)
      BY <2>2, FoundIs
    <3>2. Len(Chain[loop.file]) = 1 /\ loop.level = 1 /\ Near(i, loop.file, 1) /\ OfOneLib(i, loop.lib)
      BY <1>7, <3>1, PathNear DEF FindByPath
    <3> QED BY <1>6, <1>7, <3>1, <3>2 DEF FindByPath
  <2> QED BY <1>7, <2>1, <2>2 DEF FindByPath
<1>8. CASE Lookup
  <2>1. loop.at = "lookup"
    BY <1>8 DEF Lookup
  <2>2. CASE loop' = [loop EXCEPT !.at = "insert"]
    <3>1. PICK x : x = loop'
      OBVIOUS
    <3>2. x.at = "insert" /\ x.level = loop.level /\ x.parent = loop.parent /\ x.file = loop.file /\ x.lib = loop.lib
      BY <1>0, <2>2, <3>1 DEF LoopType
    <3>3. WalkNear(x)
      BY <2>1, <3>2 DEF NearTables, WalkNear, Seeking, Replacing
    <3> QED BY <1>2, <3>1, <3>3
  <2>3. CASE \E i \in Items : Matches(i, Step(loop.file)) /\ loop' = Descend(i)
    BY <1>6, <2>1, <2>3, MatchNear, RowIs DEF Seeking
  <2> QED BY <1>8, <2>2, <2>3 DEF Lookup
<1>9. CASE ReadBack
  <2>1. CASE loop' = [loop EXCEPT !.at = "walk"]
    <3>1. loop'.at = "walk"
      BY <1>0, <2>1 DEF LoopType
    <3> QED BY <1>3, <3>1 DEF InFileStage, Seeking, Replacing
  <2>2. CASE Items # {} /\ loop' = Descend(Max(Items))
    <3>1. Max(Items) = loop.item
      <4>1. hist \in HistType
        BY DEF Typed, TasksOK
      <4> QED BY <1>9, <2>2, <4>1 DEF ReadBack, HistType
    <3>2. loop.at = "readBack" /\ Near(loop.item, loop.file, loop.level) /\ OfOneLib(loop.item, loop.lib)
      BY <1>9 DEF ReadBack, NearTables, WalkNear
    <3>3. loop.item \in Nat
      BY <1>0 DEF LoopType
    <3> QED BY <1>6, <2>2, <3>1, <3>2, <3>3 DEF Seeking
  <2> QED BY <1>9, <2>1, <2>2 DEF ReadBack
<1>10. CASE FindSource
  <2>1. PICK x : x = loop'
    OBVIOUS
  <2>2. x.at = "attach" \/ (x.at = "dropSubs" /\ x.parent = loop.parent /\ x.file = loop.file)
    BY <1>0, <1>10, <2>1 DEF FindSource, LoopType
  <2>3. WalkNear(x)
    BY <1>10, <2>2 DEF FindSource, NearTables, WalkNear, Seeking, Replacing
  <2> QED BY <1>2, <2>1, <2>3
<1>11. CASE DropSubs \/ DropSources
  <2>1. PICK x : x = loop'
    OBVIOUS
  <2>2. x.at \in Replacing /\ x.parent = loop.parent /\ x.file = loop.file /\ loop.at \in Replacing
    BY <1>0, <1>11, <2>1 DEF DropSubs, DropSources, LoopType, Replacing
  <2>3. WalkNear(x)
    BY <2>2 DEF NearTables, WalkNear, Seeking, Replacing
  <2> QED BY <1>2, <2>1, <2>3
<1>12. CASE Attach \/ FileFails
  <2>1. loop'.at = "walk"
    BY <1>0, <1>12 DEF Attach, FileFails, LoopType
  <2> QED BY <1>3, <2>1 DEF InFileStage, Seeking, Replacing
<1> QED BY <1>4, <1>5, <1>7, <1>8, <1>9, <1>10, <1>11, <1>12

LEMMA InsertItemNear ==
  ASSUME Typed, Typed', NearTables, InsertItem PROVE NearTables'
<1>0. /\ loop \in LoopType /\ loop.at = "insert" /\ loop.at \in Seeking /\ UNCHANGED <<src, virt>>
      /\ loop.file \in File /\ loop.level \in 1 .. Len(Chain[loop.file]) /\ Len(Chain[loop.file]) \in {1, 3}
      /\ lastItem \in Nat
  BY ChainIs DEF InsertItem, LoopOnly, Typed, TasksOK, FileOK, Seeking, CountersOK
<1>1. NoNewSources
  BY <1>0 DEF NoNewSources, Sources
<1>2. CASE Taken(NewItem)
  <2>1. loop' = [loop EXCEPT !.at = "walk"] /\ UNCHANGED <<item, lastItem>>
    BY <1>2 DEF InsertItem
  <2>2. PICK x : x = loop'
    OBVIOUS
  <2>3. x.at = "walk"
    BY <1>0, <2>1, <2>2 DEF LoopType
  <2>4. WalkNear(x)
    BY <2>3, NearAtRest DEF InFileStage, Seeking, Replacing
  <2> QED BY <1>0, <1>1, <2>1, <2>2, <2>4, SameItemsMove, LoopNear
<1>3. CASE ~Taken(NewItem)
  <2>0. PICK new \in Nat : new = lastItem + 1
    BY <1>0
  <2>1. /\ lastItem' = new /\ item' = With(item, new, NewItem)
        /\ loop' = [loop EXCEPT !.at = "readBack", !.item = new]
    BY <1>3, <2>0 DEF InsertItem
  <2>2. NewItem \in ItemRow
    <3>1. loop.parent \in Nat /\ loop.lib \in Nat
      BY <1>0 DEF LoopType
    <3>2. Step(loop.file).type \in Types /\ Step(loop.file).key \in Keys
      BY <1>0, ChainIs DEF Step
    <3> QED BY <3>1, <3>2 DEF NewItem, ItemRow
  <2>3. /\ Items' = Items \cup {new} /\ new \notin Items /\ item'[new] = NewItem
        /\ \A i \in Items : item'[i] = item[i]
    BY <2>0, <2>1, <2>2, ItemAdded
  <2>4. Moves
    BY <1>0, <2>0, <2>1, <2>3 DEF Moves
  <2>5. /\ NewItem.type = Chain[loop.file][loop.level].type /\ NewItem.key = Chain[loop.file][loop.level].key
        /\ NewItem.parent = loop.parent /\ NewItem.lib = loop.lib
    BY DEF NewItem, Step
  <2>6. loop.level \in {1, 2, 3} /\ (loop.level # 1 => Len(Chain[loop.file]) = 3)
    <3>1. CASE Len(Chain[loop.file]) = 1
      BY <1>0, <3>1
    <3>2. CASE Len(Chain[loop.file]) = 3
      BY <1>0, <3>2
    <3> QED BY <1>0, <3>1, <3>2
  <2>7. IF loop.level = 1 THEN loop.parent = 0
        ELSE Near(loop.parent, loop.file, loop.level - 1) /\ OfOneLib(loop.parent, loop.lib)
    BY <1>0 DEF NearTables, WalkNear
  <2>8. loop.parent \in 0 .. lastItem
    BY <1>0, <2>7 DEF Near
  <2>9. loop.level # 1 => NewItem.type \in {"season", "episode"}
    BY <2>5, <2>6, ChainIs, <1>0
  <2>10. RowsNear'
    <3>1. NewItem.type \in {"movie", "series"} => loop.parent = 0
      BY <2>7, <2>9
    <3>2. NewItem.type \in {"season", "episode"} => OfOneLib(loop.parent, loop.lib)
      <4>1. loop.level = 1 => 0 \notin Items
        BY RowIs
      <4> QED BY <2>7, <4>1 DEF OfOneLib
    <3>3. Items' \ Items = {new}
      BY <2>3
    <3> QED BY <1>1, <2>3, <2>4, <2>5, <2>8, <3>1, <3>2, <3>3, RowsNearKept DEF NearTables
  <2>11. WalkNear(loop)'
    <3>1. PICK x \in LoopType, f \in File :
            /\ x = loop' /\ f = loop.file /\ x.at = "readBack" /\ x.item = new /\ x.file = f
            /\ x.level = loop.level /\ x.parent = loop.parent /\ x.lib = loop.lib
      <4>1. PICK x : x = loop'
        OBVIOUS
      <4>2. /\ x.at = "readBack" /\ x.item = new /\ x.file = loop.file
            /\ x.level = loop.level /\ x.parent = loop.parent /\ x.lib = loop.lib
        BY <1>0, <2>1, <4>1 DEF LoopType
      <4>3. x \in LoopType
        BY <4>1 DEF Typed, TasksOK
      <4> QED BY <1>0, <4>1, <4>2, <4>3
    <3>2. x.level # 1 => Near(x.parent, f, x.level - 1)' /\ OfOneLib(x.parent, x.lib)'
      BY <2>4, <2>7, <2>8, <3>1, NearKept, OneLibKept DEF NearTables
    <3>3. item'[new].type = Chain[f][x.level].type /\ item'[new].key = Chain[f][x.level].key
          /\ item'[new].parent = x.parent /\ item'[new].lib = x.lib /\ new \in 0 .. lastItem'
      BY <1>0, <2>1, <2>3, <2>5, <3>1
    <3>4. Near(new, f, x.level)'
      <4>1. CASE x.level = 1
        BY <3>3, <4>1 DEF Near, NearFirst
      <4>2. CASE x.level = 2
        <5>1. Chain[f][2].type = "season" /\ NearFirst(x.parent, f)'
          BY <1>0, <2>6, <3>1, <3>2, <4>2, ChainIs DEF Near
        <5> QED BY <3>3, <4>2, <5>1 DEF Near, NearSecond, NearFirst
      <4>3. CASE x.level = 3
        <5>1. Chain[f][3].type = "episode" /\ NearSecond(x.parent, f)'
          BY <1>0, <2>6, <3>1, <3>2, <4>3, ChainIs DEF Near
        <5> QED BY <3>3, <4>3, <5>1 DEF Near, NearThird, NearSecond, NearFirst
      <4> QED BY <2>6, <3>1, <4>1, <4>2, <4>3
    <3>5. OfOneLib(new, x.lib)'
      BY <3>3 DEF OfOneLib
    <3>6. SourcesOf(new)' = {}
      <4>1. \A s \in Sources : src[s].item \in 0 .. lastItem
        BY DEF NearTables, RowsNear, NearEnd, Near
      <4> QED BY <1>0, <1>1, <2>0, <4>1 DEF NoNewSources, SourcesOf
    <3>7. x.level = 1 => x.parent = 0
      BY <2>7, <3>1
    <3>8. Near(x.item, x.file, x.level)' /\ OfOneLib(x.item, x.lib)' /\ SourcesOf(x.item)' = {}
      <4>1. lastItem' = new /\ x.item = new
        BY <2>1, <3>1
      <4> QED BY <3>1, <3>4, <3>5, <3>6, <4>1
    <3>9. WalkNear(x)'
      BY <3>1, <3>2, <3>7, <3>8 DEF WalkNear, Seeking, Replacing
    <3> QED BY <3>1, <3>9
  <2> QED BY <1>0, <2>4, <2>10, <2>11, VirtNearKept DEF NearTables
<1> QED BY <1>2, <1>3

LEMMA InsertSourceNear ==
  ASSUME Typed, Typed', NearTables, InsertSource PROVE NearTables'
<1>0. /\ loop \in LoopType /\ loop.at = "insertSource" /\ UNCHANGED <<item, lastItem, virt>>
      /\ loop.file \in File
  BY DEF InsertSource, LoopOnly, Typed, TasksOK, FileOK, Replacing
<1> DEFINE row == [item |-> loop.parent, file |-> loop.file,
                   status |-> IF Probed(loop.file) THEN "pending" ELSE "ok"]
<1>1. row \in SourceRow /\ row.item = loop.parent /\ row.file = loop.file
  BY <1>0 DEF LoopType, SourceRow
<1>2. src' = With(src, lastSrc + 1, row) /\ lastSrc' = lastSrc + 1
      /\ loop' = [loop EXCEPT !.at = "attach", !.row = <<lastSrc + 1, loop.file>>]
  BY DEF InsertSource
<1> HIDE DEF row
<1>3. /\ Sources' = Sources \cup {lastSrc + 1} /\ lastSrc + 1 \notin Sources
      /\ src'[lastSrc + 1] = row /\ \A s \in Sources : src'[s] = src[s]
  BY <1>1, <1>2, SourceAdded
<1>4. \A s \in Sources' : NearEnd(src'[s].item, src'[s].file)
  <2>1. NearEnd(loop.parent, loop.file)
    BY <1>0 DEF NearTables, WalkNear, Replacing
  <2> QED BY <1>1, <1>3, <2>1 DEF NearTables, RowsNear
<1>5. RowsNear'
  BY <1>0, <1>4 DEF NearTables, RowsNear, NearEnd, Near, NearFirst, NearSecond, NearThird, OfOneLib, Items
<1>6. loop'.at = "attach"
  BY <1>0, <1>2 DEF LoopType
<1>7. WalkNear(loop)'
  BY <1>6 DEF WalkNear, Seeking, Replacing
<1>8. VirtNear'
  BY <1>0 DEF NearTables, VirtNear, Items
<1> QED BY <1>5, <1>7, <1>8 DEF NearTables

LEMMA DetectMoves ==
  ASSUME Typed, Detection
  PROVE  Moves /\ NoNewSources /\ Items' \subseteq Items /\ UNCHANGED <<lastItem, lib, disk, virt>>
<1>1. UNCHANGED <<lastItem, lib, disk, virt>>
  BY DEF Detection, DetectList, Stat, DetectEnd, ItemOf, DelSubs, DelSource, Count, DelItem, DetectFails,
      tables, LoopOnly
<1>2. NoNewSources
  <2>1. ~InsertSource
    BY DEF Detection, DetectList, Stat, DetectEnd, ItemOf, DelSubs, DelSource, Count, DelItem, DetectFails,
        InsertSource
  <2> QED BY <2>1, SourcesMove DEF Next
<1>3. item' = item \/ \E i \in loop.stack : item' = Without(item, {i})
  BY DEF Detection, DetectList, Stat, DetectEnd, ItemOf, DelSubs, DelSource, Count, DelItem, DetectFails, tables
<1>4. Items' \subseteq Items /\ \A i \in Items' : item'[i] = item[i]
  <2>1. ASSUME NEW i, item' = Without(item, {i}) PROVE Items' \subseteq Items /\ \A j \in Items' : item'[j] = item[j]
    BY <2>1, ItemsRemoved
  <2> QED BY <1>3, <2>1 DEF Items
<1>5. Moves
  BY <1>1, <1>4 DEF Moves, Typed, CountersOK
<1> QED BY <1>1, <1>2, <1>4, <1>5

LEMMA DetectNear ==
  ASSUME Typed, Typed', NearTables, Detection PROVE NearTables'
<1>1. PICK x : x = loop'
  OBVIOUS
<1>2. x.at \notin InFileStage
  BY <1>1, DetectTyped DEF InFileStage, Scanning, Seeking, Replacing
<1> QED BY <1>1, <1>2, DetectMoves, NearAtRest, LoopNear

(* Beside the loop. *)
LEMMA BesideMoves ==
  ASSUME Typed, Typed', VirtNear, ProbeLoop \/ ScrapeLoop \/ (Environment /\ ~Restart)
  PROVE  Moves /\ NoNewSources /\ loop' = loop
<1>1. loop' = loop
  BY ScrapeIs, VirtMoveIs DEF ProbeLoop, ProbeList, ProbeChunk, ProbeDone, NotProbe, VirtInsert, NotVirt,
      Retitles, Retitle, Environment, Request, MakeLibrary, DeleteLibrary, DiskChanges
<1>2. NoNewSources
  <2>1. ~InsertSource
    BY <1>1 DEF InsertSource, Typed, TasksOK, LoopType
  <2> QED BY <2>1, SourcesMove DEF Next
<1>3. Moves
  <2>0. lastItem \in Nat /\ item \in [Items -> ItemRow]
    BY DEF Typed, CountersOK, RowsOK
  <2>1. CASE UNCHANGED <<item, lastItem>>
    BY <2>1, SameItemsMove
  <2>2. CASE VirtInsert
    <3> DEFINE row == [type |-> "season", parent |-> virt.series, key |-> virt.number, virtual |-> TRUE,
                       lib |-> virt.lib]
    <3>1. \/ UNCHANGED <<item, lastItem>>
          \/ lastItem' = lastItem + 1 /\ item' = With(item, lastItem + 1, row)
      BY <2>2 DEF VirtInsert
    <3> HIDE DEF row
    <3>2. CASE lastItem' = lastItem + 1 /\ item' = With(item, lastItem + 1, row)
      <4>1. /\ Items' = Items \cup {lastItem + 1} /\ lastItem + 1 \notin Items
            /\ \A i \in Items : item'[i] = item[i]
        BY <2>0, <3>2 DEF Items, With, Typed, RowsOK
      <4> QED BY <2>0, <3>2, <4>1 DEF Moves
    <3> QED BY <2>1, <3>1, <3>2
  <2>3. ASSUME NEW i \in Items, NEW t \in Titles, Retitle(i, t) PROVE Moves
    <3>1. item' = [item EXCEPT ![i].key = t] /\ lastItem' = lastItem /\ item[i].type = "movie"
      BY <2>3 DEF Retitle
    <3>2. Items' = Items /\ \A j \in Items : item'[j] = IF j = i THEN [item[j] EXCEPT !.key = t] ELSE item[j]
      BY <2>0, <3>1 DEF Items
    <3>3. \A j \in Items : /\ item'[j].type = item[j].type /\ item'[j].parent = item[j].parent
                           /\ item'[j].lib = item[j].lib /\ (j # i => item'[j].key = item[j].key)
                           /\ (j = i => item'[j].key = t)
      BY <2>0, <3>2 DEF ItemRow
    <3> QED BY <2>0, <3>1, <3>2, <3>3 DEF Moves
  <2>4. CASE DeleteLibrary
    <3>1. Items' \subseteq Items /\ \A i \in Items' : item'[i] = item[i]
      BY <2>4, ItemsRemoved DEF DeleteLibrary
    <3> QED BY <2>0, <2>4, <3>1 DEF DeleteLibrary, Moves
  <2> QED BY <2>1, <2>2, <2>3, <2>4, ScrapeIs, VirtMoveIs DEF ProbeLoop, ProbeList, ProbeChunk, ProbeDone,
        NotProbe, Retitles, Environment, Request, MakeLibrary, DiskChanges, tables
<1> QED BY <1>1, <1>2, <1>3

LEMMA BesideNear ==
  ASSUME Typed, Typed', NearTables, ~hist'.mixed, ProbeLoop \/ ScrapeLoop \/ (Environment /\ ~Restart)
  PROVE  NearTables'
<1>1. Moves /\ NoNewSources /\ loop' = loop
  BY BesideMoves DEF NearTables
<1>2. WalkNear(loop)'
  <2>1. PICK x \in LoopType : x = loop /\ (x.at \in InFileStage => x.file \in File)
    BY LoopFile DEF InFileTyped
  <2>2. WalkNear(x)'
    BY <1>1, <2>1, WalkNearKept DEF NearTables
  <2> QED BY <1>1, <2>1, <2>2
<1>3. CASE VirtInsert
  <2> DEFINE row == [type |-> "season", parent |-> virt.series, key |-> virt.number, virtual |-> TRUE,
                     lib |-> virt.lib]
  <2>1. /\ virt.at = "ready"
        /\ (virt' = NoSeries \/ virt' = [virt EXCEPT !.at = "begun", !.number = 0, !.lib = 0])
        /\ \/ UNCHANGED <<item, lastItem>>
           \/ lastItem' = lastItem + 1 /\ item' = With(item, lastItem + 1, row)
    BY <1>3 DEF VirtInsert
  <2>2. virt.series \in 0 .. lastItem /\ lastItem \in Nat
        /\ (virt.series \in Items => item[virt.series].type = "series" /\ virt.lib = item[virt.series].lib)
    BY <2>1 DEF NearTables, VirtNear, Typed, CountersOK
  <2>3. row.type = "season" /\ row.parent = virt.series
        /\ (virt.series \in Items => row.lib = item[virt.series].lib)
    BY <2>2
  <2>7. VirtNear'
    <3>1. virt'.at = "idle" \/ (virt'.at = "begun" /\ virt'.series = virt.series)
      <4>1. virt \in VirtType
        BY DEF Typed, TasksOK
      <4>2. virt' = NoSeries \/ virt' = [virt EXCEPT !.at = "begun", !.number = 0, !.lib = 0]
        BY <2>1
      <4> QED BY <4>1, <4>2, BegunIs
    <3>2. virt.series \in Items' => virt.series \in Items /\ item'[virt.series].type = item[virt.series].type
      BY <1>1, <2>2 DEF Moves
    <3>3. virt.series \in 0 .. lastItem'
      BY <1>1, <2>2 DEF Moves
    <3> QED BY <2>2, <3>1, <3>2, <3>3 DEF VirtNear
  <2> HIDE DEF row
  <2>4. OfOneLib(row.parent, row.lib)
    BY <2>2, <2>3 DEF OfOneLib
  <2>5. CASE UNCHANGED <<item, lastItem>>
    <3>1. Items' \ Items = {}
      BY <2>5 DEF Items
    <3> QED BY <1>1, <1>2, <2>7, <3>1, RowsNearKept DEF NearTables
  <2>6. CASE lastItem' = lastItem + 1 /\ item' = With(item, lastItem + 1, row)
    <3>1. Items' \ Items \subseteq {lastItem + 1} /\ item'[lastItem + 1] = row
      BY <2>6 DEF Items, With
    <3>2. RowsNear'
      BY <1>1, <2>2, <2>3, <2>4, <3>1, RowsNearKept DEF NearTables
    <3> QED BY <1>2, <2>7, <3>2 DEF NearTables
  <2> QED BY <2>1, <2>5, <2>6
<1>4. CASE ~VirtInsert
  <2>1. Items' \ Items = {}
    <3>1. CASE item' = item
      BY <3>1 DEF Items
    <3>2. ASSUME NEW i \in Items, NEW t \in Titles, Retitle(i, t) PROVE Items' \ Items = {}
      BY <3>2 DEF Retitle, Items
    <3>3. CASE DeleteLibrary
      BY <3>3, ItemsRemoved DEF DeleteLibrary
    <3> QED BY <1>4, <3>1, <3>2, <3>3, ScrapeIs, VirtMoveIs DEF ProbeLoop, ProbeList, ProbeChunk, ProbeDone,
          NotProbe, Retitles, Environment, Request, MakeLibrary, DiskChanges, tables
  <2>2. RowsNear'
    BY <1>1, <2>1, RowsNearKept DEF NearTables
  <2>3. VirtNear'
    <3>1. CASE VirtMoves
      <4>0. item' = item /\ lastItem' = lastItem /\ virt \in VirtType /\ VirtNear
        BY <3>1, VirtMoveIs DEF tables, Typed, TasksOK, NearTables
      <4>1. ASSUME NEW i \in Items, VirtBegin(i) PROVE VirtNear'
        <5>1. virt'.series = i /\ virt'.at = "begun" /\ item[i].type = "series"
          BY <4>1 DEF VirtBegin, NoSeries
        <5>2. i \in 0 .. lastItem
          BY RowIs DEF Typed, CountersOK
        <5> QED BY <4>0, <5>1, <5>2 DEF VirtNear, Items
      <4>2. ASSUME NEW n \in Seasons, VirtFind(n) PROVE VirtNear'
        <5>1. virt'.at \in {"begun", "found"} /\ virt'.series = virt.series /\ virt.at = "begun"
          BY <4>0, <4>2 DEF VirtFind, VirtType
        <5> QED BY <4>0, <5>1 DEF VirtNear, Items
      <4>3. CASE VirtLib
        <5>1. virt'.at = "ready" /\ virt'.series = virt.series /\ virt.at = "found"
              /\ virt'.lib = IF virt.series \in Items THEN item[virt.series].lib ELSE 0
          BY <4>0, <4>3 DEF VirtLib, Typed, TasksOK, VirtType, HistType
        <5> QED BY <4>0, <5>1 DEF VirtNear, Items
      <4>4. CASE VirtEnd
        BY <4>4 DEF VirtEnd, NoSeries, VirtNear
      <4> QED BY <3>1, <4>1, <4>2, <4>3, <4>4 DEF VirtMoves
    <3>2. CASE virt' = virt
      BY <1>1, <3>2, VirtNearKept DEF NearTables
    <3> QED BY <1>4, <3>1, <3>2, ScrapeIs DEF ProbeLoop, ProbeList, ProbeChunk, ProbeDone, NotProbe,
          Retitles, Retitle, Environment, Request, MakeLibrary, DeleteLibrary, DiskChanges
  <2> QED BY <1>2, <2>2, <2>3 DEF NearTables
<1> QED BY <1>3, <1>4

LEMMA NearInit == Init => NearInv
<1> SUFFICES ASSUME Init PROVE NearTables
  BY DEF NearInv, NearTables
<1>1. Items = {} /\ Sources = {} /\ loop.at = "idle" /\ virt.at = "idle"
  BY DEF Init, Items, Sources, Idle, NoSeries
<1> QED BY <1>1 DEF NearTables, RowsNear, WalkNear, VirtNear, Seeking, Replacing

LEMMA MixedKept ==
  ASSUME Typed, Next, ~hist'.mixed PROVE hist'.mixed = FALSE /\ (hist.mixed => hist'.mixed)
<1>1. hist \in HistType /\ hist' \in HistType
  BY TypedStep DEF Typed, TasksOK
<1>2. CASE ScrapeLoop
  <2>1. CASE VirtMoves
    BY <1>1, <2>1 DEF VirtMoves, VirtBegin, VirtFind, VirtLib, VirtEnd, HistType
  <2> QED BY <1>1, <1>2, <2>1, ScrapeIs DEF VirtInsert, Retitles, Retitle, HistType
<1>3. CASE ScanLoop \/ Detection
  BY <1>1, <1>3, ClaimIs DEF HistType, ScanLoop, Detection, ScanStart, ListDir, PickFile, FindByPath, Lookup,
      InsertItem, ReadBack, FindSource, DropSubs, DropSources, InsertSource, Attach, FileFails, DetectList, Stat,
      DetectEnd, ItemOf, DelSubs, DelSource, Count, DelItem, DetectFails, Disturb, Tear
<1>4. CASE ProbeLoop \/ Environment
  BY <1>1, <1>4 DEF HistType, ProbeLoop, ProbeList, ProbeChunk, ProbeDone, NotProbe, Environment, Request,
      MakeLibrary, DeleteLibrary, DiskChanges, Restart, Disturb, Tear
<1> QED BY <1>2, <1>3, <1>4 DEF Next

LEMMA NearStep ==
  Typed /\ NearInv /\ [Next]_vars => NearInv'
<1>1. ASSUME Typed, NearInv, Next, ~hist.mixed' PROVE NearTables'
  <2>1. Typed'
    BY <1>1, TypedStep
  <2>2. ~hist.mixed
    <3>1. hist \in HistType
      BY <1>1 DEF Typed, TasksOK
    <3>2. hist'.mixed = FALSE /\ (hist.mixed => hist'.mixed)
      BY <1>1, MixedKept
    <3> QED BY <3>2
  <2>3. NearTables
    BY <1>1, <2>2 DEF NearInv, NearTables
  <2>4. CASE ScanStart
    <3>1. UNCHANGED <<item, lastItem, src, virt>> /\ loop'.at = "walk"
      BY <2>4 DEF ScanStart, tables, Idle
    <3>2. PICK x : x = loop'
      OBVIOUS
    <3>3. WalkNear(x)
      BY <3>1, <3>2, NearAtRest DEF InFileStage, Seeking, Replacing
    <3>4. NoNewSources
      BY <3>1 DEF NoNewSources, Sources
    <3> QED BY <1>1, <2>1, <2>3, <3>1, <3>2, <3>3, <3>4, SameItemsMove, LoopNear
  <2>9. CASE Claim
    <3>1. PICK x : x = loop' /\ x.at = "claimed"
      BY <2>9, ClaimIs
    <3>2. WalkNear(x)
      BY <3>1, NearAtRest DEF InFileStage, Seeking, Replacing
    <3>3. NoNewSources /\ UNCHANGED <<item, lastItem, virt>>
      BY <2>9, ClaimIs DEF NoNewSources, Sources
    <3> QED BY <1>1, <2>1, <2>3, <3>1, <3>2, <3>3, SameItemsMove, LoopNear
  <2>5. CASE Restart
    <3>1. UNCHANGED <<item, lastItem, src>> /\ loop'.at = "idle" /\ virt'.at = "idle"
      BY <2>5 DEF Restart, tables, Idle, NoSeries
    <3>2. RowsNear'
      BY <2>3, <3>1 DEF NearTables, RowsNear, NearEnd, Near, NearFirst, NearSecond, NearThird, OfOneLib,
          Items, Sources
    <3>3. WalkNear(loop)' /\ VirtNear'
      BY <3>1 DEF WalkNear, VirtNear, Seeking, Replacing
    <3> QED BY <3>2, <3>3 DEF NearTables
  <2>6. CASE ScanLoop
    BY <1>1, <2>1, <2>3, <2>4, <2>6, <2>9, WalkNearStep, InsertItemNear, InsertSourceNear DEF ScanLoop
  <2>7. CASE Detection
    BY <1>1, <2>1, <2>3, <2>7, DetectNear
  <2>8. CASE ProbeLoop \/ ScrapeLoop \/ (Environment /\ ~Restart)
    BY <1>1, <2>1, <2>3, <2>8, BesideNear
  <2> QED BY <1>1, <2>5, <2>6, <2>7, <2>8 DEF Next
<1>2. ASSUME Typed, NearInv, UNCHANGED vars PROVE NearInv'
  <2>1. UNCHANGED <<item, src, lastItem, loop, virt, hist>>
    BY <1>2 DEF vars, tables
  <2>2. \A i, f, n : Near(i, f, n)' <=> Near(i, f, n)
    BY <2>1 DEF Near, NearFirst, NearSecond, NearThird, Items
  <2>3. \A i, l : OfOneLib(i, l)' <=> OfOneLib(i, l)
    BY <2>1 DEF OfOneLib, Items
  <2>4. RowsNear' <=> RowsNear
    BY <2>1, <2>2, <2>3 DEF RowsNear, NearEnd, Items, Sources
  <2>5. WalkNear(loop)' <=> WalkNear(loop)
    BY <2>1, <2>2, <2>3 DEF WalkNear, NearEnd, SourcesOf, Sources
  <2>6. VirtNear' <=> VirtNear
    BY <2>1 DEF VirtNear, Items
  <2> QED BY <1>2, <2>1, <2>4, <2>5, <2>6 DEF NearInv
<1>3. NearInv' <=> (~hist.mixed' => NearTables')
  BY DEF NearInv, NearTables
<1> QED BY <1>1, <1>2, <1>3

-----------------------------------------------------------------------------
(* Whose item a file comes to.                                             *)

LEMMA SameChain ==
  ASSUME NEW f \in File, NEW g \in File, Len(Chain[f]) = Len(Chain[g]),
         Chain[f][1].key = Chain[g][1].key,
         Len(Chain[f]) = 3 => Chain[f][2].key = Chain[g][2].key /\ Chain[f][3].key = Chain[g][3].key
  PROVE  Chain[f] = Chain[g]
<1> DEFINE one(c) == c = <<[type |-> "movie", key |-> c[1].key]>>
           three(c) == c = <<[type |-> "series", key |-> c[1].key], [type |-> "season", key |-> c[2].key],
                             [type |-> "episode", key |-> c[3].key]>>
<1>1. (one(Chain[f]) \/ three(Chain[f])) /\ (one(Chain[g]) \/ three(Chain[g]))
  BY MediaAssumption
<1> HIDE DEF one, three
<1>2. ASSUME NEW c, one(c) PROVE Len(c) = 1 /\ c = <<[type |-> "movie", key |-> c[1].key]>>
  <2>1. PICK k : c = <<[type |-> "movie", key |-> k]>> /\ k = c[1].key
    BY <1>2 DEF one
  <2> QED BY <2>1
<1>3. ASSUME NEW c, three(c)
      PROVE  /\ Len(c) = 3
             /\ c = <<[type |-> "series", key |-> c[1].key], [type |-> "season", key |-> c[2].key],
                      [type |-> "episode", key |-> c[3].key]>>
  <2>1. PICK k, l, m : /\ c = <<[type |-> "series", key |-> k], [type |-> "season", key |-> l],
                                [type |-> "episode", key |-> m]>>
                       /\ k = c[1].key /\ l = c[2].key /\ m = c[3].key
    BY <1>3 DEF three
  <2> QED BY <2>1
<1>4. PICK c, d : c = Chain[f] /\ d = Chain[g]
  OBVIOUS
<1>5. CASE one(c) /\ one(d)
  <2>1. c[1].key = d[1].key
    BY <1>4
  <2>2. c = d
    BY <1>2, <1>5, <2>1
  <2> QED BY <1>4, <2>2
<1>6. CASE three(c) /\ three(d)
  <2>1. c[1].key = d[1].key /\ c[2].key = d[2].key /\ c[3].key = d[3].key
    BY <1>3, <1>4, <1>6
  <2>2. c = d
    BY <1>3, <1>6, <2>1
  <2> QED BY <1>4, <2>2
<1>7. Len(c) = Len(d)
  BY <1>4
<1> QED BY <1>1, <1>2, <1>3, <1>4, <1>5, <1>6, <1>7

LEMMA TakeOverChains ==
  ASSUME NEW f \in File, NEW g \in File, NEW h \in File, MayTakeOver(g, f), MayTakeOver(h, g)
  PROVE  MayTakeOver(h, f)
BY DEF MayTakeOver

(* The sources of an item the walk found by its key are of files the walk's
   file may take over from. *)
LEMMA FoundTakesOver ==
  ASSUME Typed, NearTables, loop.at = "lookup", NEW i \in Items, Matches(i, Step(loop.file)),
         loop.level = Len(Chain[loop.file]), There(i, Len(Chain[loop.file])),
         NEW s \in SourcesOf(i)
  PROVE  MayTakeOver(loop.file, src[s].file)
<1>1. PICK g \in File : g = src[s].file /\ s \in Sources /\ src[s].item = i
  BY RowIs DEF SourcesOf, SourceRow
<1>2. /\ loop.file \in File /\ loop.at \in Seeking /\ Len(Chain[loop.file]) \in {1, 3} /\ Len(Chain[g]) \in {1, 3}
  BY ChainIs DEF Typed, FileOK, Seeking
<1>3. Near(i, g, Len(Chain[g])) /\ Near(i, loop.file, Len(Chain[loop.file]))
  <2>1. Near(i, loop.file, loop.level)
    BY MatchNear
  <2> QED BY <1>1, <2>1 DEF NearTables, RowsNear, NearEnd
<1>4. item[i].key = Chain[loop.file][loop.level].key
  BY DEF Matches, Step
<1>5. CASE Len(Chain[loop.file]) = 1
  <2>1. item[i].type = "movie"
    BY <1>2, <1>3, <1>5, ChainIs DEF Near, NearFirst
  <2>2. Len(Chain[g]) = 1
    <3>1. CASE Len(Chain[g]) = 3
      <4>1. NearThird(i, g)
        BY <1>3, <3>1 DEF Near
      <4> QED BY <2>1, <4>1 DEF NearThird
    <3> QED BY <1>2, <3>1
  <2>3. item[i].key = Chain[g][1].key \/ item[i].key \in Titles
    BY <1>3, <2>2 DEF Near, NearFirst
  <2>4. CASE item[i].key = Chain[g][1].key
    BY <1>1, <1>2, <1>4, <1>5, <2>2, <2>4, SameChain DEF MayTakeOver
  <2>5. CASE item[i].key \in Titles
    BY <1>1, <1>4, <1>5, <2>2, <2>5 DEF MayTakeOver
  <2> QED BY <2>3, <2>4, <2>5
<1>6. CASE Len(Chain[loop.file]) = 3
  <2>1. NearThird(i, loop.file) /\ item[i].type = "episode"
    BY <1>3, <1>6 DEF Near, NearThird
  <2>2. Len(Chain[g]) = 3
    <3>1. CASE Len(Chain[g]) = 1
      <4>1. item[i].type = "movie"
        BY <1>3, <3>1, ChainIs DEF Near, NearFirst
      <4> QED BY <2>1, <4>1
    <3> QED BY <1>2, <3>1
  <2>3. PICK p : p = item[i].parent
    OBVIOUS
  <2>4. p \in Items /\ item[p].parent \in Items
    BY <1>6, <2>3 DEF There
  <2>5. /\ item[i].key = Chain[g][3].key /\ item[i].key = Chain[loop.file][3].key
        /\ NearSecond(p, g) /\ NearSecond(p, loop.file)
    BY <1>3, <2>1, <2>2, <2>3 DEF Near, NearThird
  <2>6. /\ item[p].key = Chain[g][2].key /\ item[p].key = Chain[loop.file][2].key
        /\ NearFirst(item[p].parent, g) /\ NearFirst(item[p].parent, loop.file)
    BY <2>4, <2>5 DEF NearSecond
  <2>7. Chain[g][1].type = "series" /\ Chain[loop.file][1].type = "series"
    BY <1>2, <1>6, <2>2, ChainIs
  <2>8. item[item[p].parent].key = Chain[g][1].key /\ item[item[p].parent].key = Chain[loop.file][1].key
    BY <2>4, <2>6, <2>7 DEF NearFirst
  <2>9. Chain[loop.file] = Chain[g]
    BY <1>2, <1>6, <2>2, <2>5, <2>6, <2>8, SameChain
  <2> QED BY <1>1, <2>9 DEF MayTakeOver
<1> QED BY <1>2, <1>5, <1>6

-----------------------------------------------------------------------------
(* A round.                                                                *)

Now == hist.still /\ ~hist.mixed

LEMMA RoundFrame ==
  ASSUME UNCHANGED <<item, src, lib, disk, lastItem>>, NEW x PROVE Round(x)' <=> Round(x)
<1>1. WalkRound(x)' <=> WalkRound(x)
  BY DEF WalkRound, There, SourcesOf, Items, Sources
<1>2. DetectRound(x)' <=> DetectRound(x)
  BY DEF DetectRound, There, SourcesOf, Items, Sources, OnDisk, Sits, LineOf, Line
<1>3. Missing(x)' <=> Missing(x)
  BY DEF Missing, Sources
<1>4. \A f : (Claimed(x, f)' <=> Claimed(x, f)) /\ (Wanted(f)' <=> Wanted(f)) /\ (Walked(x, f)' <=> Walked(x, f))
  BY DEF Claimed, Wanted, Walked, Rivals, Sits, There, Items, Sources
<1> QED BY <1>1, <1>2, <1>3, <1>4 DEF Round

(* What stands on items that stay, stands; nothing old comes to stand. *)
LEMMA ThereKept ==
  ASSUME Typed, Moves, lib' = lib, NEW i, NEW n \in {1, 2, 3}, There(i, n), Line(i, n) \subseteq Items'
  PROVE  There(i, n)' /\ Line(i, n)' = Line(i, n)
<1>1. lastItem \in Nat /\ Items \subseteq 1 .. lastItem
  BY DEF Typed, CountersOK, RowsOK
<1>2. ASSUME NEW k \in Items, k \in Items'
      PROVE  item'[k].parent = item[k].parent /\ item'[k].lib = item[k].lib
  BY <1>1, <1>2 DEF Moves
<1>3. i \in Items /\ i \in Items' /\ item[i].lib = lib
  BY DEF There, Line
<1>4. n > 1 => item[i].parent \in Items /\ item[i].parent \in Items'
  BY DEF There, Line
<1>5. n > 2 => item[item[i].parent].parent \in Items /\ item[item[i].parent].parent \in Items'
  BY DEF There, Line
<1>6. n > 2 => n > 1
  OBVIOUS
<1> QED BY <1>2, <1>3, <1>4, <1>5, <1>6 DEF There, Line

LEMMA ThereBack ==
  ASSUME Typed, RowsNear, Moves, lib' = lib, NEW i \in 0 .. lastItem, NEW n \in {1, 2, 3}, There(i, n)'
  PROVE  There(i, n) /\ Line(i, n)' = Line(i, n) /\ Line(i, n) \subseteq Items'
<1>1. lastItem \in Nat
  BY DEF Typed, CountersOK
<1>2. ASSUME NEW k \in 0 .. lastItem, k \in Items'
      PROVE  /\ k \in Items /\ item'[k].parent = item[k].parent /\ item'[k].lib = item[k].lib
             /\ item[k].parent \in 0 .. lastItem
  BY <1>1, <1>2 DEF Moves, RowsNear
<1>3. i \in Items' /\ i \in Items /\ item[i].lib = lib /\ item'[i].parent = item[i].parent
      /\ item[i].parent \in 0 .. lastItem
  BY <1>2 DEF There
<1>4. n > 1 => item[i].parent \in Items' /\ item[i].parent \in Items
               /\ item'[item[i].parent].parent = item[item[i].parent].parent
               /\ item[item[i].parent].parent \in 0 .. lastItem
  BY <1>2, <1>3 DEF There
<1>5. n > 2 => n > 1
  OBVIOUS
<1>6. n > 2 => item[item[i].parent].parent \in Items' /\ item[item[i].parent].parent \in Items
  BY <1>2, <1>3, <1>4, <1>5 DEF There
<1> QED BY <1>3, <1>4, <1>5, <1>6 DEF There, Line

LEMMA SourceEnd ==
  ASSUME Typed, NearTables, NEW s \in Sources
  PROVE  /\ src[s].file \in File /\ src[s].item \in 0 .. lastItem /\ Len(Chain[src[s].file]) \in {1, 2, 3}
         /\ NearEnd(src[s].item, src[s].file)
<1>1. NearEnd(src[s].item, src[s].file) /\ src[s].file \in File
  BY RowIs DEF NearTables, RowsNear, SourceRow
<1> QED BY <1>1, ChainIs DEF NearEnd, Near

LEMMA SitsKept ==
  ASSUME Typed, NearTables, Moves, NoNewSources, lib' = lib, NEW s \in Sources, s \in Sources', Sits(s),
         LineOf(s) \subseteq Items'
  PROVE  Sits(s)'
<1>1. PICK i \in 0 .. lastItem, n \in {1, 2, 3} : i = src[s].item /\ n = Len(Chain[src[s].file])
  BY SourceEnd
<1>2. There(i, n)'
  BY <1>1, ThereKept DEF Sits, LineOf
<1> QED BY <1>1, <1>2 DEF Sits, NoNewSources

LEMMA SitsBack ==
  ASSUME Typed, NearTables, Moves, NoNewSources, lib' = lib, NEW s \in Sources', Sits(s)'
  PROVE  s \in Sources /\ Sits(s) /\ LineOf(s)' = LineOf(s) /\ LineOf(s) \subseteq Items'
<1>0. s \in Sources /\ src'[s].item = src[s].item /\ src'[s].file = src[s].file
  BY DEF NoNewSources
<1>1. PICK i \in 0 .. lastItem, n \in {1, 2, 3} : i = src[s].item /\ n = Len(Chain[src[s].file])
  BY <1>0, SourceEnd
<1>2. There(i, n)'
  BY <1>0, <1>1 DEF Sits
<1>3. There(i, n) /\ Line(i, n)' = Line(i, n) /\ Line(i, n) \subseteq Items'
  BY <1>1, <1>2, ThereBack DEF NearTables
<1> QED BY <1>0, <1>1, <1>3 DEF Sits, LineOf

LEMMA LineThere ==
  ASSUME NEW s, Sits(s) PROVE LineOf(s) \subseteq Items
BY DEF Sits, LineOf, There, Line

(* Whoever does not begin a scan and leaves the round undisturbed found it
   undisturbed. *)
LEMMA NowStep ==
  ASSUME Typed, Next, Now', ~ScanStart
  PROVE  /\ Now /\ UNCHANGED <<disk, lib>>
         /\ ~FileFails /\ ~DetectFails /\ ~DeleteLibrary /\ ~Restart /\ ~Claim
<1>0. hist \in HistType
  BY DEF Typed, TasksOK
<1>1. CASE UNCHANGED <<hist, disk, lib>>
  <2>1. ~FileFails /\ ~DetectFails /\ ~Restart
    BY <1>0, <1>1 DEF Now, HistType, FileFails, DetectFails, Restart, Tear, Disturb
  <2>2. ~DeleteLibrary
    BY <1>0, <1>1 DEF DeleteLibrary
  <2> QED BY <1>0, <1>1, <2>1, <2>2, ClaimIs DEF Now
<1>2. ~FileFails /\ ~DetectFails
  BY <1>0 DEF Now, HistType, FileFails, DetectFails, Tear
<1>3. ~Restart
  BY <1>0 DEF Now, HistType, Restart, Tear, Disturb
<1>4. ~DeleteLibrary
  BY <1>0 DEF Now, HistType, DeleteLibrary
<1>5. ~\E f \in File : DiskChanges(f)
  BY <1>0 DEF Now, HistType, DiskChanges, Disturb
<1>6. CASE InsertItem
  <2>1. UNCHANGED <<disk, lib>>
    BY <1>6 DEF InsertItem, LoopOnly
  <2>2. hist' = hist
    BY <1>0, <1>6 DEF InsertItem, Now, HistType
  <2> QED BY <1>1, <2>1, <2>2
<1>7. CASE ReadBack
  <2>1. UNCHANGED <<disk, lib>>
    BY <1>7 DEF ReadBack, LoopOnly
  <2>2. hist' = hist
    BY <1>0, <1>7 DEF ReadBack, Now, HistType, Disturb
  <2> QED BY <1>1, <2>1, <2>2
<1>8. ~Claim /\ ~MakeLibrary
  BY <1>0, ClaimIs DEF Now, HistType, MakeLibrary, Disturb
<1>9. CASE VirtMoves
  <2>1. UNCHANGED <<disk, lib>>
    BY <1>9, VirtMoveIs
  <2>2. hist' = hist
    <3>1. CASE VirtLib
      BY <1>0, <3>1 DEF VirtLib, Now, HistType
    <3> QED BY <1>9, <3>1 DEF VirtMoves, VirtBegin, VirtFind, VirtEnd
  <2> QED BY <1>1, <2>1, <2>2
<1> QED BY <1>1, <1>2, <1>3, <1>4, <1>5, <1>6, <1>7, <1>8, <1>9, ScrapeIs DEF Next, ScanLoop, Detection,
      ProbeLoop, Environment, ListDir, PickFile, FindByPath, Lookup, FindSource, DropSubs, DropSources,
      InsertSource, Attach, DetectList, Stat, DetectEnd, ItemOf, DelSubs, DelSource, Count, DelItem, ProbeList,
      ProbeChunk, ProbeDone, NotProbe, VirtInsert, NotVirt, Retitles, Retitle, Request, LoopOnly

LEMMA LoopRound ==
  ASSUME UNCHANGED <<item, src, lib, disk, lastItem>>, NEW x, loop' = x, Round(x) PROVE Round(loop)'
<1>1. Round(x)'
  BY RoundFrame
<1> QED BY <1>1

(* The walk has nothing of detection's. *)
LEMMA WalkIsRound ==
  ASSUME NEW x, x.at \in Scanning, WalkRound(x), \A f \in disk : Wanted(f) /\ Walked(x, f) => Claimed(x, f)
  PROVE  Round(x)
<1>1. x.rows = {}
  BY DEF WalkRound
<1>2. x.at \notin Finding /\ x.at \notin Removing /\ x.at # "delItem"
  BY DEF Scanning, Finding, Removing
<1>3. DetectRound(x)
  BY <1>1, <1>2 DEF DetectRound
<1> QED BY <1>3 DEF Round, Missing

LEMMA InFileIsScanning == InFileStage \subseteq Scanning
BY DEF InFileStage, Seeking, Replacing, Scanning

(* A step inside a file, with the tables as they are. *)
LEMMA SameFileRound ==
  ASSUME Round(loop), loop.at \in InFileStage, loop.at # "insertSource",
         NEW x, x.at \in InFileStage, x.dirs = loop.dirs, x.todo = loop.todo, x.file = loop.file, WalkRound(x)
  PROVE  Round(x)
<1>1. ASSUME NEW f \in disk, Wanted(f), Walked(x, f) PROVE Claimed(x, f)
  <2>1. Walked(loop, f)
    BY <1>1, InFileIsScanning DEF Walked
  <2>2. Claimed(loop, f)
    BY <1>1, <2>1 DEF Round
  <2> QED BY <2>2 DEF Claimed
<1> QED BY <1>1, InFileIsScanning, WalkIsRound

(* Where the walk is at the end of its chain, and where it is not yet. *)
LEMMA SourceIsRound ==
  ASSUME NEW x, x.at = "source", x.lib = lib, lib # 0, x.rows = {}, x.todo \subseteq disk, x.file \in disk,
         There(x.parent, Len(Chain[x.file])),
         \A s \in SourcesOf(x.parent) : MayTakeOver(x.file, src[s].file)
  PROVE  WalkRound(x)
BY DEF WalkRound, Seeking, Replacing

LEMMA LookupIsRound ==
  ASSUME NEW x, x.at \in {"byPath", "lookup", "insert"}, x.lib = lib, lib # 0, x.rows = {}, x.todo \subseteq disk,
         x.file \in disk, x.at \in Seeking /\ x.level > 1 => There(x.parent, x.level - 1)
  PROVE  WalkRound(x)
BY DEF WalkRound, Seeking, Replacing

LEMMA DescendRound ==
  ASSUME Typed, Round(loop), loop.at \in {"byPath"} \cup Seeking, NEW i \in Nat, loop' = Descend(i),
         There(i, loop.level),
         loop.level = Len(Chain[loop.file]) => \A s \in SourcesOf(i) : MayTakeOver(loop.file, src[s].file)
  PROVE  \E x : loop' = x /\ Round(x)
<1>0. /\ loop \in LoopType /\ loop.at \in InFileStage /\ loop.at # "insertSource" /\ loop.at \in Scanning
      /\ loop.level \in Nat /\ loop.level >= 1
  BY DEF Typed, TasksOK, LoopType, FileOK, InFileStage, Seeking, Scanning
<1>1. PICK x \in LoopType :
        /\ loop' = x /\ x.file = loop.file /\ x.lib = loop.lib /\ x.parent = i
        /\ \/ /\ loop.level < Len(Chain[loop.file])
              /\ x.at = "lookup" /\ x.level = loop.level + 1
           \/ loop.level = Len(Chain[loop.file]) /\ x.at = "source"
  BY DescendIs
<1>2. x.dirs = loop.dirs /\ x.todo = loop.todo /\ x.rows = loop.rows
  <2>1. \/ x = [loop EXCEPT !.at = "lookup", !.level = @ + 1, !.parent = i]
        \/ x = [loop EXCEPT !.at = "source", !.parent = i]
    BY <1>1 DEF Descend
  <2>2. CASE x = [loop EXCEPT !.at = "lookup", !.level = @ + 1, !.parent = i]
    BY <1>0, <2>2 DEF LoopType
  <2>3. CASE x = [loop EXCEPT !.at = "source", !.parent = i]
    BY <1>0, <2>3 DEF LoopType
  <2> QED BY <2>1, <2>2, <2>3
<1>3. loop.lib = lib /\ lib # 0 /\ loop.rows = {} /\ loop.todo \subseteq disk /\ loop.file \in disk
  BY <1>0 DEF Round, WalkRound
<1>4. CASE loop.level < Len(Chain[loop.file])
  <2>1. x.at = "lookup" /\ x.level = loop.level + 1
    BY <1>1, <1>4
  <2>2. x.level - 1 = loop.level
    BY <1>0, <2>1
  <2>3. WalkRound(x)
    BY <1>1, <1>2, <1>3, <2>1, <2>2, LookupIsRound
  <2>4. x.at \in InFileStage
    BY <2>1 DEF InFileStage, Seeking
  <2> QED BY <1>0, <1>1, <1>2, <2>3, <2>4, SameFileRound
<1>5. CASE loop.level = Len(Chain[loop.file])
  <2>1. x.at = "source"
    BY <1>1, <1>5
  <2>2. WalkRound(x)
    BY <1>1, <1>2, <1>3, <1>5, <2>1, SourceIsRound
  <2>3. x.at \in InFileStage
    BY <2>1 DEF InFileStage
  <2> QED BY <1>0, <1>1, <1>2, <2>2, <2>3, SameFileRound
<1> QED BY <1>1, <1>4, <1>5

(* What the walk finds below an item that is there is there. *)
LEMMA FoundThere ==
  ASSUME Typed, NearTables, Round(loop), loop.at = "lookup", NEW i \in Items, Matches(i, Step(loop.file))
  PROVE  There(i, loop.level)
<1>1. /\ loop.file \in File /\ loop.level \in 1 .. Len(Chain[loop.file]) /\ Len(Chain[loop.file]) \in {1, 3}
      /\ loop.at \in Seeking /\ loop.at \in Scanning
  BY ChainIs DEF Typed, FileOK, Seeking, Scanning
<1>2. loop.lib = lib
  BY <1>1 DEF Round, WalkRound
<1>3. /\ item[i].type = Chain[loop.file][loop.level].type
      /\ IF Chain[loop.file][loop.level].type \in {"movie", "series"}
         THEN item[i].lib = loop.lib ELSE item[i].parent = loop.parent
  BY DEF Matches, Step
<1>4. loop.level > 1 => There(loop.parent, loop.level - 1)
  BY <1>1 DEF Round, WalkRound
<1>5. CASE loop.level = 1
  <2>1. item[i].lib = lib
    BY <1>1, <1>2, <1>3, <1>5, ChainIs
  <2> QED BY <1>5, <2>1 DEF There
<1>6. CASE loop.level = 2
  <2>1. OfOneLib(i, loop.lib)
    <3>1. 2 < Len(Chain[loop.file])
      <4>1. Len(Chain[loop.file]) # 1
        <5>1. CASE Len(Chain[loop.file]) = 1
          BY <1>1, <1>6, <5>1
        <5> QED BY <5>1
      <4>2. Len(Chain[loop.file]) = 3
        BY <1>1, <4>1
      <4> QED BY <4>2
    <3> QED BY <1>6, <3>1, MatchNear
  <2>2. There(loop.parent, 1)
    BY <1>4, <1>6
  <2>3. item[i].parent = loop.parent
    <3>1. Chain[loop.file][2].type = "season"
      BY <1>1, <1>6, ChainIs
    <3> QED BY <1>3, <1>6, <3>1
  <2>4. item[i].parent \in Items
    BY <2>2, <2>3 DEF There
  <2>5. item[i].lib = lib
    BY <1>2, <2>1, <2>4 DEF OfOneLib
  <2> QED BY <1>6, <2>4, <2>5 DEF There
<1>7. CASE loop.level = 3
  <2>1. item[i].parent = loop.parent /\ item[i].type = "episode"
    <3>1. Chain[loop.file][3].type = "episode"
      BY <1>1, <1>7, ChainIs
    <3> QED BY <1>3, <1>7, <3>1
  <2>2. There(loop.parent, 2)
    BY <1>4, <1>7
  <2>3. item[i].parent \in Items /\ item[item[i].parent].parent \in Items /\ item[item[i].parent].lib = lib
    BY <2>1, <2>2 DEF There
  <2>4. OfOneLib(item[i].parent, item[i].lib)
    BY <2>1 DEF NearTables, RowsNear
  <2>5. item[i].lib = lib
    BY <2>3, <2>4 DEF OfOneLib
  <2> QED BY <1>7, <2>3, <2>5 DEF There
<1>8. loop.level \in {1, 2, 3}
  <2>1. CASE Len(Chain[loop.file]) = 1
    BY <1>1, <2>1
  <2>2. CASE Len(Chain[loop.file]) = 3
    BY <1>1, <2>2
  <2> QED BY <1>1, <2>1, <2>2
<1> QED BY <1>5, <1>6, <1>7, <1>8

LEMMA SeekRound ==
  ASSUME Typed, OneInv, NearTables, Round(loop), Now, Now', FindByPath \/ Lookup \/ ReadBack
  PROVE  Round(loop)'
<1>0. /\ loop \in LoopType /\ UNCHANGED <<item, src, lib, disk, lastItem>>
      /\ loop.at \in {"byPath"} \cup Seeking /\ loop.at \in InFileStage /\ loop.at # "insertSource"
      /\ loop.at \in Scanning
  BY DEF FindByPath, Lookup, ReadBack, LoopOnly, tables, Typed, TasksOK, InFileStage, Seeking, Scanning
<1>1. loop.lib = lib /\ lib # 0 /\ loop.rows = {} /\ loop.todo \subseteq disk /\ loop.file \in disk
  BY <1>0 DEF Round, WalkRound
<1>2. ASSUME NEW x, loop' = x, Round(x) PROVE Round(loop)'
  BY <1>0, <1>2, LoopRound
<1>3. ASSUME NEW at \in {"lookup", "insert"}, loop' = [loop EXCEPT !.at = at],
             loop.level > 1 => There(loop.parent, loop.level - 1)
      PROVE  Round(loop)'
  <2>1. PICK x : x = loop'
    OBVIOUS
  <2>2. /\ x.at = at /\ x.level = loop.level /\ x.parent = loop.parent /\ x.file = loop.file /\ x.lib = loop.lib
        /\ x.rows = loop.rows /\ x.todo = loop.todo /\ x.dirs = loop.dirs
    BY <1>0, <1>3, <2>1 DEF LoopType
  <2>3. WalkRound(x)
    BY <1>1, <1>3, <2>2, LookupIsRound
  <2>4. x.at \in InFileStage
    BY <2>2 DEF InFileStage, Seeking
  <2>5. Round(x)
    BY <1>0, <2>2, <2>3, <2>4, SameFileRound
  <2> QED BY <1>2, <2>1, <2>5
<1>4. CASE FindByPath
  <2> DEFINE found == {i \in Items : HoldsPath(i)}
  <2>1. loop.at = "byPath" /\ loop.level = 1
    BY <1>4 DEF FindByPath, Typed, FileOK
  <2>2. CASE loop' = [loop EXCEPT !.at = "lookup"]
    BY <1>3, <2>1, <2>2
  <2>3. CASE found # {} /\ loop' = Descend(Min(found))
    <3>1. PICK i \in Nat : i \in found /\ loop' = Descend(i)
      BY <2>3, FoundIs
    <3>2. There(i, loop.level)
      BY <1>1, <2>1, <3>1 DEF HoldsPath, There
    <3>3. ASSUME NEW s \in SourcesOf(i) PROVE MayTakeOver(loop.file, src[s].file)
      <4>1. PICK t \in SourcesOf(i) : src[t].file = loop.file
        BY <3>1 DEF HoldsPath
      <4>2. s = t
        BY <4>1 DEF OneInv, SourcesOf
      <4> QED BY <4>1, <4>2 DEF MayTakeOver
    <3>4. \E x : loop' = x /\ Round(x)
      BY <1>0, <3>1, <3>2, <3>3, DescendRound
    <3> QED BY <1>2, <3>4
  <2> QED BY <1>4, <2>2, <2>3 DEF FindByPath
<1>5. CASE Lookup
  <2>1. loop.at = "lookup" /\ (loop.level > 1 => There(loop.parent, loop.level - 1))
    BY <1>5 DEF Lookup, Round, WalkRound, Seeking
  <2>2. CASE loop' = [loop EXCEPT !.at = "insert"]
    BY <1>3, <2>1, <2>2
  <2>3. ASSUME NEW i \in Items, Matches(i, Step(loop.file)), loop' = Descend(i) PROVE Round(loop)'
    <3>1. There(i, loop.level)
      BY <2>1, <2>3, FoundThere
    <3>2. loop.level = Len(Chain[loop.file]) => \A s \in SourcesOf(i) : MayTakeOver(loop.file, src[s].file)
      BY <2>1, <2>3, <3>1, FoundTakesOver
    <3>3. i \in Nat
      BY RowIs
    <3>4. \E x : loop' = x /\ Round(x)
      BY <1>0, <2>3, <3>1, <3>2, <3>3, DescendRound
    <3> QED BY <1>2, <3>4
  <2> QED BY <1>5, <2>2, <2>3 DEF Lookup
<1>6. CASE ReadBack
  <2>1. loop.at = "readBack" /\ There(loop.item, loop.level) /\ SourcesOf(loop.item) = {}
    BY <1>6 DEF ReadBack, Round, WalkRound, NearTables, WalkNear
  <2>2. loop' = Descend(Max(Items)) /\ Max(Items) = loop.item
    <3>1. hist \in HistType /\ Items # {}
      BY <2>1 DEF Typed, TasksOK, There
    <3> QED BY <1>6, <3>1 DEF ReadBack, HistType, Now
  <2>3. loop.item \in Nat
    BY <1>0 DEF LoopType
  <2>4. \E x : loop' = x /\ Round(x)
    BY <1>0, <2>1, <2>2, <2>3, DescendRound
  <2> QED BY <1>2, <2>4
<1> QED BY <1>4, <1>5, <1>6

LEMMA RivalIs ==
  ASSUME NEW f, NEW g \in disk, MayTakeOver(g, f) PROVE g \in Rivals(f)
BY DEF Rivals

LEMMA OwnRival ==
  ASSUME NEW f \in disk PROVE f \in Rivals(f)
BY DEF Rivals, MayTakeOver

LEMMA WalkStepsRound ==
  ASSUME Typed, NearTables, Round(loop), Now, Now',
         \/ \E d \in loop.dirs : ListDir(d)
         \/ \E f \in loop.todo : PickFile(f)
         \/ FindSource \/ DropSubs \/ Attach
  PROVE  Round(loop)'
<1>0. /\ loop \in LoopType /\ UNCHANGED <<item, src, lib, disk, lastItem>> /\ disk \subseteq File
      /\ loop.at \in Scanning
  BY DEF ListDir, PickFile, FindSource, DropSubs, Attach, LoopOnly, tables, Typed, TasksOK, CountersOK, Scanning
<1>1. loop.lib = lib /\ lib # 0 /\ loop.rows = {} /\ loop.todo \subseteq disk
      /\ (loop.at \in InFileStage => loop.file \in disk)
  BY <1>0 DEF Round, WalkRound
<1>2. ASSUME NEW x, loop' = x, Round(x) PROVE Round(loop)'
  BY <1>0, <1>2, LoopRound
<1>3. ASSUME NEW x, x.at = "walk", x.lib = loop.lib, x.rows = loop.rows, x.todo \subseteq disk PROVE WalkRound(x)
  BY <1>1, <1>3 DEF WalkRound, InFileStage, Seeking, Replacing
<1>4. ASSUME NEW d \in loop.dirs, ListDir(d) PROVE Round(loop)'
  <2>1. PICK x : x = loop'
    OBVIOUS
  <2>2. /\ loop.at = "walk" /\ loop.todo = {}
        /\ x.at = "walk" /\ x.dirs = loop.dirs \ {d} /\ x.lib = loop.lib /\ x.rows = loop.rows
        /\ x.todo = {f \in disk : Dir[f] = d /\ Twin[f] \cap disk = {}}
    BY <1>0, <1>4, <2>1 DEF ListDir, LoopType
  <2>3. WalkRound(x)
    BY <1>3, <2>2
  <2>4. ASSUME NEW f \in disk, Wanted(f), Walked(x, f) PROVE Claimed(x, f)
    <3>1. Dir[f] \notin loop.dirs
      BY <2>2, <2>4 DEF Walked, Wanted, Scanning
    <3>2. Walked(loop, f)
      BY <2>2, <3>1 DEF Walked, InFileStage, Seeking, Replacing
    <3>3. Claimed(loop, f)
      BY <2>4, <3>2 DEF Round
    <3> QED BY <2>2, <3>3 DEF Claimed
  <2> QED BY <1>0, <1>2, <2>1, <2>2, <2>3, <2>4, WalkIsRound
<1>5. ASSUME NEW f \in loop.todo, PickFile(f) PROVE Round(loop)'
  <2>1. f \in disk /\ loop.at = "walk"
    BY <1>1, <1>5 DEF PickFile
  <2>2. loop' = [loop EXCEPT !.todo = @ \ {f}, !.file = f, !.level = 1, !.parent = 0,
                   !.at = IF Chain[f][1].type = "movie" THEN "byPath" ELSE "lookup"]
    BY <1>5, <2>1 DEF PickFile
  <2>3. PICK x : x = loop'
    OBVIOUS
  <2>4. /\ x.at \in {"byPath", "lookup"} /\ x.todo = loop.todo \ {f} /\ x.file = f /\ x.level = 1
        /\ x.lib = loop.lib /\ x.rows = loop.rows /\ x.dirs = loop.dirs
    BY <1>0, <2>2, <2>3 DEF LoopType
  <2>5. WalkRound(x)
    BY <1>1, <2>1, <2>4, LookupIsRound
  <2>6. x.at \in InFileStage /\ x.at \in Scanning
    BY <2>4 DEF InFileStage, Seeking, Scanning
  <2>7. ASSUME NEW g \in disk, Wanted(g), Walked(x, g) PROVE Claimed(x, g)
    <3>1. Walked(loop, g)
      BY <2>1, <2>4, <2>6, <2>7 DEF Walked, InFileStage, Seeking, Replacing
    <3>2. Claimed(loop, g)
      BY <2>7, <3>1 DEF Round
    <3> QED BY <2>1, <3>2 DEF Claimed
  <2> QED BY <1>2, <2>3, <2>5, <2>6, <2>7, WalkIsRound
<1>6. CASE FindSource
  <2> DEFINE found == {s \in SourcesOf(loop.parent) : src[s].file = loop.file}
  <2>1. PICK x : x = loop'
    OBVIOUS
  <2>2. /\ loop.at = "source" /\ loop.at \in InFileStage /\ loop.at # "insertSource"
        /\ There(loop.parent, Len(Chain[loop.file]))
        /\ \A s \in SourcesOf(loop.parent) : MayTakeOver(loop.file, src[s].file)
    BY <1>6 DEF FindSource, Round, WalkRound, InFileStage
  <2>3. CASE found = {} /\ loop' = [loop EXCEPT !.at = "dropSubs"]
    <3>1. /\ x.at = "dropSubs" /\ x.parent = loop.parent /\ x.file = loop.file /\ x.lib = loop.lib
          /\ x.rows = loop.rows /\ x.dirs = loop.dirs /\ x.todo = loop.todo
      BY <1>0, <2>1, <2>3 DEF LoopType
    <3>2. WalkRound(x)
      BY <1>1, <2>2, <2>3, <3>1 DEF WalkRound, Seeking, Replacing
    <3>3. x.at \in InFileStage
      BY <3>1 DEF InFileStage, Replacing
    <3>4. Round(x)
      BY <2>2, <3>1, <3>2, <3>3, SameFileRound
    <3> QED BY <1>2, <2>1, <3>4
  <2>4. CASE found # {} /\ loop' = [loop EXCEPT !.at = "attach", !.row = <<Min(found), loop.file>>]
    <3>1. Min(found) \in found
      BY <2>4, FoundIs DEF SourcesOf
    <3>2. /\ x.at = "attach" /\ x.lib = loop.lib /\ x.rows = loop.rows /\ x.dirs = loop.dirs /\ x.todo = loop.todo
      BY <1>0, <2>1, <2>4 DEF LoopType
    <3>3. WalkRound(x)
      BY <1>1, <3>2 DEF WalkRound, Seeking, Replacing, InFileStage
    <3>4. ASSUME NEW f \in disk, Wanted(f), Walked(x, f) PROVE Claimed(x, f)
      <4>1. CASE f = loop.file
        <5>1. PICK s \in Sources : src[s].item = loop.parent /\ src[s].file = loop.file
          BY <3>1 DEF SourcesOf
        <5>2. Sits(s) /\ src[s].file \in Rivals(f)
          BY <2>2, <4>1, <5>1, OwnRival DEF Sits
        <5> QED BY <5>2 DEF Claimed
      <4>2. CASE f # loop.file
        <5>1. Walked(loop, f)
          BY <3>2, <3>4, <4>2 DEF Walked, Scanning
        <5>2. Claimed(loop, f)
          BY <3>4, <5>1 DEF Round
        <5> QED BY <2>2, <5>2 DEF Claimed
      <4> QED BY <4>1, <4>2
    <3>5. Round(x)
      BY <3>2, <3>3, <3>4, WalkIsRound DEF Scanning
    <3> QED BY <1>2, <2>1, <3>5
  <2> QED BY <1>6, <2>3, <2>4 DEF FindSource
<1>7. CASE DropSubs
  <2>1. PICK x : x = loop'
    OBVIOUS
  <2>2. /\ loop.at = "dropSubs" /\ loop.at \in InFileStage /\ loop.at # "insertSource"
        /\ x.at = "dropSources" /\ x.parent = loop.parent /\ x.file = loop.file /\ x.lib = loop.lib
        /\ x.rows = loop.rows /\ x.dirs = loop.dirs /\ x.todo = loop.todo
    BY <1>0, <1>7, <2>1 DEF DropSubs, LoopType, InFileStage, Replacing
  <2>3. WalkRound(x)
    BY <1>1, <2>2 DEF Round, WalkRound, Seeking, Replacing
  <2>4. x.at \in InFileStage
    BY <2>2 DEF InFileStage, Replacing
  <2>5. Round(x)
    BY <2>2, <2>3, <2>4, SameFileRound
  <2> QED BY <1>2, <2>1, <2>5
<1>8. CASE Attach
  <2>1. PICK x : x = loop'
    OBVIOUS
  <2>2. /\ loop.at = "attach" /\ x.at = "walk" /\ x.lib = loop.lib
        /\ x.rows = loop.rows /\ x.dirs = loop.dirs /\ x.todo = loop.todo
    BY <1>0, <1>8, <2>1 DEF Attach, LoopType
  <2>3. WalkRound(x)
    BY <1>1, <1>3, <2>2
  <2>4. ASSUME NEW f \in disk, Wanted(f), Walked(x, f) PROVE Claimed(x, f)
    <3>1. Walked(loop, f)
      BY <2>2, <2>4 DEF Walked, Scanning, InFileStage, Seeking, Replacing
    <3>2. Claimed(loop, f)
      BY <2>4, <3>1 DEF Round
    <3> QED BY <2>2, <3>2 DEF Claimed
  <2>5. Round(x)
    BY <2>2, <2>3, <2>4, WalkIsRound DEF Scanning
  <2> QED BY <1>2, <2>1, <2>5
<1> QED BY <1>4, <1>5, <1>6, <1>7, <1>8

(* The sources of the item give way: their files' claims pass to the file that
   takes over. *)
LEMMA DropSourcesRound ==
  ASSUME Typed, NearTables, Round(loop), DropSources PROVE Round(loop)'
<1>0. /\ loop \in LoopType /\ UNCHANGED <<item, lib, disk, lastItem>> /\ loop.at = "dropSources"
      /\ loop.at \in InFileStage /\ loop.at \in Scanning /\ loop.file \in File /\ disk \subseteq File
  BY DEF DropSources, LoopOnly, Typed, TasksOK, FileOK, CountersOK, InFileStage, Replacing, Scanning
<1>1. Sources' = Sources \ SourcesOf(loop.parent) /\ \A s \in Sources' : src'[s] = src[s]
  BY SourcesRemoved DEF DropSources
<1>2. PICK x : x = loop'
  OBVIOUS
<1>3. /\ x.at = "insertSource" /\ x.parent = loop.parent /\ x.file = loop.file /\ x.lib = loop.lib
      /\ x.rows = loop.rows /\ x.dirs = loop.dirs /\ x.todo = loop.todo
  BY <1>0, <1>2 DEF DropSources, LoopType
<1>4. /\ loop.lib = lib /\ lib # 0 /\ loop.rows = {} /\ loop.todo \subseteq disk /\ loop.file \in disk
      /\ There(loop.parent, Len(Chain[loop.file]))
      /\ \A s \in SourcesOf(loop.parent) : MayTakeOver(loop.file, src[s].file)
  BY <1>0 DEF Round, WalkRound, Replacing
<1>5. WalkRound(x)'
  <2>1. There(loop.parent, Len(Chain[loop.file])) => There(x.parent, Len(Chain[x.file]))'
    BY <1>0, <1>3 DEF There, Items
  <2>2. \A s \in SourcesOf(x.parent)' : FALSE
    BY <1>1, <1>3 DEF SourcesOf
  <2> QED BY <1>0, <1>3, <1>4, <2>1, <2>2 DEF WalkRound, Seeking, Replacing, Scanning
<1>6. ASSUME NEW s \in Sources, Sits(s), s \in Sources' PROVE Sits(s)'
  BY <1>0, <1>1, <1>6 DEF Sits, There, Items
<1>7. ASSUME NEW f \in disk, Wanted(f), Walked(x, f) PROVE Claimed(x, f)'
  <2>1. Walked(loop, f)
    BY <1>0, <1>3, <1>7, InFileIsScanning DEF Walked, Scanning, InFileStage, Replacing
  <2>2. PICK s \in Sources : src[s].file \in Rivals(f) /\ Sits(s)
    BY <1>0, <1>7, <2>1 DEF Round, Claimed
  <2>3. CASE s \in Sources'
    <3>1. src'[s].file \in Rivals(f)' /\ Sits(s)'
      BY <1>0, <1>1, <1>6, <2>2, <2>3 DEF Rivals
    <3> QED BY <2>3, <3>1 DEF Claimed
  <2>4. CASE s \notin Sources'
    <3>1. MayTakeOver(loop.file, src[s].file) /\ MayTakeOver(src[s].file, f) /\ src[s].file \in File
      BY <1>1, <1>4, <2>2, <2>4, RowIs DEF Rivals, SourceRow
    <3>2. loop.file \in Rivals(f)
      BY <1>0, <1>4, <3>1, TakeOverChains, RivalIs
    <3> QED BY <1>0, <1>3, <3>2 DEF Claimed, Rivals
  <2> QED BY <2>3, <2>4
<1>8. \A f : (Wanted(f)' <=> Wanted(f)) /\ (Walked(x, f)' <=> Walked(x, f))
  BY <1>0 DEF Wanted, Walked, Rivals
<1>9. Round(x)'
  <2>1. x.at \in Scanning
    BY <1>3 DEF Scanning
  <2>2. WalkRound(x)' /\ \A f \in disk' : Wanted(f)' /\ Walked(x, f)' => Claimed(x, f)'
    BY <1>0, <1>5, <1>7, <1>8
  <2>3. DetectRound(x)' /\ Missing(x)'
    <3>1. x.rows = {} /\ x.at \notin Finding /\ x.at \notin Removing /\ x.at # "delItem"
      BY <1>3, <1>4 DEF Finding, Removing
    <3> QED BY <2>1, <3>1 DEF DetectRound, Missing
  <2> QED BY <2>2, <2>3 DEF Round
<1> QED BY <1>2, <1>9

LEMMA InsertSourceRound ==
  ASSUME Typed, NearTables, Round(loop), InsertSource PROVE Round(loop)'
<1>0. /\ loop \in LoopType /\ loop.at = "insertSource" /\ UNCHANGED <<item, lib, disk, lastItem>>
      /\ loop.file \in File /\ loop.at \in InFileStage /\ loop.at \in Scanning
  BY DEF InsertSource, LoopOnly, Typed, TasksOK, FileOK, Replacing, InFileStage, Scanning
<1> DEFINE row == [item |-> loop.parent, file |-> loop.file,
                   status |-> IF Probed(loop.file) THEN "pending" ELSE "ok"]
<1>1. row \in SourceRow /\ row.item = loop.parent /\ row.file = loop.file
  BY <1>0 DEF LoopType, SourceRow
<1>2. src' = With(src, lastSrc + 1, row) /\ lastSrc' = lastSrc + 1
      /\ loop' = [loop EXCEPT !.at = "attach", !.row = <<lastSrc + 1, loop.file>>]
  BY DEF InsertSource
<1> HIDE DEF row
<1>3. /\ Sources' = Sources \cup {lastSrc + 1} /\ lastSrc + 1 \notin Sources
      /\ src'[lastSrc + 1] = row /\ \A s \in Sources : src'[s] = src[s]
  BY <1>1, <1>2, SourceAdded
<1>4. PICK x : x = loop'
  OBVIOUS
<1>5. /\ x.at = "attach" /\ x.lib = loop.lib /\ x.rows = loop.rows /\ x.dirs = loop.dirs /\ x.todo = loop.todo
  BY <1>0, <1>2, <1>4 DEF LoopType
<1>6. /\ loop.lib = lib /\ lib # 0 /\ loop.rows = {} /\ loop.todo \subseteq disk /\ loop.file \in disk
      /\ There(loop.parent, Len(Chain[loop.file]))
  BY <1>0 DEF Round, WalkRound, Replacing
<1>7. WalkRound(x)'
  BY <1>0, <1>5, <1>6 DEF WalkRound, Seeking, Replacing, InFileStage
<1>8. PICK new \in Sources' : src'[new].file = loop.file /\ src'[new].item = loop.parent
  BY <1>1, <1>3
<1>9. Sits(new)'
  BY <1>0, <1>6, <1>8 DEF Sits, There, Items
<1>10. ASSUME NEW f \in disk, Wanted(f), Walked(x, f) PROVE Claimed(x, f)'
  <2>1. CASE loop.file \in Rivals(f)
    <3>1. src'[new].file \in Rivals(f)'
      BY <1>0, <1>8, <2>1 DEF Rivals
    <3> QED BY <1>9, <3>1 DEF Claimed
  <2>2. CASE loop.file \notin Rivals(f)
    <3>1. f # loop.file
      BY <1>6, <2>2, OwnRival
    <3>2. Walked(loop, f)
      BY <1>5, <1>10, <3>1 DEF Walked, Scanning
    <3>3. PICK s \in Sources : src[s].file \in Rivals(f) /\ Sits(s)
      BY <1>10, <2>2, <3>2 DEF Round, Claimed
    <3>4. s \in Sources' /\ src'[s].file \in Rivals(f)' /\ Sits(s)'
      BY <1>0, <1>3, <3>3 DEF Rivals, Sits, There, Items
    <3> QED BY <3>4 DEF Claimed
  <2> QED BY <2>1, <2>2
<1>11. \A f : (Wanted(f)' <=> Wanted(f)) /\ (Walked(x, f)' <=> Walked(x, f))
  BY <1>0 DEF Wanted, Walked, Rivals
<1>12. Round(x)'
  <2>1. x.at \in Scanning
    BY <1>5 DEF Scanning
  <2>2. WalkRound(x)' /\ \A f \in disk' : Wanted(f)' /\ Walked(x, f)' => Claimed(x, f)'
    BY <1>0, <1>7, <1>10, <1>11
  <2>3. DetectRound(x)' /\ Missing(x)'
    <3>1. x.rows = {} /\ x.at \notin Finding /\ x.at \notin Removing /\ x.at # "delItem"
      BY <1>5, <1>6 DEF Finding, Removing
    <3> QED BY <2>1, <3>1 DEF DetectRound, Missing
  <2> QED BY <2>2, <2>3 DEF Round
<1> QED BY <1>4, <1>12

(* A claim stays while the source and the line it stands on stay. *)
Steady(s) == Sits(s) /\ src[s].file \in disk /\ Kind[src[s].file] # "fileUrl"

LEMMA ClaimKept ==
  ASSUME Typed, NearTables, Moves, NoNewSources, UNCHANGED <<lib, disk>>,
         \A s \in Sources : Steady(s) => s \in Sources' /\ LineOf(s) \subseteq Items',
         NEW f \in disk, Wanted(f), Claimed(loop, f),
         NEW x, loop.at = "insertSource" => x.at = "insertSource" /\ x.file = loop.file
  PROVE  Claimed(x, f)'
<1>1. CASE loop.at = "insertSource" /\ loop.file \in Rivals(f)
  BY <1>1 DEF Claimed, Rivals
<1>2. ASSUME NEW s \in Sources, src[s].file \in Rivals(f), Sits(s) PROVE Claimed(x, f)'
  <2>1. Steady(s)
    BY <1>2 DEF Steady, Wanted, Rivals
  <2>2. s \in Sources' /\ Sits(s)'
    BY <1>2, <2>1, SitsKept
  <2>3. src'[s].file \in Rivals(f)'
    BY <1>2, <2>2 DEF NoNewSources, Rivals
  <2> QED BY <2>2, <2>3 DEF Claimed
<1> QED BY <1>1, <1>2 DEF Claimed

(* The inserted item is there: it is below what was there. *)
LEMMA InsertItemRound ==
  ASSUME Typed, Typed', NearTables, Round(loop), Now, Now', InsertItem
  PROVE  Round(loop)'
<1>0. /\ loop \in LoopType /\ loop.at = "insert" /\ loop.at \in Seeking /\ UNCHANGED <<src, lib, disk>>
      /\ loop.file \in File /\ loop.level \in 1 .. Len(Chain[loop.file]) /\ Len(Chain[loop.file]) \in {1, 3}
      /\ lastItem \in Nat /\ loop.at \in Scanning /\ loop.at \in InFileStage
  BY ChainIs DEF InsertItem, LoopOnly, Typed, TasksOK, FileOK, Seeking, CountersOK, Scanning, InFileStage
<1>1. NoNewSources /\ Sources' = Sources
  BY <1>0 DEF NoNewSources, Sources
<1>2. PICK new \in Nat : new = lastItem + 1
  BY <1>0
<1>3. /\ lastItem' = new /\ item' = With(item, new, NewItem)
      /\ loop' = [loop EXCEPT !.at = "readBack", !.item = new]
  <2>1. ~Taken(NewItem)
    BY DEF InsertItem, Now, Typed, TasksOK, HistType
  <2> QED BY <1>2, <2>1 DEF InsertItem
<1>4. NewItem \in ItemRow
  <2>1. loop.parent \in Nat /\ loop.lib \in Nat
    BY <1>0 DEF LoopType
  <2>2. Step(loop.file).type \in Types /\ Step(loop.file).key \in Keys
    BY <1>0, ChainIs DEF Step
  <2> QED BY <2>1, <2>2 DEF NewItem, ItemRow
<1>5. /\ Items' = Items \cup {new} /\ new \notin Items /\ item'[new] = NewItem
      /\ \A i \in Items : item'[i] = item[i]
  BY <1>2, <1>3, <1>4, ItemAdded
<1>6. Moves
  BY <1>0, <1>2, <1>3, <1>5 DEF Moves
<1>7. loop.lib = lib /\ lib # 0 /\ loop.rows = {} /\ loop.todo \subseteq disk /\ loop.file \in disk
      /\ (loop.level > 1 => There(loop.parent, loop.level - 1))
  BY <1>0 DEF Round, WalkRound
<1>8. loop.level \in {1, 2, 3}
  <2>1. CASE Len(Chain[loop.file]) = 1
    BY <1>0, <2>1
  <2>2. CASE Len(Chain[loop.file]) = 3
    BY <1>0, <2>2
  <2> QED BY <1>0, <2>1, <2>2
<1>9. PICK level \in {1, 2, 3} : level = loop.level
  BY <1>8
<1>10. There(new, level)'
  <2>1. item'[new].parent = loop.parent /\ item'[new].lib = loop.lib
    BY <1>5 DEF NewItem
  <2>2. loop.level > 1 => loop.parent \in Items
    BY <1>7 DEF There
  <2>3. loop.level > 2 => item[loop.parent].parent \in Items
    <3>1. CASE loop.level = 3
      <4>1. There(loop.parent, 2)
        BY <1>7, <3>1
      <4> QED BY <4>1 DEF There
    <3> QED BY <1>8, <3>1
  <2>4. loop.level > 2 => loop.level > 1
    BY <1>8
  <2> QED BY <1>0, <1>5, <1>7, <1>9, <2>1, <2>2, <2>3, <2>4 DEF There
<1>11. PICK x : x = loop'
  OBVIOUS
<1>12. /\ x.at = "readBack" /\ x.item = new /\ x.file = loop.file /\ x.level = loop.level /\ x.lib = loop.lib
       /\ x.parent = loop.parent /\ x.rows = loop.rows /\ x.todo = loop.todo /\ x.dirs = loop.dirs
  BY <1>0, <1>3, <1>11 DEF LoopType
<1>13. WalkRound(x)'
  <2>1. x.level > 1 => There(x.parent, x.level - 1)'
    <3>1. ASSUME x.level > 1 PROVE There(x.parent, x.level - 1)'
      <4>1. PICK n \in {1, 2, 3} : n = x.level - 1
        BY <1>8, <1>12, <3>1
      <4>2. There(x.parent, n)
        BY <1>7, <1>12, <3>1, <4>1
      <4>3. Line(x.parent, n) \subseteq Items'
        BY <1>5, <4>2 DEF There, Line
      <4> QED BY <1>0, <1>6, <4>1, <4>2, <4>3, ThereKept
    <3> QED BY <3>1
  <2>2. There(x.item, x.level)'
    BY <1>10, <1>12, <1>9
  <2> QED BY <1>0, <1>7, <1>12, <2>1, <2>2 DEF WalkRound, Seeking, Replacing
<1>14. ASSUME NEW f \in disk, Wanted(f), Walked(x, f) PROVE Claimed(x, f)'
  <2>1. Walked(loop, f)
    BY <1>0, <1>12, <1>14 DEF Walked, Scanning, InFileStage, Seeking
  <2>2. Claimed(loop, f)
    BY <1>14, <2>1 DEF Round
  <2>3. \A s \in Sources : Steady(s) => s \in Sources' /\ LineOf(s) \subseteq Items'
    BY <1>1, <1>5, LineThere DEF Steady
  <2> QED BY <1>0, <1>1, <1>6, <1>14, <2>2, <2>3, ClaimKept
<1>15. \A f : (Wanted(f)' <=> Wanted(f)) /\ (Walked(x, f)' <=> Walked(x, f))
  BY <1>0 DEF Wanted, Walked, Rivals
<1>16. Round(x)'
  <2>1. x.at \in Scanning /\ x.rows = {} /\ x.at \notin Finding /\ x.at \notin Removing /\ x.at # "delItem"
    BY <1>7, <1>12 DEF Scanning, Finding, Removing
  <2>2. DetectRound(x)' /\ Missing(x)'
    BY <2>1 DEF DetectRound, Missing
  <2> QED BY <1>0, <1>13, <1>14, <1>15, <2>2 DEF Round
<1> QED BY <1>11, <1>16

(* A scan begins a round, whatever it finds. *)
LEMMA ScanStartRound ==
  ASSUME Typed, ScanStart PROVE Round(loop)'
<1>1. UNCHANGED <<item, src, disk, lastItem>> /\ disk \subseteq File
  BY DEF ScanStart, tables, Typed, CountersOK
<1>2. lib' # 0
  BY DEF ScanStart, Typed, CountersOK
<1>3. PICK x : x = loop'
  OBVIOUS
<1>4. x.at = "walk" /\ x.lib = lib' /\ x.dirs = {Dir[f] : f \in File} /\ x.todo = {} /\ x.rows = {}
  BY <1>3 DEF ScanStart, Idle
<1>5. WalkRound(x)'
  BY <1>2, <1>4 DEF WalkRound, InFileStage, Seeking, Replacing
<1>6. \A f \in disk' : ~Walked(x, f)'
  BY <1>1, <1>4 DEF Walked, Scanning
<1>7. DetectRound(x)' /\ Missing(x)'
  BY <1>4 DEF DetectRound, Missing, Scanning, Finding, Removing
<1> QED BY <1>3, <1>5, <1>6, <1>7 DEF Round

-----------------------------------------------------------------------------
(* Deletion detection.                                                     *)

(* The line of a source: above its item, a movie or an episode, there are only
   the season and the series, and nothing is above the line. *)
LEMMA LineIs ==
  ASSUME Typed, NearTables, NEW s \in Sources, Sits(s), NEW k \in LineOf(s)
  PROVE  /\ k \in Items /\ (k # src[s].item => item[k].type \notin Leaf)
         /\ item[k].parent \in LineOf(s) \cup {0}
<1>1. PICK f \in File, i \in Nat : f = src[s].file /\ i = src[s].item /\ NearEnd(i, f)
  BY SourceEnd
<1>2. Len(Chain[f]) \in {1, 3} /\ There(i, Len(Chain[f])) /\ k \in Line(i, Len(Chain[f]))
      /\ LineOf(s) = Line(i, Len(Chain[f]))
  BY <1>1, ChainIs DEF Sits, LineOf
<1>3. CASE Len(Chain[f]) = 1
  <2>1. k = i /\ i \in Items /\ item[i].type = "movie"
    BY <1>1, <1>2, <1>3, ChainIs DEF Line, There, NearEnd, Near, NearFirst
  <2>2. item[i].parent = 0
    BY <2>1 DEF NearTables, RowsNear
  <2> QED BY <1>1, <2>1, <2>2
<1>4. CASE Len(Chain[f]) = 3
  <2>1. PICK p, q : p = item[i].parent /\ q = item[p].parent
    OBVIOUS
  <2>2. i \in Items /\ p \in Items /\ q \in Items /\ Line(i, Len(Chain[f])) = {i, p, q}
    BY <1>2, <1>4, <2>1 DEF There, Line
  <2>3. NearThird(i, f)
    BY <1>1, <1>4 DEF NearEnd, Near
  <2>4. item[p].type = "season" /\ NearFirst(q, f)
    BY <2>1, <2>2, <2>3 DEF NearThird, NearSecond
  <2>5. item[q].type = "series"
    BY <1>4, <2>2, <2>4, ChainIs DEF NearFirst
  <2>6. item[q].parent = 0
    BY <2>2, <2>5 DEF NearTables, RowsNear
  <2>7. k \in {i, p, q} /\ LineOf(s) = {i, p, q}
    BY <1>2, <2>2
  <2>8. item[p].type \notin Leaf /\ item[q].type \notin Leaf
    BY <2>4, <2>5 DEF Leaf
  <2> QED BY <1>1, <2>1, <2>2, <2>6, <2>7, <2>8
<1> QED BY <1>2, <1>3, <1>4

LEMMA EndIsLeaf ==
  ASSUME NEW f \in File, NEW i \in Items, NearEnd(i, f) PROVE item[i].type \in Leaf
<1>1. Len(Chain[f]) \in {1, 3}
  BY ChainIs
<1>2. CASE Len(Chain[f]) = 1
  BY <1>2, ChainIs DEF NearEnd, Near, NearFirst, Leaf
<1>3. CASE Len(Chain[f]) = 3
  BY <1>3 DEF NearEnd, Near, NearThird, Leaf
<1> QED BY <1>1, <1>2, <1>3

(* Detection begins when the walk has been at every file. *)
LEMMA AllWalked ==
  ASSUME Typed, Detection, NEW f \in disk PROVE Walked(loop, f) /\ loop.at # "insertSource"
<1>1. loop.at \in Scanning => loop.at = "walk" /\ loop.todo = {} /\ loop.dirs = {}
  BY DEF Detection, DetectList, Stat, DetectEnd, ItemOf, DelSubs, DelSource, Count, DelItem, DetectFails,
      Scanning
<1> QED BY <1>1 DEF Walked, InFileStage, Seeking, Replacing, Scanning

(* A step of detection that leaves the tables alone. *)
LEMMA QuietRound ==
  ASSUME Typed, Round(loop), Detection, UNCHANGED <<item, src, lib, disk, lastItem>>,
         NEW x, loop' = x, x.at \notin Scanning, x.at = "idle" => x.rows = {}, x.todo \subseteq disk,
         DetectRound(x), Missing(x)
  PROVE  Round(loop)'
<1>1. WalkRound(x)
  BY DEF WalkRound, Scanning, InFileStage, Seeking, Replacing
<1>2. ASSUME NEW f \in disk, Wanted(f) PROVE Claimed(x, f)
  <2>1. Walked(loop, f) /\ loop.at # "insertSource"
    BY AllWalked
  <2>2. Claimed(loop, f)
    BY <1>2, <2>1 DEF Round
  <2> QED BY <2>1, <2>2 DEF Claimed
<1>3. Round(x)
  BY <1>1, <1>2 DEF Round
<1> QED BY <1>3, LoopRound

LEMMA FindingRound ==
  ASSUME Typed, OneInv, NearTables, Round(loop),
         \/ DetectList \/ (\E r \in loop.rows : Stat(r)) \/ DetectEnd \/ ItemOf \/ DelSubs
  PROVE  Round(loop)'
<1>0. /\ loop \in LoopType /\ UNCHANGED <<item, src, lib, disk, lastItem>> /\ lastItem \in Nat /\ Detection
      /\ 0 \notin Items
  <2>1. loop \in LoopType /\ lastItem \in Nat /\ 0 \notin Items
    BY RowIs DEF Typed, TasksOK, CountersOK
  <2> QED BY <2>1 DEF DetectList, Stat, DetectEnd, ItemOf, DelSubs, tables, LoopOnly, Detection
<1>1. loop.todo \subseteq disk /\ DetectRound(loop) /\ Missing(loop)
  BY DEF Round, WalkRound
<1>2. PICK x : x = loop'
  OBVIOUS
<1>3. CASE DetectList
  <2> DEFINE R == {<<s, src[s].file>> : s \in {r \in Sources : Kind[src[r].file] # "url"}}
  <2>1. x.at = "stat" /\ x.rows = R /\ x.todo = {}
    BY <1>2, <1>3 DEF DetectList, Idle
  <2>2. \A r \in R : Kind[r[2]] # "url" /\ (r[1] \in Sources => src[r[1]].file = r[2])
    OBVIOUS
  <2>3. \A s \in Sources : Kind[src[s].file] = "local" => <<s, src[s].file>> \in R
    OBVIOUS
  <2> HIDE DEF R
  <2>4. DetectRound(x)
    BY <2>1, <2>2 DEF DetectRound, Finding, Removing
  <2>5. Missing(x)
    BY <2>1, <2>3 DEF Missing
  <2> QED BY <1>0, <1>2, <2>1, <2>4, <2>5, QuietRound DEF Scanning
<1>4. ASSUME NEW r \in loop.rows, Stat(r) PROVE Round(loop)'
  <2>1. loop.at = "stat" /\ r[2] \in File
    BY <1>0, <1>4 DEF Stat, LoopType
  <2>2. \A q \in loop.rows : Kind[q[2]] # "url" /\ (q[1] \in Sources => src[q[1]].file = q[2])
    BY <1>1 DEF DetectRound
  <2>3. \A s \in Sources : Kind[src[s].file] = "local" /\ src[s].file \notin disk => <<s, src[s].file>> \in loop.rows
    BY <1>1, <2>1 DEF Missing, Scanning, Finding
  <2>4. CASE OnDisk(r[2])
    <3>1. x.at = "stat" /\ x.rows = loop.rows \ {r} /\ x.todo = loop.todo
      BY <1>0, <1>2, <1>4, <2>1, <2>4 DEF Stat, LoopType
    <3>2. DetectRound(x)
      BY <2>2, <3>1 DEF DetectRound, Finding, Removing
    <3>3. Missing(x)
      BY <2>3, <2>4, <3>1 DEF Missing, OnDisk
    <3> QED BY <1>0, <1>1, <1>2, <3>1, <3>2, <3>3, QuietRound DEF Scanning
  <2>5. CASE ~OnDisk(r[2])
    <3>1. x.at = "itemOf" /\ x.rows = loop.rows \ {r} /\ x.row = r /\ x.todo = loop.todo
      BY <1>0, <1>2, <1>4, <2>5 DEF Stat, LoopType
    <3>2. DetectRound(x)
      BY <2>1, <2>2, <2>5, <3>1 DEF DetectRound, Removing
    <3>3. Missing(x)
      BY <2>3, <3>1 DEF Missing, Finding
    <3> QED BY <1>0, <1>1, <1>2, <3>1, <3>2, <3>3, QuietRound DEF Scanning
  <2> QED BY <2>4, <2>5
<1>5. CASE DetectEnd
  <2>1. loop.at = "stat" /\ loop.rows = {} /\ x.at = "idle" /\ x.rows = {} /\ x.todo = {}
    BY <1>2, <1>5 DEF DetectEnd, Idle
  <2>2. DetectRound(x)
    BY <2>1 DEF DetectRound, Finding, Removing
  <2>3. Missing(x)
    BY <1>1, <2>1 DEF Missing, Scanning, Finding
  <2> QED BY <1>0, <1>2, <2>1, <2>2, <2>3, QuietRound DEF Scanning
<1>6. CASE ItemOf
  <2>1. /\ loop.at = "itemOf" /\ x.at = "delSubs" /\ x.rows = loop.rows /\ x.row = loop.row /\ x.todo = loop.todo
        /\ x.item = IF loop.row[1] \in Sources THEN src[loop.row[1]].item ELSE 0
    BY <1>0, <1>2, <1>6 DEF ItemOf, LoopType
  <2>2. x.item \in 0 .. lastItem /\ (x.item \in Items => item[x.item].type \in Leaf)
    <3>1. CASE loop.row[1] \in Sources
      <4>1. PICK f \in File, i \in Nat : i = x.item /\ NearEnd(i, f) /\ i \in 0 .. lastItem
        BY <2>1, <3>1, SourceEnd
      <4> QED BY <4>1, EndIsLeaf
    <3>2. CASE loop.row[1] \notin Sources
      BY <1>0, <2>1, <3>2
    <3> QED BY <3>1, <3>2
  <2>3. x.item # 0 => \A s \in SourcesOf(x.item) : s = x.row[1]
    BY <2>1 DEF OneInv, SourcesOf
  <2>4. DetectRound(x)
    BY <1>1, <2>1, <2>2, <2>3 DEF DetectRound, Finding
  <2>5. Missing(x)
    BY <1>1, <2>1 DEF Missing, Finding, Scanning
  <2> QED BY <1>0, <1>1, <1>2, <2>1, <2>4, <2>5, QuietRound DEF Scanning
<1>7. CASE DelSubs
  <2>1. /\ loop.at = "delSubs" /\ x.at = "delSource" /\ x.rows = loop.rows /\ x.row = loop.row
        /\ x.item = loop.item /\ x.todo = loop.todo
    BY <1>0, <1>2, <1>7 DEF DelSubs, LoopType
  <2>2. DetectRound(x)
    BY <1>1, <2>1 DEF DetectRound, Finding, Removing
  <2>3. Missing(x)
    BY <1>1, <2>1 DEF Missing, Finding, Scanning
  <2> QED BY <1>0, <1>1, <1>2, <2>1, <2>2, <2>3, QuietRound DEF Scanning
<1> QED BY <1>3, <1>4, <1>5, <1>6, <1>7

(* What counts is counted: nobody's line goes through the item. *)
LEMMA CountRound ==
  ASSUME Typed, NearTables, Round(loop), Count PROVE Round(loop)'
<1>0. /\ loop \in LoopType /\ UNCHANGED <<item, src, lib, disk, lastItem>> /\ Detection /\ loop.at = "count"
  BY DEF Count, tables, LoopOnly, Typed, TasksOK, Detection
<1>1. loop.todo \subseteq disk /\ DetectRound(loop)
      /\ \A s \in Sources : Kind[src[s].file] = "local" /\ src[s].file \notin disk => <<s, src[s].file>> \in loop.rows
  BY <1>0 DEF Round, WalkRound, Missing, Scanning, Finding
<1>2. PICK x : x = loop'
  OBVIOUS
<1>3. CASE loop.item # 0
           /\ loop' = [loop EXCEPT !.at = "delItem", !.stack = {loop.item}, !.row = NoRow, !.item = 0]
  <2>1. x.at = "delItem" /\ x.stack = {loop.item} /\ x.rows = loop.rows /\ x.todo = loop.todo
    BY <1>0, <1>2, <1>3 DEF LoopType
  <2>2. SourcesOf(loop.item) = {} /\ (loop.item \in Items => item[loop.item].type \in Leaf)
    BY <1>0, <1>1, <1>3 DEF DetectRound, Removing
  <2>3. ASSUME NEW s \in Sources, Sits(s) PROVE LineOf(s) \cap {loop.item} = {}
    BY <2>2, <2>3, LineIs DEF SourcesOf
  <2>4. DetectRound(x)
    BY <1>1, <1>3, <2>1, <2>3 DEF DetectRound, Finding, Removing
  <2>5. Missing(x)
    BY <1>1, <2>1 DEF Missing
  <2> QED BY <1>0, <1>1, <1>2, <2>1, <2>4, <2>5, QuietRound DEF Scanning
<1>4. CASE loop' = [loop EXCEPT !.at = "stat", !.row = NoRow, !.item = 0]
  <2>1. x.at = "stat" /\ x.rows = loop.rows /\ x.todo = loop.todo
    BY <1>0, <1>2, <1>4 DEF LoopType
  <2>2. DetectRound(x)
    BY <1>1, <2>1 DEF DetectRound, Finding, Removing
  <2>3. Missing(x)
    BY <1>1, <2>1 DEF Missing
  <2> QED BY <1>0, <1>1, <1>2, <2>1, <2>2, <2>3, QuietRound DEF Scanning
<1> QED BY <1>3, <1>4 DEF Count

(* A step of detection that deletes rows, none of them a file's claim. *)
LEMMA DeletingRound ==
  ASSUME Typed, NearTables, Round(loop), Detection,
         \A s \in Sources : Steady(s) => s \in Sources' /\ LineOf(s) \subseteq Items',
         NEW x, loop' = x, x.at \notin Scanning \cup {"idle"}, x.todo = loop.todo,
         DetectRound(x)', Missing(x)'
  PROVE  Round(loop)'
<1>0. Moves /\ NoNewSources /\ UNCHANGED <<lib, disk>>
  BY DetectMoves
<1>1. WalkRound(x)'
  <2>1. loop.todo \subseteq disk
    BY DEF Round, WalkRound
  <2> QED BY <1>0, <2>1 DEF WalkRound, Scanning, InFileStage, Seeking, Replacing
<1>2. ASSUME NEW f \in disk, Wanted(f) PROVE Claimed(x, f)'
  <2>1. Walked(loop, f) /\ loop.at # "insertSource"
    BY AllWalked
  <2>2. Claimed(loop, f)
    BY <1>2, <2>1 DEF Round
  <2> QED BY <1>0, <1>2, <2>1, <2>2, ClaimKept
<1>3. \A f : Wanted(f)' <=> Wanted(f)
  BY <1>0 DEF Wanted, Rivals
<1>4. Round(x)'
  BY <1>0, <1>1, <1>2, <1>3 DEF Round
<1> QED BY <1>4

LEMMA DelSourceRound ==
  ASSUME Typed, NearTables, Round(loop), DelSource PROVE Round(loop)'
<1>0. /\ loop \in LoopType /\ UNCHANGED <<item, lib, disk, lastItem>> /\ Detection /\ loop.at = "delSource"
  BY DEF DelSource, LoopOnly, Typed, TasksOK, Detection
<1>1. Sources' = Sources \ {loop.row[1]} /\ \A s \in Sources' : src'[s] = src[s]
  BY SourcesRemoved DEF DelSource
<1>2. PICK x : x = loop'
  OBVIOUS
<1>3. /\ x.at = "count" /\ x.rows = loop.rows /\ x.row = loop.row /\ x.item = loop.item /\ x.todo = loop.todo
  BY <1>0, <1>2 DEF DelSource, LoopType
<1>4. DetectRound(loop) /\ Missing(loop)
  BY DEF Round
<1>5. ASSUME NEW s \in Sources, Steady(s) PROVE s \in Sources' /\ LineOf(s) \subseteq Items'
  <2>1. s # loop.row[1]
    <3>1. CASE s = loop.row[1]
      <4>1. src[s].file = loop.row[2] /\ loop.row[2] \in File /\ Kind[loop.row[2]] # "url" /\ ~OnDisk(loop.row[2])
        BY <1>0, <1>4, <3>1 DEF DetectRound, Finding
      <4>2. Kind[loop.row[2]] \in {"local", "url", "fileUrl"}
        BY <4>1, MediaAssumption
      <4> QED BY <1>5, <4>1, <4>2 DEF Steady, OnDisk
    <3> QED BY <3>1
  <2>2. LineOf(s) \subseteq Items
    BY <1>5, LineThere DEF Steady
  <2> QED BY <1>0, <1>1, <2>1, <2>2 DEF Items
<1>6. DetectRound(x)'
  <2>1. \A r \in x.rows : Kind[r[2]] # "url" /\ (r[1] \in Sources' => src'[r[1]].file = r[2])
    BY <1>1, <1>3, <1>4 DEF DetectRound
  <2>2. x.item \in 0 .. lastItem' /\ (x.item \in Items' => item'[x.item].type \in Leaf)
    BY <1>0, <1>3, <1>4 DEF DetectRound, Removing, Items
  <2>3. x.item # 0 => \A s \in SourcesOf(x.item)' : FALSE
    BY <1>0, <1>1, <1>3, <1>4 DEF DetectRound, Removing, SourcesOf
  <2> QED BY <1>3, <2>1, <2>2, <2>3 DEF DetectRound, Finding
<1>7. Missing(x)'
  BY <1>0, <1>1, <1>3, <1>4 DEF Missing, Finding, Scanning
<1> QED BY <1>0, <1>2, <1>3, <1>5, <1>6, <1>7, DeletingRound DEF Scanning

LEMMA DelItemRound ==
  ASSUME Typed, NearTables, Round(loop), NEW i \in loop.stack, DelItem(i) PROVE Round(loop)'
<1>0. /\ loop \in LoopType /\ UNCHANGED <<src, lib, disk, lastItem>> /\ Detection /\ loop.at = "delItem"
  BY DEF DelItem, LoopOnly, Typed, TasksOK, Detection
<1>1. Moves /\ NoNewSources /\ Items \ {i} \subseteq Items'
  <2>1. item' = item \/ item' = Without(item, {i})
    BY DEF DelItem
  <2>2. Items \ {i} \subseteq Items'
    BY <2>1, ItemsRemoved DEF Items
  <2> QED BY <1>0, <2>2, DetectMoves
<1>2. PICK x : x = loop'
  OBVIOUS
<1>3. /\ x.at \in {"stat", "delItem"} /\ x.rows = loop.rows /\ x.todo = loop.todo
      /\ x.stack = (loop.stack \ {i}) \cup {c \in Items : item[c].parent = i}
  <2> DEFINE rest == (loop.stack \ {i}) \cup {c \in Items : item[c].parent = i}
  <2>1. loop' = IF rest = {} THEN [loop EXCEPT !.at = "stat", !.stack = {}] ELSE [loop EXCEPT !.stack = rest]
    BY DEF DelItem
  <2> HIDE DEF rest
  <2>2. x.at \in {"stat", "delItem"} /\ x.rows = loop.rows /\ x.todo = loop.todo /\ x.stack = rest
    BY <1>0, <1>2, <2>1 DEF LoopType
  <2> QED BY <2>2 DEF rest
<1>4. /\ DetectRound(loop) /\ 0 \notin loop.stack /\ \A s \in Sources : Sits(s) => LineOf(s) \cap loop.stack = {}
      /\ \A s \in Sources : Kind[src[s].file] = "local" /\ src[s].file \notin disk => <<s, src[s].file>> \in loop.rows
  BY <1>0 DEF Round, DetectRound, Missing, Scanning, Finding
<1>5. ASSUME NEW s \in Sources, Steady(s) PROVE s \in Sources' /\ LineOf(s) \subseteq Items'
  <2>1. LineOf(s) \subseteq Items /\ i \notin LineOf(s)
    BY <1>4, <1>5, LineThere DEF Steady
  <2> QED BY <1>0, <1>1, <2>1 DEF Sources
<1>6. DetectRound(x)'
  <2>1. \A r \in x.rows : Kind[r[2]] # "url" /\ (r[1] \in Sources' => src'[r[1]].file = r[2])
    BY <1>0, <1>3, <1>4 DEF DetectRound, Sources
  <2>2. 0 \notin x.stack
    BY <1>3, <1>4, RowIs
  <2>3. ASSUME NEW s \in Sources', Sits(s)' PROVE LineOf(s)' \cap x.stack = {}
    <3>1. s \in Sources /\ Sits(s) /\ LineOf(s)' = LineOf(s)
      BY <1>0, <1>1, <2>3, SitsBack
    <3>2. LineOf(s) \cap loop.stack = {}
      BY <1>4, <3>1
    <3>3. ASSUME NEW c \in LineOf(s), item[c].parent = i PROVE FALSE
      BY <1>4, <3>1, <3>2, <3>3, LineIs
    <3> QED BY <1>3, <3>1, <3>2, <3>3
  <2> QED BY <1>3, <2>1, <2>2, <2>3 DEF DetectRound, Finding, Removing
<1>7. Missing(x)'
  BY <1>0, <1>3, <1>4 DEF Missing, Sources
<1> QED BY <1>0, <1>2, <1>3, <1>5, <1>6, <1>7, DeletingRound DEF Scanning

(* The probe loop, the scrape stage and the requests take nothing away. *)
LEMMA BesideRound ==
  ASSUME Typed, Typed', NearTables, Round(loop), UNCHANGED <<lib, disk>>,
         ProbeLoop \/ ScrapeLoop \/ (Environment /\ ~Restart /\ ~DeleteLibrary)
  PROVE  Round(loop)'
<1>1. Moves /\ NoNewSources /\ loop' = loop
  BY BesideMoves DEF NearTables
<1>2. Items \subseteq Items' /\ Sources' = Sources
  <2>1. CASE UNCHANGED item
    <3>1. Sources' = Sources
      <4>1. CASE src' = src
        BY <4>1 DEF Sources
      <4>2. ASSUME NEW s \in probe.flight, ProbeDone(s) PROVE Sources' = Sources
        BY <4>2, ProbeKeeps
      <4> QED BY <4>1, <4>2, ScrapeIs, VirtMoveIs DEF ProbeLoop, ProbeList, ProbeChunk, VirtInsert, NotVirt,
            Retitles, Retitle, Environment, Request, MakeLibrary, DiskChanges, tables
    <3> QED BY <2>1, <3>1 DEF Items
  <2>2. CASE VirtInsert
    BY <2>2 DEF VirtInsert, NotVirt, With, Items, Sources
  <2>3. ASSUME NEW i \in Items, NEW t \in Titles, Retitle(i, t) PROVE Items \subseteq Items' /\ Sources' = Sources
    BY <2>3 DEF Retitle, Items, Sources
  <2> QED BY <2>1, <2>2, <2>3, ScrapeIs, VirtMoveIs DEF ProbeLoop, ProbeList, ProbeChunk, ProbeDone, NotProbe,
        Retitles, Environment, Request, MakeLibrary, DiskChanges, tables
<1>3. PICK x \in LoopType : x = loop /\ InFileTyped(x)
  BY LoopFile DEF Typed, TasksOK
<1>4. WalkRound(x) /\ DetectRound(x) /\ Missing(x)
  BY <1>3 DEF Round
<1>5. ASSUME NEW i, NEW n \in {1, 2, 3}, There(i, n) PROVE There(i, n)'
  <2>1. Line(i, n) \subseteq Items'
    BY <1>2, <1>5 DEF There, Line
  <2> QED BY <1>1, <1>5, <2>1, ThereKept
<1>6. ASSUME NEW i PROVE SourcesOf(i)' = SourcesOf(i)
  BY <1>1, <1>2 DEF NoNewSources, SourcesOf
<1>7. WalkRound(x)'
  <2>1. ASSUME x.at \in InFileStage PROVE x.file \in File /\ Len(Chain[x.file]) \in {1, 2, 3}
    BY <1>3, <2>1, ChainIs DEF InFileTyped
  <2>2. ASSUME x.at \in Seeking PROVE x.level \in {1, 2, 3}
    <3>1. x.level \in 1 .. Len(Chain[x.file]) /\ Len(Chain[x.file]) \in {1, 2, 3}
      BY <1>3, <2>1, <2>2 DEF Typed, FileOK, InFileStage
    <3>2. PICK n \in {1, 2, 3} : x.level \in 1 .. n
      BY <3>1
    <3> QED BY <3>2
  <2>3. x.at \in Seeking /\ x.level > 1 => There(x.parent, x.level - 1)'
    <3>1. ASSUME x.at \in Seeking, x.level > 1 PROVE There(x.parent, x.level - 1)'
      <4>1. PICK n \in {1, 2, 3} : n = x.level - 1
        BY <2>2, <3>1
      <4>2. There(x.parent, n)
        BY <1>4, <3>1, <4>1 DEF WalkRound
      <4> QED BY <1>5, <4>1, <4>2
    <3> QED BY <3>1
  <2>4. x.at = "readBack" => There(x.item, x.level)'
    BY <1>4, <1>5, <2>2 DEF WalkRound, Seeking
  <2>5. x.at \in {"source"} \cup Replacing => There(x.parent, Len(Chain[x.file]))'
    BY <1>4, <1>5, <2>1 DEF WalkRound, InFileStage
  <2>6. \A s \in SourcesOf(x.parent) : src'[s].file = src[s].file
    BY <1>1, <1>2 DEF NoNewSources, SourcesOf
  <2>7. SourcesOf(x.parent)' = SourcesOf(x.parent)
    BY <1>6
  <2> QED BY <1>4, <2>3, <2>4, <2>5, <2>6, <2>7 DEF WalkRound
<1>8. DetectRound(x)'
  <2>1. \A r \in x.rows : Kind[r[2]] # "url" /\ (r[1] \in Sources' => src'[r[1]].file = r[2])
    BY <1>1, <1>4 DEF DetectRound, NoNewSources
  <2>2. x.at \in Finding =>
          /\ x.row[2] \in File /\ Kind[x.row[2]] # "url" /\ ~OnDisk(x.row[2])'
          /\ x.row[1] \in Sources' => src'[x.row[1]].file = x.row[2]
    BY <1>1, <1>4 DEF DetectRound, NoNewSources, OnDisk
  <2>3. x.at \in Removing => x.item \in 0 .. lastItem' /\ (x.item \in Items' => item'[x.item].type \in Leaf)
    <3>1. ASSUME x.at \in Removing
          PROVE  x.item \in 0 .. lastItem' /\ (x.item \in Items' => item'[x.item].type \in Leaf)
      <4>1. x.item \in 0 .. lastItem /\ (x.item \in Items => item[x.item].type \in Leaf)
        BY <1>4, <3>1 DEF DetectRound
      <4>2. lastItem \in Nat
        BY DEF Typed, CountersOK
      <4> QED BY <1>1, <4>1, <4>2 DEF Moves
    <3> QED BY <3>1
  <2>4. x.at \in Removing /\ x.item # 0 => \A s \in SourcesOf(x.item)' : x.at # "count" /\ s = x.row[1]
    BY <1>4, <1>6 DEF DetectRound
  <2>5. x.at = "delItem" => 0 \notin x.stack /\ \A s \in Sources' : Sits(s)' => LineOf(s)' \cap x.stack = {}
    BY <1>1, <1>4, SitsBack DEF DetectRound
  <2> QED BY <2>1, <2>2, <2>3, <2>4, <2>5 DEF DetectRound
<1>9. Missing(x)'
  BY <1>1, <1>2, <1>4 DEF Missing, NoNewSources
<1>10. ASSUME NEW f \in disk, Wanted(f), Walked(x, f) PROVE Claimed(x, f)'
  <2>1. Claimed(loop, f)
    BY <1>3, <1>10 DEF Round
  <2>2. \A s \in Sources : Steady(s) => s \in Sources' /\ LineOf(s) \subseteq Items'
    BY <1>2, LineThere DEF Steady
  <2> QED BY <1>1, <1>3, <1>10, <2>1, <2>2, ClaimKept
<1>11. \A f : (Wanted(f)' <=> Wanted(f)) /\ (Walked(x, f)' <=> Walked(x, f))
  BY DEF Wanted, Walked, Rivals
<1>12. Round(x)'
  BY <1>7, <1>8, <1>9, <1>10, <1>11 DEF Round
<1> QED BY <1>1, <1>3, <1>12

LEMMA RoundInit == Init => RoundInv
BY DEF Init, RoundInv

LEMMA RoundStep ==
  Typed /\ OneInv /\ NearInv /\ RoundInv /\ [Next]_vars => RoundInv'
<1>1. ASSUME Typed, OneInv, NearInv, RoundInv, Next, Now' PROVE Round(loop)'
  <2>1. CASE ScanStart
    BY <1>1, <2>1, ScanStartRound
  <2>2. CASE ~ScanStart
    <3>1. /\ Now /\ UNCHANGED <<disk, lib>>
          /\ ~FileFails /\ ~DetectFails /\ ~DeleteLibrary /\ ~Restart /\ ~Claim
      BY <1>1, <2>2, NowStep
    <3>2. Round(loop) /\ NearTables /\ Typed'
      BY <1>1, <3>1, TypedStep DEF RoundInv, NearInv, NearTables, Now
    <3>3. CASE ScanLoop
      BY <1>1, <2>2, <3>1, <3>2, <3>3, SeekRound, WalkStepsRound, InsertItemRound, DropSourcesRound,
         InsertSourceRound DEF ScanLoop
    <3>4. CASE Detection
      BY <1>1, <3>1, <3>2, <3>4, FindingRound, CountRound, DelSourceRound, DelItemRound DEF Detection
    <3>5. CASE ProbeLoop \/ ScrapeLoop \/ Environment
      BY <1>1, <3>1, <3>2, <3>5, BesideRound
    <3> QED BY <1>1, <3>3, <3>4, <3>5 DEF Next
  <2> QED BY <2>1, <2>2
<1>2. ASSUME RoundInv, UNCHANGED vars PROVE RoundInv'
  <2> SUFFICES ASSUME Now' PROVE Round(loop)'
    BY DEF RoundInv, Now
  <2>1. Round(loop) /\ loop' = loop /\ UNCHANGED <<item, src, lib, disk, lastItem>>
    BY <1>2 DEF vars, tables, RoundInv, Now
  <2> QED BY <2>1, LoopRound
<1>3. RoundInv' <=> (Now' => Round(loop)')
  BY DEF RoundInv, Now
<1> QED BY <1>1, <1>2, <1>3

LEMMA RoundAlways == Spec => [](Typed /\ OneInv /\ NearInv /\ RoundInv)
<1>1. Init => Typed /\ OneInv /\ NearInv /\ RoundInv
  BY TypedInit, OneInit, NearInit, RoundInit
<1>2. Typed /\ OneInv /\ NearInv /\ RoundInv /\ [Next]_vars => (Typed /\ OneInv /\ NearInv /\ RoundInv)'
  BY TypedStep, OneStep, NearStep, RoundStep
<1> QED BY <1>1, <1>2, PTL DEF Spec

-----------------------------------------------------------------------------
(* After a round that nobody disturbed the tables mirror the disk, whatever
   crashes, failed statements and lost libraries left behind: each file has its
   source, or the file that took its place has, under an item of its type in the
   library, and no local source is without its file; for any files, chains,
   directories and titles. *)
THEOREM MirrorsAlways == Spec => []Mirrors
<1>1. Typed /\ NearInv /\ RoundInv => Mirrors
  <2> SUFFICES ASSUME Typed, NearInv, RoundInv, Settled, ~hist.mixed PROVE Mirrors
    BY DEF Mirrors
  <2>1. Round(loop) /\ NearTables /\ loop.at = "idle" /\ loop.rows = {}
    BY DEF Settled, RoundInv, NearInv, NearTables, Round, WalkRound
  <2>2. ASSUME NEW f \in disk, Wanted(f)
        PROVE  \E s \in Sources :
                 /\ src[s].file \in Rivals(f) /\ src[s].item \in Items
                 /\ item[src[s].item].lib = lib
                 /\ item[src[s].item].type = Chain[f][Len(Chain[f])].type
    <3>1. Claimed(loop, f) /\ f \in File
      BY <2>1, <2>2 DEF Round, Walked, Scanning, Typed, CountersOK
    <3>2. PICK s \in Sources : src[s].file \in Rivals(f) /\ Sits(s)
      BY <2>1, <3>1 DEF Claimed
    <3>3. PICK g \in File, i \in Items : /\ g = src[s].file /\ i = src[s].item /\ NearEnd(i, g) /\ MayTakeOver(g, f)
                                         /\ item[i].lib = lib
      BY <2>1, <3>2, SourceEnd DEF Sits, There, Rivals
    <3>4. item[i].type = Chain[g][Len(Chain[g])].type
      <4>1. Len(Chain[g]) \in {1, 3}
        BY ChainIs
      <4>2. CASE Len(Chain[g]) = 1
        BY <3>3, <4>2 DEF NearEnd, Near, NearFirst
      <4>3. CASE Len(Chain[g]) = 3
        BY <3>3, <4>3, ChainIs DEF NearEnd, Near, NearThird
      <4> QED BY <4>1, <4>2, <4>3
    <3>5. Chain[g][Len(Chain[g])].type = Chain[f][Len(Chain[f])].type
      BY <3>1, <3>3, ChainIs DEF MayTakeOver
    <3> QED BY <3>2, <3>3, <3>4, <3>5
  <2>3. ASSUME NEW s \in Sources, Kind[src[s].file] = "local" PROVE src[s].file \in disk
    BY <2>1, <2>3 DEF Round, Missing, Scanning, Finding
  <2> QED BY <2>2, <2>3 DEF Mirrors, Wanted
<1> QED BY <1>1, RoundAlways, PTL

(* While nobody touches the disk, the source of a local file that exists goes only
   to make room for another file that comes to the same item, or with its library:
   no interleaving of the walk, the detection and the other tasks deletes what is
   there. *)
THEOREM LiveSourceStaysAlways == Spec => LiveSourceStays
<1>1. Typed /\ OneInv /\ NearInv /\ RoundInv /\ [Next]_vars =>
        [\A s \in Sources \ DOMAIN src' :
           (hist.still /\ ~hist.mixed /\ lib' = lib /\ Kind[src[s].file] = "local"
              /\ src[s].file \in disk) =>
             loop.file \in Rivals(src[s].file) \ {src[s].file}]_vars
  <2> SUFFICES ASSUME Typed, RoundInv, Next, NEW s \in Sources \ DOMAIN src', Now, lib' = lib,
                      Kind[src[s].file] = "local", src[s].file \in disk
               PROVE  loop.file \in Rivals(src[s].file) \ {src[s].file}
    BY DEF Now
  <2>1. Round(loop)
    BY DEF RoundInv, Now
  <2>2. CASE DropSources
    <3>1. loop.at = "dropSources" /\ s \in SourcesOf(loop.parent)
      BY <2>2, SourcesRemoved DEF DropSources, Sources
    <3>2. MayTakeOver(loop.file, src[s].file) /\ src[s].file # loop.file /\ loop.file \in disk
      BY <2>1, <3>1 DEF Round, WalkRound, InFileStage, Replacing
    <3> QED BY <3>2 DEF Rivals
  <2>3. CASE DelSource
    <3>1. loop.at = "delSource" /\ s = loop.row[1]
      <4>1. src' = Without(src, {loop.row[1]}) /\ loop.at = "delSource"
        BY <2>3 DEF DelSource
      <4>2. Sources' = Sources \ {loop.row[1]}
        BY <4>1, SourcesRemoved
      <4> QED BY <4>1, <4>2 DEF Sources
    <3>2. ~OnDisk(src[s].file)
      BY <2>1, <3>1 DEF Round, DetectRound, Finding
    <3> QED BY <3>2 DEF OnDisk
  <2>4. CASE DeleteLibrary
    BY <2>4 DEF DeleteLibrary
  <2>5. DOMAIN src' = Sources \/ DropSources \/ DelSource \/ DeleteLibrary \/ InsertSource
    <3>1. CASE src' = src
      BY <3>1 DEF Sources
    <3>2. ASSUME NEW t \in probe.flight, ProbeDone(t) PROVE DOMAIN src' = Sources
      BY <3>2, ProbeKeeps DEF Sources
    <3> QED BY <3>1, <3>2, ClaimIs, ScrapeIs, VirtMoveIs DEF Next, ScanLoop, Detection, ProbeLoop, Environment,
          ScanStart, ListDir, PickFile, FindByPath, Lookup, InsertItem, ReadBack, FindSource, DropSubs, Attach,
          FileFails, DetectList, Stat, DetectEnd, ItemOf, DelSubs, Count, DelItem, DetectFails, ProbeList,
          ProbeChunk, VirtInsert, NotVirt, Retitles, Retitle, Request, MakeLibrary, DiskChanges, Restart, tables
  <2>6. CASE InsertSource
    BY <2>6 DEF InsertSource, With, Sources
  <2> QED BY <2>2, <2>3, <2>4, <2>5, <2>6
<1> QED BY <1>1, RoundAlways, PTL DEF Spec, LiveSourceStays
=============================================================================
