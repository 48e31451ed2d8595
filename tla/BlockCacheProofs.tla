-------------------------- MODULE BlockCacheProofs ---------------------------
(* Proofs about BlockCache, for every set of sources, sizes of blocks and
   caches, lengths, ranges, number of reads at a time, and bounds. *)
EXTENDS BlockCache, FiniteSetTheorems, SequenceTheorems, TLAPS

(***************************************************************************)
(* Types.                                                                  *)
(***************************************************************************)

Slot == Key \X Nat
Byte == Key \X Nat \X Nat
Locked == {"again", "take", "fetch", "write", "rename", "evict", "remove"}
Stage == Locked \cup {"idle", "look", "open", "lock", "have", "answer"}

ReadType ==
  [at : Stage, key : Key \cup {NoKey}, start : Nat, end : Nat \cup {-1}, index : Nat,
   out : Seq(Byte), data : Seq(Byte), size : Nat, found : Seq(Slot), sure : BOOLEAN]
WipeType ==
  [key : Key \cup {NoKey}, bins : SUBSET Slot, tmps : SUBSET Slot, clean : BOOLEAN]

FilesType(f) == f \in [DOMAIN f -> Seq(Byte)] /\ DOMAIN f \in SUBSET Slot

TypeOK ==
  /\ version \in [Key -> 1 .. Len(Length)]
  /\ FilesType(blocks) /\ FilesType(parts) /\ order \in Seq(Slot)
  /\ locks \in SUBSET Slot /\ wiping \in WipeType
  /\ unsure \in SUBSET Key /\ left \in Nat
  /\ read \in [Reader -> ReadType]
  /\ \A r \in Reader : read[r].at # "idle" => read[r].key \in Key

(* The smaller and the larger of two numbers. *)
LEMMA MinOfTwo ==
  ASSUME NEW a \in Int, NEW b \in Int
  PROVE  Min({a, b}) = IF a <= b THEN a ELSE b
<1> DEFINE m == IF a <= b THEN a ELSE b
<1>1. m \in {a, b} /\ \A y \in {a, b} : m <= y
  OBVIOUS
<1>2. \A x \in {a, b} : (\A y \in {a, b} : x <= y) => x = m
  OBVIOUS
<1> HIDE DEF m
<1>3. Min({a, b}) = m
  BY <1>1, <1>2 DEF Min
<1> QED BY <1>3 DEF m

LEMMA ExcessIs ==
  ASSUME NEW n \in Nat
  PROVE  Excess(n) = IF n <= MaxBlocks THEN 0 ELSE n - MaxBlocks
<1> DEFINE m == IF n <= MaxBlocks THEN 0 ELSE n - MaxBlocks
           S == {n - MaxBlocks, 0}
<1> USE BlockCacheAssumption
<1>1. m \in S /\ \A y \in S : m >= y
  OBVIOUS
<1>2. \A x \in S : (\A y \in S : x >= y) => x = m
  OBVIOUS
<1> HIDE DEF m, S
<1>3. Max(S) = m
  BY <1>1, <1>2 DEF Max
<1> QED BY <1>3 DEF m, S, Excess

(* The blocks of a source: where the chunk of an index ends, and what is in it. *)
To(k, v, i) == IF (i + 1) * BlockSize <= Length[v] THEN (i + 1) * BlockSize ELSE Length[v]

LEMMA ChunkIs ==
  ASSUME NEW k \in Key, NEW v \in 1 .. Len(Length), NEW i \in Nat
  PROVE  /\ Length[v] \in Nat /\ To(k, v, i) \in 0 .. Length[v]
         /\ Bytes(k, v) \in Seq(Byte) /\ Len(Bytes(k, v)) = Length[v]
         /\ Chunk(k, v, i) = SubSeq(Bytes(k, v), i * BlockSize + 1, To(k, v, i))
         /\ Chunk(k, v, i) \in Seq(Byte)
<1>1. Length[v] \in Nat /\ BlockSize \in Nat
  BY BlockCacheAssumption, ElementOfSeq
<1>2. i * BlockSize \in Nat /\ (i + 1) * BlockSize \in Nat
  BY <1>1
<1>3. To(k, v, i) \in 0 .. Length[v]
  BY <1>1, <1>2 DEF To
<1>4. Bytes(k, v) \in Seq(Byte) /\ Len(Bytes(k, v)) = Length[v]
  <2>1. \A n \in 1 .. Length[v] : <<k, v, n>> \in Byte
    BY <1>1 DEF Byte
  <2> QED BY <1>1, <2>1, IsASeq DEF Bytes
<1>5. Chunk(k, v, i) = SubSeq(Bytes(k, v), i * BlockSize + 1, To(k, v, i))
  BY SMTT(30), <1>1, <1>2, MinOfTwo DEF Chunk, To
<1>6. Chunk(k, v, i) \in Seq(Byte)
  <2>1. \A n \in i * BlockSize + 1 .. To(k, v, i) : Bytes(k, v)[n] \in Byte
    BY <1>1, <1>2, <1>3, <1>4, ElementOfSeq
  <2> QED BY <1>2, <1>3, <1>5, <2>1, SubSeqProperties
<1> QED BY <1>1, <1>3, <1>4, <1>5, <1>6

LEMMA TypeInit == Init => TypeOK
<1> SUFFICES ASSUME Init PROVE TypeOK
  OBVIOUS
<1>1. Idle \in ReadType /\ Idle.at = "idle"
  BY EmptySeq DEF Idle, ReadType, Stage
<1>2. NoWipe \in WipeType
  BY DEF NoWipe, WipeType
<1>3. 1 \in 1 .. Len(Length)
  BY BlockCacheAssumption, EmptySeq, LenProperties
<1>4. version \in [Key -> 1 .. Len(Length)]
  BY <1>3 DEF Init
<1>5. FilesType(blocks) /\ FilesType(parts)
  BY DEF Init, FilesType
<1>6. order \in Seq(Slot)
  BY EmptySeq DEF Init
<1> QED BY <1>1, <1>2, <1>4, <1>5, <1>6 DEF Init, TypeOK

(* A reader's record with other fields is one. *)
LEMMA Records ==
  ASSUME NEW x \in ReadType
  PROVE  /\ \A a \in Stage : [x EXCEPT !.at = a] \in ReadType
         /\ \A a \in Stage, d \in Seq(Byte) : [x EXCEPT !.at = a, !.data = d] \in ReadType
         /\ \A a \in Stage, n \in Nat : [x EXCEPT !.at = a, !.size = n] \in ReadType
         /\ \A a \in Stage, f \in Seq(Slot) : [x EXCEPT !.at = a, !.found = f] \in ReadType
         /\ \A f \in Seq(Slot) : [x EXCEPT !.found = f] \in ReadType
BY DEF ReadType

LEMMA IdleIs == Idle \in ReadType /\ Idle.at = "idle" /\ ~Idle.sure /\ Idle.out = <<>>
BY EmptySeq DEF Idle, ReadType, Stage

(* Files put, removed. *)
LEMMA FilesKeep ==
  ASSUME NEW f, FilesType(f)
  PROVE  /\ \A b \in Slot, d \in Seq(Byte) :
              /\ FilesType(Put(f, b, d)) /\ DOMAIN Put(f, b, d) = DOMAIN f \cup {b}
              /\ Put(f, b, d)[b] = d
              /\ \A c \in DOMAIN f : c # b => Put(f, b, d)[c] = f[c]
         /\ \A S : /\ FilesType(Without(f, S)) /\ DOMAIN Without(f, S) = DOMAIN f \ S
                   /\ \A c \in DOMAIN f \ S : Without(f, S)[c] = f[c]
BY DEF FilesType, Put, Without

LEMMA KeptIs ==
  ASSUME order \in Seq(Slot), NEW b \in Slot
  PROVE  Kept(b) \in Seq(Slot) /\ Touched(b) \in Seq(Slot)
<1>1. Kept(b) \in Seq(Slot)
  <2>1. CASE Places(b) = {}
    BY <2>1 DEF Kept
  <2>2. CASE Places(b) # {}
    <3>1. PICK i \in Places(b) : Kept(b) = SubSeq(order, 1, i - 1) \o SubSeq(order, i + 1, Len(order))
      BY <2>2 DEF Kept
    <3>2. i \in 1 .. Len(order) /\ Len(order) \in Nat
      BY <3>1, LenProperties DEF Places
    <3>3. \A n \in 1 .. Len(order) : order[n] \in Slot
      BY ElementOfSeq
    <3>4. SubSeq(order, 1, i - 1) \in Seq(Slot)
      BY <3>2, <3>3, SubSeqProperties
    <3>5. SubSeq(order, i + 1, Len(order)) \in Seq(Slot)
      BY <3>2, <3>3, SubSeqProperties
    <3> QED BY <3>1, <3>4, <3>5, ConcatProperties
  <2> QED BY <2>1, <2>2
<1>2. Touched(b) \in Seq(Slot)
  BY <1>1, AppendProperties DEF Touched
<1> QED BY <1>1, <1>2

(* One reader goes on with another record. *)
Moves(r, x) == /\ read' = [read EXCEPT ![r] = x] /\ x \in ReadType
               /\ x.at # "idle" => x.key \in Key

LEMMA MovesKeep ==
  ASSUME TypeOK, NEW r \in Reader, NEW x, Moves(r, x)
  PROVE  /\ read' \in [Reader -> ReadType]
         /\ \A q \in Reader : read'[q].at # "idle" => read'[q].key \in Key
BY DEF TypeOK, Moves

LEMMA BlockIs ==
  ASSUME TypeOK, NEW r \in Reader, ~At(r, "idle")
  PROVE  /\ read[r] \in ReadType /\ Block(r) \in Slot /\ read[r].key \in Key
         /\ read[r].index \in Nat /\ read[r].data \in Seq(Byte)
BY DEF TypeOK, ReadType, Block, Slot, At

(* What every step of a reader does to its record, and how the record looks then. *)
LEMMA LookMoves ==
  ASSUME TypeOK, NEW r \in Reader, Look(r)
  PROVE  \E x \in ReadType, a \in {"open", "lock"}, n \in Nat :
           x = [read[r] EXCEPT !.at = a, !.size = n] /\ Moves(r, x)
<1> DEFINE a == IF Block(r) \in DOMAIN blocks THEN "open" ELSE "lock"
           n == IF Block(r) \in DOMAIN blocks THEN Len(blocks[Block(r)]) ELSE 0
           x == [read[r] EXCEPT !.at = a, !.size = n]
<1>1. a \in {"open", "lock"} /\ a \in Stage
  BY DEF Stage
<1>2. n \in Nat
  BY LenProperties DEF TypeOK, FilesType
<1>3. read' = [read EXCEPT ![r] = x]
  BY DEF Look, TypeOK
<1>4. read[r] \in ReadType /\ read[r].key \in Key
  BY BlockIs DEF Look, At
<1> HIDE DEF a, n
<1>5. x \in ReadType /\ x.key = read[r].key
  BY <1>1, <1>2, <1>4, Records DEF ReadType
<1> QED BY <1>1, <1>2, <1>3, <1>4, <1>5 DEF Moves

LEMMA GotoMoves ==
  ASSUME TypeOK, NEW r \in Reader, ~At(r, "idle"), NEW a \in Stage \ {"idle"}, Goto(r, a)
  PROVE  \E x \in ReadType : x = [read[r] EXCEPT !.at = a] /\ Moves(r, x)
<1> DEFINE x == [read[r] EXCEPT !.at = a]
<1>1. read[r] \in ReadType /\ read[r].key \in Key
  BY BlockIs
<1>2. x \in ReadType /\ x.key = read[r].key
  BY <1>1 DEF ReadType
<1>3. read' = [read EXCEPT ![r] = x]
  BY DEF Goto
<1> HIDE DEF x
<1> QED BY <1>1, <1>2, <1>3 DEF Moves, x

LEMMA DataMoves ==
  ASSUME TypeOK, NEW r \in Reader, ~At(r, "idle"), NEW a \in Stage \ {"idle"}, NEW d \in Seq(Byte),
         read' = [read EXCEPT ![r] = [read[r] EXCEPT !.at = a, !.data = d]]
  PROVE  \E x \in ReadType : x = [read[r] EXCEPT !.at = a, !.data = d] /\ Moves(r, x)
<1> DEFINE x == [read[r] EXCEPT !.at = a, !.data = d]
<1>1. read[r] \in ReadType /\ read[r].key \in Key
  BY BlockIs
<1>2. x \in ReadType /\ x.key = read[r].key
  BY <1>1 DEF ReadType
<1> HIDE DEF x
<1> QED BY <1>1, <1>2 DEF Moves, x

LEMMA IdleMoves ==
  ASSUME NEW r \in Reader, read' = [read EXCEPT ![r] = Idle]
  PROVE  Moves(r, Idle)
BY IdleIs DEF Moves

LEMMA ReadRangeMoves ==
  ASSUME TypeOK, NEW r \in Reader, NEW k \in Key, NEW e \in Ranges, ReadRange(r, k, e[1], e[2])
  PROVE  \E x \in ReadType :
           /\ x.at = "look" /\ x.key = k /\ x.start = e[1] /\ x.end = e[2]
           /\ x.index = e[1] \div BlockSize /\ x.out = <<>> /\ x.sure = (k \notin unsure)
           /\ Moves(r, x)
<1> DEFINE x == [Idle EXCEPT !.at = "look", !.key = k, !.start = e[1], !.end = e[2],
                             !.index = e[1] \div BlockSize, !.sure = k \notin unsure]
<1>1. read' = [read EXCEPT ![r] = x]
  BY DEF ReadRange
<1>2. e[1] \in Nat /\ e[2] \in Nat \cup {-1} /\ e[1] \div BlockSize \in Nat
  BY SMTT(30), BlockCacheAssumption
<1>3. /\ x.at = "look" /\ x.key = k /\ x.start = e[1] /\ x.end = e[2]
      /\ x.index = e[1] \div BlockSize /\ x.out = <<>>
  BY IdleIs DEF ReadType
<1>4. x.sure = (k \notin unsure)
  BY IdleIs DEF ReadType
<1>5. x \in ReadType
  BY <1>2, IdleIs DEF ReadType, Stage
<1> HIDE DEF x
<1> QED BY <1>1, <1>3, <1>4, <1>5 DEF Moves

(* The part of the block that is asked for is appended. *)
JoinedOut(e, off) == e.out \o SubSeq(e.data, off + 1, Len(e.data))
JoinedFull(e, out) == e.data # <<>> /\ e.end # -1 /\ Len(out) + e.start >= e.end
JoinedDone(e, out) == JoinedFull(e, out) \/ Len(e.data) < BlockSize

LEMMA JoinMoves ==
  ASSUME TypeOK, NEW r \in Reader, Join(r)
  PROVE  \E x \in ReadType :
           LET e == read[r]
               out == JoinedOut(e, Offset(r))
           IN /\ x.at = IF JoinedDone(e, out) THEN "answer" ELSE "look"
              /\ x.index = IF JoinedDone(e, out) THEN e.index ELSE e.index + 1
              /\ x.out = IF JoinedFull(e, out) THEN SubSeq(out, 1, e.end - e.start) ELSE out
              /\ x.key = e.key /\ x.start = e.start /\ x.end = e.end /\ x.sure = e.sure
              /\ Moves(r, x)
<1> DEFINE e == read[r]
           out == JoinedOut(e, Offset(r))
           a == IF JoinedDone(e, out) THEN "answer" ELSE "look"
           i == IF JoinedDone(e, out) THEN e.index ELSE e.index + 1
           o == IF JoinedFull(e, out) THEN SubSeq(out, 1, e.end - e.start) ELSE out
           x == [e EXCEPT !.at = a, !.index = i, !.out = o, !.data = <<>>, !.size = 0]
<1>1. e \in ReadType /\ e.key \in Key /\ e.index \in Nat /\ e.data \in Seq(Byte) /\ e.out \in Seq(Byte)
      /\ e.start \in Nat /\ e.end \in Nat \cup {-1}
  BY BlockIs DEF Join, At, ReadType
<1>2. Offset(r) \in Nat
  BY <1>1, BlockCacheAssumption DEF Offset
<1>3. out \in Seq(Byte)
  <2>1. Len(e.data) \in Nat /\ \A n \in Offset(r) + 1 .. Len(e.data) : e.data[n] \in Byte
    BY <1>1, <1>2, LenProperties, ElementOfSeq
  <2>2. SubSeq(e.data, Offset(r) + 1, Len(e.data)) \in Seq(Byte)
    BY <1>2, <2>1, SubSeqProperties
  <2> QED BY <1>1, <2>2, ConcatProperties DEF JoinedOut
<1>4. o \in Seq(Byte)
  <2>1. ASSUME JoinedFull(e, out) PROVE SubSeq(out, 1, e.end - e.start) \in Seq(Byte)
    <3>1. e.end - e.start \in Int /\ e.end - e.start <= Len(out) /\ Len(out) \in Nat
      BY <1>1, <1>3, <2>1, LenProperties DEF JoinedFull
    <3>2. \A n \in 1 .. e.end - e.start : out[n] \in Byte
      BY <1>3, <3>1, ElementOfSeq
    <3> QED BY <3>1, <3>2, SubSeqProperties
  <2> QED BY <1>3, <2>1
<1>5. i \in Nat /\ a \in {"answer", "look"} /\ a \in Stage
  BY <1>1 DEF Stage
<1>6. <<>> \in Seq(Byte)
  BY EmptySeq
<1>7. read' = [read EXCEPT ![r] = x]
  BY DEF Join, JoinedOut, JoinedFull, JoinedDone
<1> HIDE DEF a, i, o, out
<1>8. /\ x.at = a /\ x.index = i /\ x.out = o /\ x.key = e.key /\ x.start = e.start
      /\ x.end = e.end /\ x.sure = e.sure
  BY <1>1 DEF ReadType
<1>9. x \in ReadType
  BY <1>1, <1>4, <1>5, <1>6 DEF ReadType
<1> HIDE DEF x
<1>10. Moves(r, x)
  BY <1>1, <1>7, <1>8, <1>9 DEF Moves
<1> QED BY <1>8, <1>9, <1>10 DEF a, i, o, out

LEMMA ListMoves ==
  ASSUME TypeOK, NEW r \in Reader, List(r)
  PROVE  LET n == Excess(Len(order))
         IN /\ n \in 0 .. Len(order) /\ Len(order) - n <= MaxBlocks /\ Len(order) \in Nat
            /\ SubSeq(order, 1, n) \in Seq(Slot) /\ Len(SubSeq(order, 1, n)) = n
            /\ \A i \in 1 .. n : SubSeq(order, 1, n)[i] = order[i]
            /\ \E x \in ReadType : /\ x = [read[r] EXCEPT !.at = "remove", !.found = SubSeq(order, 1, n)]
                                   /\ x.at = "remove" /\ x.found = SubSeq(order, 1, n)
                                   /\ Moves(r, x)
<1> DEFINE n == Excess(Len(order))
           f == SubSeq(order, 1, n)
           x == [read[r] EXCEPT !.at = "remove", !.found = f]
<1>1. order \in Seq(Slot) /\ Len(order) \in Nat
  BY LenProperties DEF TypeOK
<1>2. n \in 0 .. Len(order) /\ Len(order) - n <= MaxBlocks
  BY <1>1, ExcessIs, BlockCacheAssumption
<1>3. \A i \in 1 .. n : order[i] \in Slot
  BY <1>1, <1>2, ElementOfSeq
<1> HIDE DEF n
<1>4. f \in Seq(Slot) /\ Len(f) = n /\ \A i \in 1 .. n : f[i] = order[i]
  BY <1>1, <1>2, <1>3, SubSeqProperties
<1>5. read[r] \in ReadType /\ read[r].key \in Key
  BY BlockIs DEF List, At
<1>6. read' = [read EXCEPT ![r] = x]
  BY DEF List, n
<1> HIDE DEF f
<1>7. x \in ReadType /\ x.at = "remove" /\ x.found = f /\ x.key = read[r].key
  BY <1>4, <1>5 DEF ReadType, Stage, Locked
<1> HIDE DEF x
<1>8. Moves(r, x)
  BY <1>5, <1>6, <1>7 DEF Moves
<1> QED BY <1>1, <1>2, <1>4, <1>7, <1>8 DEF f, n, x

LEMMA RemoveMoves ==
  ASSUME TypeOK, NEW r \in Reader, RemoveOldest(r) \/ RemoveFails(r), read[r].found # <<>>
  PROVE  /\ Head(read[r].found) \in Slot
         /\ \E x \in ReadType : /\ x = [read[r] EXCEPT !.found = Tail(read[r].found)]
                                /\ Moves(r, x)
<1> DEFINE f == Tail(read[r].found)
           x == [read[r] EXCEPT !.found = f]
<1>1. read[r] \in ReadType /\ read[r].key \in Key
  BY BlockIs DEF RemoveOldest, RemoveFails, At
<1>2. read[r].found \in Seq(Slot)
  BY <1>1 DEF ReadType
<1>3. Head(read[r].found) \in Slot /\ f \in Seq(Slot)
  BY <1>2, HeadTailProperties
<1>4. read' = [read EXCEPT ![r] = x]
  BY DEF RemoveOldest, RemoveFails
<1> HIDE DEF f
<1>5. x \in ReadType /\ x.key = read[r].key
  BY <1>1, <1>3 DEF ReadType
<1> HIDE DEF x
<1> QED BY <1>1, <1>3, <1>4, <1>5 DEF Moves, x, f

(* A step of one reader, typed. *)
LEMMA TypeMoves ==
  ASSUME TypeOK, UNCHANGED <<version, wiping, unsure>>, NEW r \in Reader, NEW x, Moves(r, x),
         FilesType(blocks)', FilesType(parts)', order' \in Seq(Slot), locks' \in SUBSET Slot, left' \in Nat
  PROVE  TypeOK'
BY MovesKeep DEF TypeOK

LEMMA TypeReader ==
  ASSUME TypeOK, NEW r \in Reader,
         \/ \E k \in Key, e \in Ranges : ReadRange(r, k, e[1], e[2])
         \/ Look(r) \/ Open(r) \/ Lock(r) \/ Again(r) \/ Take(r)
         \/ Fetch(r) \/ FetchFails(r) \/ Write(r) \/ WriteFails(r) \/ Rename(r)
         \/ List(r) \/ ListFails(r) \/ RemoveOldest(r) \/ RemoveFails(r) \/ Join(r) \/ Leave(r)
  PROVE  TypeOK'
<1> DEFINE Same == UNCHANGED <<version, wiping, unsure, left>>
           Disk == UNCHANGED files
<1>1. /\ FilesType(blocks) /\ FilesType(parts) /\ order \in Seq(Slot)
      /\ locks \in SUBSET Slot /\ left \in Nat
  BY DEF TypeOK
<1>2. ASSUME Same, Disk, locks' \in SUBSET Slot, NEW x, Moves(r, x)
      PROVE  TypeOK'
  <2>1. FilesType(blocks)' /\ FilesType(parts)' /\ order' \in Seq(Slot)
    BY <1>1, <1>2 DEF FilesType, files
  <2> QED BY <1>1, <1>2, <2>1, TypeMoves
<1>3. ASSUME NEW k \in Key, NEW e \in Ranges, ReadRange(r, k, e[1], e[2]) PROVE TypeOK'
  BY <1>1, <1>2, <1>3, ReadRangeMoves DEF ReadRange
<1>4. ASSUME Look(r) PROVE TypeOK'
  BY <1>1, <1>2, <1>4, LookMoves DEF Look
<1>5. ASSUME Open(r) PROVE TypeOK'
  <2>1. ~At(r, "idle") /\ Same /\ UNCHANGED <<blocks, parts, locks>>
    BY <1>5 DEF Open, At
  <2>2. Block(r) \in Slot
    BY <2>1, BlockIs
  <2>3. order' \in Seq(Slot)
    BY <1>1, <1>5, <2>2, KeptIs DEF Open
  <2>4. \E x : Moves(r, x)
    <3>1. CASE read' = [read EXCEPT ![r] = Idle]
      BY <3>1, IdleMoves
    <3>2. CASE /\ Block(r) \in DOMAIN blocks
               /\ read' = [read EXCEPT ![r].at = "have", ![r].data = blocks[Block(r)]]
      <4>1. blocks[Block(r)] \in Seq(Byte) /\ "have" \in Stage \ {"idle"}
        BY <1>1, <3>2 DEF FilesType, Stage
      <4>2. read' = [read EXCEPT ![r] = [read[r] EXCEPT !.at = "have", !.data = blocks[Block(r)]]]
        BY <3>2
      <4> QED BY <2>1, <4>1, <4>2, DataMoves
    <3>3. CASE Goto(r, "lock")
      BY <2>1, <3>3, GotoMoves DEF Stage
    <3> QED BY <1>5, <3>1, <3>2, <3>3 DEF Open
  <2>5. FilesType(blocks)' /\ FilesType(parts)'
    BY <1>1, <2>1 DEF FilesType
  <2> QED BY <1>1, <2>1, <2>3, <2>4, <2>5, TypeMoves
<1>6. ASSUME Lock(r) PROVE TypeOK'
  <2>1. ~At(r, "idle") /\ Same /\ Disk /\ locks' = locks \cup {Block(r)} /\ Goto(r, "again")
    BY <1>6 DEF Lock, At
  <2>2. \E x : Moves(r, x)
    BY <2>1, GotoMoves DEF Stage, Locked
  <2> QED BY <1>1, <1>2, <2>1, <2>2, BlockIs
<1>7. ASSUME Again(r) PROVE TypeOK'
  <2>1. /\ ~At(r, "idle") /\ Same /\ Disk /\ locks' = locks
        /\ Goto(r, "take") \/ Goto(r, "fetch")
    BY <1>7 DEF Again, At
  <2>2. \E x : Moves(r, x)
    BY <2>1, GotoMoves DEF Stage, Locked
  <2> QED BY <1>1, <1>2, <2>1, <2>2
<1>8. ASSUME Take(r) PROVE TypeOK'
  <2>1. /\ ~At(r, "idle") /\ Same /\ Disk /\ locks' \in SUBSET Slot
    BY <1>1, <1>8 DEF Take, At
  <2>2. \E x : Moves(r, x)
    <3>1. CASE Block(r) \in DOMAIN blocks
      <4>1. blocks[Block(r)] \in Seq(Byte) /\ "have" \in Stage \ {"idle"}
        BY <1>1, <3>1 DEF FilesType, Stage
      <4>2. read' = [read EXCEPT ![r] = [read[r] EXCEPT !.at = "have", !.data = blocks[Block(r)]]]
        BY <1>8, <3>1 DEF Take
      <4> QED BY <2>1, <4>1, <4>2, DataMoves
    <3>2. CASE Block(r) \notin DOMAIN blocks
      BY <1>8, <3>2, IdleMoves DEF Take
    <3> QED BY <3>1, <3>2
  <2> QED BY <1>2, <2>1, <2>2
<1>9. ASSUME Fetch(r) PROVE TypeOK'
  <2> DEFINE d == Chunk(read[r].key, version[read[r].key], read[r].index)
             a == IF d = <<>> THEN "have" ELSE "write"
  <2>1. ~At(r, "idle") /\ Same /\ Disk /\ locks' \in SUBSET Slot
    BY <1>1, <1>9 DEF Fetch, At
  <2>2. read[r].key \in Key /\ read[r].index \in Nat /\ version[read[r].key] \in 1 .. Len(Length)
    BY <2>1, BlockIs DEF TypeOK
  <2>3. d \in Seq(Byte)
    BY <2>2, ChunkIs
  <2>4. read' = [read EXCEPT ![r] = [read[r] EXCEPT !.at = a, !.data = d]]
    BY <1>9 DEF Fetch
  <2>5. a \in Stage \ {"idle"}
    BY DEF Stage, Locked
  <2> HIDE DEF d, a
  <2>6. \E x : Moves(r, x)
    BY <2>1, <2>3, <2>4, <2>5, DataMoves
  <2> QED BY <1>2, <2>1, <2>6
<1>10. ASSUME FetchFails(r) \/ Leave(r) PROVE TypeOK'
  BY <1>1, <1>2, <1>10, IdleMoves DEF FetchFails, Leave
<1>11. ASSUME Write(r) PROVE TypeOK'
  <2>1. /\ ~At(r, "idle") /\ Same /\ UNCHANGED <<blocks, order, locks>>
        /\ parts' = Put(parts, Block(r), read[r].data) /\ Goto(r, "rename")
    BY <1>11 DEF Write, At
  <2>2. FilesType(parts') /\ FilesType(blocks)'
    BY <1>1, <2>1, BlockIs, FilesKeep DEF FilesType
  <2>3. \E x : Moves(r, x)
    BY <2>1, GotoMoves DEF Stage, Locked
  <2> QED BY <1>1, <2>1, <2>2, <2>3, TypeMoves DEF FilesType
<1>12. ASSUME WriteFails(r) PROVE TypeOK'
  <2>1. /\ ~At(r, "idle") /\ Same /\ Disk /\ locks' \in SUBSET Slot /\ Goto(r, "have")
    BY <1>1, <1>12 DEF WriteFails, At
  <2>2. \E x : Moves(r, x)
    BY <2>1, GotoMoves DEF Stage
  <2> QED BY <1>2, <2>1, <2>2
<1>13. ASSUME Rename(r) PROVE TypeOK'
  <2>1. /\ ~At(r, "idle") /\ Same /\ locks' = locks /\ Block(r) \in DOMAIN parts
        /\ blocks' = Put(blocks, Block(r), parts[Block(r)]) /\ order' = Touched(Block(r))
        /\ parts' = Without(parts, {Block(r)}) /\ Goto(r, "evict")
    BY <1>13 DEF Rename, At
  <2>2. Block(r) \in Slot /\ parts[Block(r)] \in Seq(Byte)
    BY <1>1, <2>1, BlockIs DEF FilesType
  <2>3. FilesType(blocks') /\ FilesType(parts') /\ order' \in Seq(Slot)
    BY <1>1, <2>1, <2>2, FilesKeep, KeptIs
  <2>4. \E x : Moves(r, x)
    BY <2>1, GotoMoves DEF Stage, Locked
  <2> QED BY <1>1, <2>1, <2>3, <2>4, TypeMoves DEF FilesType
<1>14. ASSUME List(r) PROVE TypeOK'
  <2>1. \E x : Moves(r, x)
    BY <1>14, ListMoves
  <2> QED BY <1>1, <1>2, <1>14, <2>1 DEF List
<1>15. ASSUME RemoveOldest(r) PROVE TypeOK'
  <2>1. CASE read[r].found = <<>>
    <3>1. ~At(r, "idle") /\ Goto(r, "have") /\ UNCHANGED <<version, wiping, unsure, files>>
          /\ left' \in Nat /\ locks' \in SUBSET Slot
      BY <1>1, <1>15, <2>1 DEF RemoveOldest, Spares, At
    <3>2. \E x : Moves(r, x)
      BY <3>1, GotoMoves DEF Stage
    <3>3. FilesType(blocks)' /\ FilesType(parts)' /\ order' \in Seq(Slot)
      BY <1>1, <3>1 DEF FilesType, files
    <3> QED BY <3>1, <3>2, <3>3, TypeMoves
  <2>2. CASE read[r].found # <<>>
    <3> DEFINE b == Head(read[r].found)
    <3>1. /\ Same /\ UNCHANGED <<parts, locks>>
          /\ blocks' = Without(blocks, {b}) /\ order' = Kept(b)
      BY <1>15, <2>2 DEF RemoveOldest
    <3>2. b \in Slot /\ \E x : Moves(r, x)
      BY <1>15, <2>2, RemoveMoves
    <3>3. FilesType(blocks') /\ FilesType(parts)' /\ order' \in Seq(Slot)
      BY <1>1, <3>1, <3>2, FilesKeep, KeptIs DEF FilesType
    <3> QED BY <1>1, <3>1, <3>2, <3>3, TypeMoves DEF FilesType
  <2> QED BY <2>1, <2>2
<1>16. ASSUME Join(r) PROVE TypeOK'
  <2>1. \E x : Moves(r, x)
    BY <1>16, JoinMoves
  <2> QED BY <1>1, <1>2, <1>16, <2>1 DEF Join
<1>17. ASSUME ListFails(r) PROVE TypeOK'
  <2>1. ~At(r, "idle") /\ Goto(r, "have") /\ UNCHANGED <<version, wiping, unsure, files>>
        /\ left' \in Nat /\ locks' \in SUBSET Slot
    BY <1>1, <1>17 DEF ListFails, Spares, At
  <2>2. \E x : Moves(r, x)
    BY <2>1, GotoMoves DEF Stage
  <2>3. FilesType(blocks)' /\ FilesType(parts)' /\ order' \in Seq(Slot)
    BY <1>1, <2>1 DEF FilesType, files
  <2> QED BY <2>1, <2>2, <2>3, TypeMoves
<1>18. ASSUME RemoveFails(r) PROVE TypeOK'
  <2>1. \E x : Moves(r, x)
    BY <1>18, RemoveMoves DEF RemoveFails
  <2> QED BY <1>1, <1>2, <1>18, <2>1 DEF RemoveFails
<1> QED BY <1>3, <1>4, <1>5, <1>6, <1>7, <1>8, <1>9, <1>10, <1>11, <1>12, <1>13, <1>14, <1>15, <1>16,
           <1>17, <1>18

LEMMA TypeOutside ==
  ASSUME TypeOK,
         \/ \E k \in Key : Change(k) \/ Invalidate(k)
         \/ (\E b \in wiping.bins : WipeBlock(b)) \/ (\E b \in wiping.tmps : WipePart(b))
         \/ WipeFails \/ EndInvalidate \/ Crash
  PROVE  TypeOK'
<1>1. /\ FilesType(blocks) /\ FilesType(parts) /\ order \in Seq(Slot)
      /\ locks \in SUBSET Slot /\ left \in Nat /\ read \in [Reader -> ReadType]
      /\ wiping \in WipeType /\ unsure \in SUBSET Key /\ version \in [Key -> 1 .. Len(Length)]
      /\ \A r \in Reader : read[r].at # "idle" => read[r].key \in Key
  BY DEF TypeOK
<1>2. NoWipe \in WipeType
  BY DEF NoWipe, WipeType
<1>3. ASSUME UNCHANGED files PROVE FilesType(blocks)' /\ FilesType(parts)' /\ order' \in Seq(Slot)
  BY <1>1, <1>3 DEF FilesType, files
<1>4. ASSUME NEW k \in Key, Change(k) PROVE TypeOK'
  <2>1. version' \in [Key -> 1 .. Len(Length)]
    BY SMTT(30), <1>1, <1>4, BlockCacheAssumption, LenProperties DEF Change
  <2>2. /\ read' \in [Reader -> ReadType]
        /\ \A r \in Reader : read'[r].at # "idle" => read'[r].key \in Key
    <3>1. \A x \in ReadType : /\ [x EXCEPT !.sure = FALSE] \in ReadType
                              /\ [x EXCEPT !.sure = FALSE].at = x.at
                              /\ [x EXCEPT !.sure = FALSE].key = x.key
      BY DEF ReadType
    <3>2. \A r \in Reader : read'[r] = IF read[r].key = k THEN [read[r] EXCEPT !.sure = FALSE] ELSE read[r]
      BY <1>4 DEF Change
    <3>3. \A r \in Reader : read'[r] \in ReadType /\ read'[r].at = read[r].at /\ read'[r].key = read[r].key
      BY <1>1, <3>1, <3>2
    <3>4. read' \in [Reader -> ReadType]
      BY <1>4, <3>3 DEF Change
    <3> QED BY <1>1, <3>3, <3>4
  <2>3. wiping' \in WipeType
    BY <1>1, <1>4 DEF Change, WipeType
  <2> QED BY <1>1, <1>3, <1>4, <2>1, <2>2, <2>3 DEF Change, TypeOK
<1>5. ASSUME NEW k \in Key, Invalidate(k) PROVE TypeOK'
  <2>1. /\ UNCHANGED <<version, files, locks, read, unsure, left>>
        /\ wiping' = [key |-> k, bins |-> {b \in DOMAIN blocks : b[1] = k},
                      tmps |-> {b \in DOMAIN parts : b[1] = k}, clean |-> \A r \in Reader : read[r].key # k]
    BY <1>5 DEF Invalidate
  <2>2. (\A r \in Reader : read[r].key # k) \in BOOLEAN
    OBVIOUS
  <2>3. wiping' \in WipeType
    BY <1>1, <2>1, <2>2 DEF WipeType, FilesType
  <2> QED BY <1>1, <1>3, <2>1, <2>3 DEF TypeOK
<1>6. ASSUME NEW b \in wiping.bins, WipeBlock(b) PROVE TypeOK'
  <2>1. b \in Slot /\ wiping' \in WipeType
    BY <1>1, <1>6 DEF WipeBlock, WipeType
  <2>2. FilesType(blocks') /\ order' \in Seq(Slot) /\ FilesType(parts)'
    BY <1>1, <1>6, <2>1, FilesKeep, KeptIs DEF WipeBlock, FilesType
  <2> QED BY <1>1, <1>6, <2>1, <2>2 DEF WipeBlock, TypeOK, FilesType
<1>7. ASSUME NEW b \in wiping.tmps, WipePart(b) PROVE TypeOK'
  <2>1. wiping' \in WipeType
    BY <1>1, <1>7 DEF WipePart, WipeType
  <2>2. FilesType(parts') /\ FilesType(blocks)'
    BY <1>1, <1>7, FilesKeep DEF WipePart, FilesType
  <2> QED BY <1>1, <1>7, <2>1, <2>2 DEF WipePart, TypeOK, FilesType
<1>10. ASSUME WipeFails PROVE TypeOK'
  <2>1. wiping' \in WipeType
    BY <1>1, <1>10 DEF WipeFails, WipeType
  <2> QED BY <1>1, <1>3, <1>10, <2>1 DEF WipeFails, TypeOK
<1>8. ASSUME EndInvalidate PROVE TypeOK'
  <2>1. UNCHANGED <<version, files, locks, read, left>> /\ wiping' = NoWipe /\ unsure' \in SUBSET Key
    BY <1>1, <1>8 DEF EndInvalidate
  <2> QED BY <1>1, <1>2, <1>3, <2>1 DEF TypeOK
<1>9. ASSUME Crash PROVE TypeOK'
  <2>1. left' \in Nat
    <3> DEFINE W == {r \in Reader : read[r].at \in {"evict", "remove"}}
    <3>1. IsFiniteSet(W)
      BY BlockCacheAssumption, FS_Subset
    <3>2. Cardinality(W) \in Nat
      BY <3>1, FS_CardinalityType
    <3> QED BY <1>1, <1>9, <3>2 DEF Crash
  <2>2. /\ read' \in [Reader -> ReadType]
        /\ \A r \in Reader : read'[r].at # "idle" => read'[r].key \in Key
    BY <1>9, IdleIs DEF Crash
  <2> QED BY <1>1, <1>2, <1>3, <1>9, <2>1, <2>2 DEF Crash, TypeOK
<1> QED BY <1>4, <1>5, <1>6, <1>7, <1>8, <1>9, <1>10

LEMMA TypeStep == TypeOK /\ [Next]_vars => TypeOK'
<1> SUFFICES ASSUME TypeOK, [Next]_vars PROVE TypeOK'
  OBVIOUS
<1>1. CASE UNCHANGED vars
  BY <1>1 DEF vars, files, TypeOK, FilesType
<1> QED BY <1>1, TypeReader, TypeOutside DEF Next

(* Every file holds bytes, of a block of a source, every reader past its start
   is about a source. *)
THEOREM TypeCorrect == Spec => []TypeOK
<1> QED BY TypeInit, TypeStep, PTL DEF Spec

(***************************************************************************)
(* The number of blocks.                                                   *)
(***************************************************************************)

(* s has each element of D once. *)
IsOrder(s, D) ==
  /\ s \in Seq(Slot) /\ Len(s) \in Nat
  /\ \A i, j \in 1 .. Len(s) : s[i] = s[j] => i = j
  /\ D = {s[i] : i \in 1 .. Len(s)}

LEMMA KeptOrder ==
  ASSUME NEW D, IsOrder(order, D), NEW b \in Slot
  PROVE  IsOrder(Kept(b), D \ {b})
<1>1. /\ order \in Seq(Slot) /\ Len(order) \in Nat /\ D = {order[i] : i \in 1 .. Len(order)}
      /\ \A i, j \in 1 .. Len(order) : order[i] = order[j] => i = j
  BY DEF IsOrder
<1>2. CASE Places(b) = {}
  <2>1. b \notin D
    BY <1>1, <1>2 DEF Places
  <2> QED BY <1>1, <1>2, <2>1 DEF Kept, IsOrder
<1>3. CASE Places(b) # {}
  <2>1. PICK p \in Places(b) : Kept(b) = SubSeq(order, 1, p - 1) \o SubSeq(order, p + 1, Len(order))
    BY <1>3 DEF Kept
  <2>2. p \in 1 .. Len(order) /\ order[p] = b
    BY <2>1 DEF Places
  <2> DEFINE s == SubSeq(order, 1, p - 1)
             t == SubSeq(order, p + 1, Len(order))
             K == Kept(b)
  <2>3. \A n \in 1 .. Len(order) : order[n] \in Slot
    BY <1>1, ElementOfSeq
  <2>4. s \in Seq(Slot) /\ Len(s) = p - 1 /\ \A n \in 1 .. p - 1 : s[n] = order[n]
    BY <1>1, <2>2, <2>3, SubSeqProperties
  <2>5. t \in Seq(Slot) /\ Len(t) = Len(order) - p /\ \A n \in 1 .. Len(order) - p : t[n] = order[n + p]
    <3>1. /\ t \in Seq(Slot) /\ Len(t) = IF p + 1 <= Len(order) THEN Len(order) - (p + 1) + 1 ELSE 0
          /\ \A n \in 1 .. Len(order) - (p + 1) + 1 : t[n] = order[p + 1 + n - 1]
      BY <1>1, <2>2, <2>3, SubSeqProperties
    <3> QED BY <1>1, <2>2, <3>1
  <2>6. /\ K \in Seq(Slot) /\ Len(K) = Len(s) + Len(t)
        /\ \A n \in 1 .. Len(s) + Len(t) : K[n] = IF n <= Len(s) THEN s[n] ELSE t[n - Len(s)]
    BY <2>1, <2>4, <2>5, ConcatProperties
  <2> HIDE DEF s, t, K
  <2>7. Len(K) = Len(order) - 1
    BY <1>1, <2>2, <2>4, <2>5, <2>6
  <2>8. \A n \in 1 .. Len(K) : K[n] = IF n < p THEN order[n] ELSE order[n + 1]
    <3> SUFFICES ASSUME NEW n \in 1 .. Len(K) PROVE K[n] = IF n < p THEN order[n] ELSE order[n + 1]
      OBVIOUS
    <3>1. CASE n < p
      BY <1>1, <2>2, <2>4, <2>5, <2>6, <3>1
    <3>2. CASE ~(n < p)
      <4>1. K[n] = t[n - (p - 1)] /\ n - (p - 1) \in 1 .. Len(order) - p
        BY <1>1, <2>2, <2>4, <2>5, <2>6, <2>7, <3>2
      <4>2. t[n - (p - 1)] = order[n - (p - 1) + p] /\ n - (p - 1) + p = n + 1
        BY <1>1, <2>2, <2>5, <2>7, <4>1
      <4> QED BY <3>2, <4>1, <4>2
    <3> QED BY <3>1, <3>2
  <2>9. \A i, j \in 1 .. Len(K) : K[i] = K[j] => i = j
    BY <1>1, <2>2, <2>7, <2>8
  <2>10. D \ {b} = {K[i] : i \in 1 .. Len(K)}
    <3>1. ASSUME NEW x \in D \ {b} PROVE \E i \in 1 .. Len(K) : K[i] = x
      <4>1. PICK i \in 1 .. Len(order) : order[i] = x
        BY <1>1, <3>1
      <4>2. i # p
        BY <2>2, <3>1, <4>1
      <4>3. CASE i < p
        BY <1>1, <2>2, <2>7, <2>8, <4>1, <4>3
      <4>4. CASE i > p
        <5>1. i - 1 \in 1 .. Len(K) /\ ~(i - 1 < p) /\ i - 1 + 1 = i
          BY <1>1, <2>2, <2>7, <4>1, <4>4
        <5> QED BY <2>8, <4>1, <5>1
      <4> QED BY <1>1, <2>2, <4>1, <4>2, <4>3, <4>4
    <3>2. ASSUME NEW i \in 1 .. Len(K) PROVE K[i] \in D \ {b}
      BY <1>1, <2>2, <2>7, <2>8
    <3> QED BY <3>1, <3>2
  <2>11. Len(K) \in Nat
    BY <1>1, <2>2, <2>7
  <2> QED BY <2>6, <2>9, <2>10, <2>11 DEF IsOrder, K
<1> QED BY <1>2, <1>3

LEMMA TouchedOrder ==
  ASSUME NEW D, IsOrder(order, D), NEW b \in Slot
  PROVE  IsOrder(Touched(b), D \cup {b})
<1> DEFINE K == Kept(b)
           T == Touched(b)
<1>1. IsOrder(K, D \ {b})
  BY KeptOrder
<1>2. /\ T \in Seq(Slot) /\ Len(T) = Len(K) + 1 /\ T[Len(K) + 1] = b
      /\ \A i \in 1 .. Len(K) : T[i] = K[i]
  BY <1>1, AppendProperties DEF IsOrder, Touched
<1> HIDE DEF K, T
<1>3. /\ Len(K) \in Nat /\ D \ {b} = {K[i] : i \in 1 .. Len(K)}
      /\ \A i, j \in 1 .. Len(K) : K[i] = K[j] => i = j
  BY <1>1 DEF IsOrder
<1>4. \A i \in 1 .. Len(T) : T[i] = IF i = Len(K) + 1 THEN b ELSE K[i]
  BY <1>2, <1>3
<1>5. ASSUME NEW i \in 1 .. Len(T), NEW j \in 1 .. Len(T), T[i] = T[j] PROVE i = j
  <2>1. \A n \in 1 .. Len(K) : K[n] # b
    BY <1>3
  <2>2. ASSUME NEW n \in 1 .. Len(T) PROVE n = Len(K) + 1 \/ n \in 1 .. Len(K)
    BY <1>2, <1>3
  <2> QED BY <1>3, <1>4, <1>5, <2>1, <2>2
<1>6. D \cup {b} = {T[i] : i \in 1 .. Len(T)}
  <2>1. ASSUME NEW x \in D \cup {b} PROVE \E i \in 1 .. Len(T) : T[i] = x
    <3>1. CASE x = b
      BY <1>2, <1>3, <3>1
    <3>2. CASE x # b
      <4>1. PICK i \in 1 .. Len(K) : K[i] = x
        BY <1>3, <2>1, <3>2
      <4> QED BY <1>2, <1>3, <4>1
    <3> QED BY <3>1, <3>2
  <2>2. ASSUME NEW i \in 1 .. Len(T) PROVE T[i] \in D \cup {b}
    BY <1>2, <1>3, <1>4
  <2> QED BY <2>1, <2>2
<1>7. Len(T) \in Nat
  BY <1>2, <1>3
<1> QED BY <1>2, <1>5, <1>6, <1>7 DEF IsOrder, T

LEMMA OrderCount ==
  ASSUME NEW s, NEW D, IsOrder(s, D)
  PROVE  IsFiniteSet(D) /\ Cardinality(D) = Len(s)
<1> DEFINE f == [i \in 1 .. Len(s) |-> s[i]]
<1>1. /\ Len(s) \in Nat /\ D = {s[i] : i \in 1 .. Len(s)}
      /\ \A i, j \in 1 .. Len(s) : s[i] = s[j] => i = j
  BY DEF IsOrder
<1>2. f \in Bijection(1 .. Len(s), D)
  BY <1>1 DEF Bijection, Injection, Surjection, IsInjective
<1>3. ExistsBijection(1 .. Len(s), D)
  BY <1>2 DEF ExistsBijection
<1>4. IsFiniteSet(1 .. Len(s)) /\ Cardinality(1 .. Len(s)) = Len(s)
  <2>1. /\ IsFiniteSet(1 .. Len(s))
        /\ Cardinality(1 .. Len(s)) = IF 1 > Len(s) THEN 0 ELSE Len(s) - 1 + 1
    BY <1>1, FS_Interval
  <2> QED BY <1>1, <2>1
<1> QED BY <1>3, <1>4, FS_Bijection

(* What is left when the first n are gone. *)
LEMMA RestCount ==
  ASSUME NEW s, NEW D, IsOrder(s, D), NEW n \in 0 .. Len(s)
  PROVE  Cardinality(D \ {s[i] : i \in 1 .. n}) = Len(s) - n
<1> DEFINE t == SubSeq(s, n + 1, Len(s))
<1>1. /\ Len(s) \in Nat /\ D = {s[i] : i \in 1 .. Len(s)} /\ s \in Seq(Slot)
      /\ \A i, j \in 1 .. Len(s) : s[i] = s[j] => i = j
  BY DEF IsOrder
<1>2. t \in Seq(Slot) /\ Len(t) = Len(s) - n /\ \A i \in 1 .. Len(s) - n : t[i] = s[i + n]
  <2>1. \A i \in n + 1 .. Len(s) : s[i] \in Slot
    BY <1>1, ElementOfSeq
  <2>2. /\ t \in Seq(Slot) /\ Len(t) = IF n + 1 <= Len(s) THEN Len(s) - (n + 1) + 1 ELSE 0
        /\ \A i \in 1 .. Len(s) - (n + 1) + 1 : t[i] = s[n + 1 + i - 1]
    BY <1>1, <2>1, SubSeqProperties
  <2> QED BY <1>1, <2>2
<1> HIDE DEF t
<1>3. \A i, j \in 1 .. Len(t) : t[i] = t[j] => i = j
  BY <1>1, <1>2
<1>4. D \ {s[i] : i \in 1 .. n} = {t[i] : i \in 1 .. Len(t)}
  <2>1. ASSUME NEW x \in D \ {s[i] : i \in 1 .. n} PROVE \E i \in 1 .. Len(t) : t[i] = x
    <3>1. PICK i \in 1 .. Len(s) : s[i] = x
      BY <1>1, <2>1
    <3>2. i > n
      BY <1>1, <2>1, <3>1
    <3>3. i - n \in 1 .. Len(s) - n /\ i - n + n = i
      BY <1>1, <3>2
    <3> QED BY <1>2, <3>1, <3>3
  <2>2. ASSUME NEW i \in 1 .. Len(t) PROVE t[i] \in D \ {s[j] : j \in 1 .. n}
    <3>1. t[i] = s[i + n] /\ i + n \in 1 .. Len(s) /\ i + n > n
      BY <1>1, <1>2
    <3>2. t[i] \in D
      BY <1>1, <3>1
    <3>3. ASSUME NEW j \in 1 .. n PROVE t[i] # s[j]
      <4>1. j \in 1 .. Len(s) /\ j # i + n
        BY <1>1, <3>1
      <4> QED BY <1>1, <3>1, <4>1
    <3> QED BY <3>2, <3>3
  <2> QED BY <2>1, <2>2
<1>5. IsOrder(t, D \ {s[i] : i \in 1 .. n})
  <2>1. Len(t) \in Nat
    BY <1>1, <1>2
  <2> QED BY <1>2, <1>3, <1>4, <2>1 DEF IsOrder
<1> QED BY <1>2, <1>5, OrderCount

(* The readers that have put a block and have still to evict. *)
Evicting == {r \in Reader : read[r].at \in {"evict", "remove"}}
Among(f) == {f[i] : i \in 1 .. Len(f)}

(* Who removes the oldest, and will have made up for all that was left by then. *)
Evicts(r) == At(r, "remove") /\ r \notin spared

(* Who put a block since r listed them is in A[r]: when r has removed all it
   found, only their blocks are too many.  One of them that lists them later
   finds what those before it put. *)
Owed(A) ==
  /\ A \in [Reader -> SUBSET Evicting]
  /\ \A r \in Reader : Evicts(r) =>
       /\ r \notin A[r]
       /\ Cardinality(DOMAIN blocks \ Among(read[r].found)) <= MaxBlocks + Cardinality(A[r])
       /\ \A q \in A[r] : Evicts(q) => A[q] \subseteq A[r] \ {q}

SizeInv ==
  /\ IsOrder(order, DOMAIN blocks)
  /\ Cardinality(DOMAIN blocks) <= MaxBlocks + left + Cardinality(Evicting)
  /\ \E A : Owed(A)

LEMMA Finite ==
  ASSUME NEW S \in SUBSET Reader
  PROVE  IsFiniteSet(S) /\ Cardinality(S) \in Nat
BY BlockCacheAssumption, FS_Subset, FS_CardinalityType

LEMMA Smaller ==
  ASSUME NEW S, IsFiniteSet(S), NEW T \in SUBSET S
  PROVE  IsFiniteSet(T) /\ Cardinality(T) \in Nat /\ Cardinality(S) \in Nat
         /\ Cardinality(T) <= Cardinality(S)
BY FS_Subset, FS_CardinalityType

LEMMA OneMore ==
  ASSUME NEW S, IsFiniteSet(S), NEW x
  PROVE  /\ IsFiniteSet(S \cup {x}) /\ Cardinality(S) \in Nat
         /\ Cardinality(S \cup {x}) \in Nat
         /\ Cardinality(S \cup {x}) <= Cardinality(S) + 1
<1>1. Cardinality(S) \in Nat
  BY FS_CardinalityType
<1>2. /\ IsFiniteSet(S \cup {x})
      /\ Cardinality(S \cup {x}) = IF x \in S THEN Cardinality(S) ELSE Cardinality(S) + 1
  BY FS_AddElement
<1> QED BY <1>1, <1>2

LEMMA SizeInit == Init => SizeInv
<1> SUFFICES ASSUME Init PROVE SizeInv
  OBVIOUS
<1>1. order = <<>> /\ DOMAIN blocks = {} /\ left = 0
  BY DEF Init
<1>2. IsOrder(order, DOMAIN blocks)
  BY <1>1, EmptySeq, LenProperties DEF IsOrder
<1>3. Evicting = {} /\ \A r \in Reader : ~Evicts(r)
  BY IdleIs DEF Init, Evicting, Evicts, At
<1>4. Owed([r \in Reader |-> {}])
  BY <1>3 DEF Owed
<1>5. Cardinality(DOMAIN blocks) = 0 /\ Cardinality(Evicting) = 0
  BY <1>1, <1>3, FS_EmptySet
<1> QED BY <1>1, <1>2, <1>4, <1>5, BlockCacheAssumption DEF SizeInv

(* A step that puts no block, and after which the same readers are to evict,
   and what they have left to remove covers as much as before. *)
Calm ==
  /\ IsOrder(order', DOMAIN blocks') /\ DOMAIN blocks' \subseteq DOMAIN blocks
  /\ left' = left /\ Evicting' = Evicting
  /\ \A r \in Reader :
       Evicts(r)' => /\ Evicts(r)
                     /\ DOMAIN blocks' \ Among(read'[r].found)
                          \subseteq DOMAIN blocks \ Among(read[r].found)

LEMMA CalmKeeps ==
  ASSUME TypeOK, SizeInv, Calm
  PROVE  SizeInv'
<1>1. IsOrder(order, DOMAIN blocks) /\ IsFiniteSet(DOMAIN blocks)
  BY OrderCount DEF SizeInv
<1>2. Cardinality(DOMAIN blocks') <= MaxBlocks + left' + Cardinality(Evicting')
  <2>1. /\ Cardinality(DOMAIN blocks') <= Cardinality(DOMAIN blocks)
        /\ Cardinality(DOMAIN blocks') \in Nat /\ Cardinality(DOMAIN blocks) \in Nat
    BY <1>1, Smaller DEF Calm
  <2>2. Cardinality(Evicting) \in Nat
    BY Finite DEF Evicting
  <2> QED BY <2>1, <2>2, BlockCacheAssumption DEF Calm, SizeInv, TypeOK
<1>3. PICK A : Owed(A)
  BY DEF SizeInv
<1>4. Owed(A)'
  <2>1. A \in [Reader -> SUBSET Evicting']
    BY <1>3 DEF Owed, Calm
  <2>2. ASSUME NEW r \in Reader, Evicts(r)'
        PROVE  /\ r \notin A[r]
               /\ Cardinality(DOMAIN blocks' \ Among(read'[r].found)) <= MaxBlocks + Cardinality(A[r])
               /\ \A q \in A[r] : Evicts(q)' => A[q] \subseteq A[r] \ {q}
    <3>1. Evicts(r)
      BY <2>2 DEF Calm
    <3>2. Cardinality(DOMAIN blocks' \ Among(read'[r].found))
            <= Cardinality(DOMAIN blocks \ Among(read[r].found))
          /\ Cardinality(DOMAIN blocks' \ Among(read'[r].found)) \in Nat
          /\ Cardinality(DOMAIN blocks \ Among(read[r].found)) \in Nat
      <4>1. IsFiniteSet(DOMAIN blocks \ Among(read[r].found))
        BY <1>1, FS_Subset
      <4> QED BY <2>2, <4>1, Smaller DEF Calm
    <3>3. /\ r \notin A[r]
          /\ Cardinality(DOMAIN blocks \ Among(read[r].found)) <= MaxBlocks + Cardinality(A[r])
          /\ \A q \in A[r] : Evicts(q) => A[q] \subseteq A[r] \ {q}
      BY <1>3, <3>1 DEF Owed
    <3>4. A[r] \in SUBSET Reader
      BY <1>3 DEF Owed, Evicting
    <3>5. Cardinality(A[r]) \in Nat
      BY <3>4, Finite
    <3>6. Cardinality(DOMAIN blocks' \ Among(read'[r].found)) <= MaxBlocks + Cardinality(A[r])
      BY <3>2, <3>3, <3>5, BlockCacheAssumption
    <3>7. \A q \in A[r] : Evicts(q)' => Evicts(q)
      BY <3>4 DEF Calm
    <3> QED BY <3>3, <3>6, <3>7
  <2> QED BY <2>1, <2>2 DEF Owed
<1> QED BY <1>2, <1>4 DEF SizeInv, Calm

(* A reader that neither was nor is to evict goes on. *)
LEMMA OthersCalm ==
  ASSUME TypeOK, NEW r \in Reader, NEW x, Moves(r, x), read[r].at \notin {"evict", "remove"},
         x.at \notin {"evict", "remove"}, UNCHANGED <<left, spared>>,
         IsOrder(order', DOMAIN blocks'), DOMAIN blocks' \subseteq DOMAIN blocks
  PROVE  Calm
<1>1. \A q \in Reader : read'[q] = IF q = r THEN x ELSE read[q]
  BY DEF Moves, TypeOK
<1>2. Evicting' = Evicting
  BY <1>1 DEF Evicting
<1> QED BY <1>1, <1>2 DEF Calm, Evicts, At

(* The block that is renamed is one more, for all that are removing. *)
LEMMA RenameSize ==
  ASSUME TypeOK, SizeInv, NEW r \in Reader, Rename(r)
  PROVE  SizeInv'
<1> DEFINE b == Block(r)
<1>1. /\ ~At(r, "idle") /\ At(r, "rename") /\ b \in DOMAIN parts
      /\ blocks' = Put(blocks, b, parts[b]) /\ order' = Touched(b) /\ UNCHANGED <<left, spared>>
      /\ Goto(r, "evict")
  BY DEF Rename, At
<1>2. b \in Slot /\ parts[b] \in Seq(Byte)
  BY <1>1, BlockIs DEF TypeOK, FilesType
<1>3. DOMAIN blocks' = DOMAIN blocks \cup {b}
  BY <1>1, <1>2, FilesKeep DEF TypeOK
<1>4. IsOrder(order', DOMAIN blocks')
  BY <1>1, <1>2, <1>3, TouchedOrder DEF SizeInv
<1>5. IsFiniteSet(DOMAIN blocks)
  BY OrderCount DEF SizeInv
<1>6. \A q \in Reader : q # r => read'[q] = read[q]
  BY <1>1 DEF Goto, TypeOK
<1>7. read'[r].at = "evict"
  BY <1>1, GotoMoves DEF Goto, TypeOK, ReadType
<1>8. Evicting' = Evicting \cup {r} /\ r \notin Evicting
  BY <1>1, <1>6, <1>7 DEF Evicting, At
<1>9. Cardinality(DOMAIN blocks') <= MaxBlocks + left' + Cardinality(Evicting')
  <2>1. Cardinality(Evicting') = Cardinality(Evicting) + 1 /\ Cardinality(Evicting) \in Nat
    BY <1>8, Finite, FS_AddElement DEF Evicting
  <2>2. /\ Cardinality(DOMAIN blocks') <= Cardinality(DOMAIN blocks) + 1
        /\ Cardinality(DOMAIN blocks) \in Nat /\ Cardinality(DOMAIN blocks') \in Nat
    BY <1>3, <1>5, OneMore
  <2> QED BY <1>1, <2>1, <2>2, BlockCacheAssumption DEF SizeInv, TypeOK
<1>10. PICK A : Owed(A)
  BY DEF SizeInv
<1> DEFINE B == [q \in Reader |-> A[q] \cup {r}]
<1>11. Owed(B)'
  <2>1. B \in [Reader -> SUBSET Evicting']
    BY <1>8, <1>10 DEF Owed
  <2>2. ASSUME NEW q \in Reader, Evicts(q)'
        PROVE  /\ q \notin B[q]
               /\ Cardinality(DOMAIN blocks' \ Among(read'[q].found)) <= MaxBlocks + Cardinality(B[q])
               /\ \A p \in B[q] : Evicts(p)' => B[p] \subseteq B[q] \ {p}
    <3>1. q # r /\ Evicts(q) /\ read'[q] = read[q]
      BY <1>1, <1>6, <1>7, <2>2 DEF Evicts, At
    <3>2. /\ q \notin A[q]
          /\ Cardinality(DOMAIN blocks \ Among(read[q].found)) <= MaxBlocks + Cardinality(A[q])
          /\ \A p \in A[q] : Evicts(p) => A[p] \subseteq A[q] \ {p}
      BY <1>10, <3>1 DEF Owed
    <3>3. A[q] \in SUBSET Evicting /\ r \notin A[q]
      BY <1>8, <1>10 DEF Owed
    <3>4. Cardinality(B[q]) = Cardinality(A[q]) + 1 /\ Cardinality(A[q]) \in Nat
      BY <3>3, Finite, FS_AddElement DEF Evicting
    <3>5. Cardinality(DOMAIN blocks' \ Among(read'[q].found))
            <= Cardinality(DOMAIN blocks \ Among(read[q].found)) + 1
          /\ Cardinality(DOMAIN blocks' \ Among(read'[q].found)) \in Nat
          /\ Cardinality(DOMAIN blocks \ Among(read[q].found)) \in Nat
      <4> DEFINE D == DOMAIN blocks \ Among(read[q].found)
                 E == DOMAIN blocks' \ Among(read'[q].found)
      <4>1. IsFiniteSet(D) /\ E \in SUBSET (D \cup {b})
        BY <1>3, <1>5, <3>1, FS_Subset
      <4>2. IsFiniteSet(D \cup {b}) /\ Cardinality(D \cup {b}) <= Cardinality(D) + 1
            /\ Cardinality(D) \in Nat
        BY <4>1, OneMore
      <4>3. Cardinality(E) <= Cardinality(D \cup {b}) /\ Cardinality(E) \in Nat
            /\ Cardinality(D \cup {b}) \in Nat
        BY <4>1, <4>2, Smaller
      <4> QED BY <4>2, <4>3
    <3>6. Cardinality(DOMAIN blocks' \ Among(read'[q].found)) <= MaxBlocks + Cardinality(B[q])
      BY <3>2, <3>4, <3>5, BlockCacheAssumption
    <3>7. ASSUME NEW p \in B[q], Evicts(p)' PROVE B[p] \subseteq B[q] \ {p}
      <4>1. p # r /\ p \in A[q] /\ p \in Reader
        BY <1>7, <3>3, <3>7 DEF Evicts, At, Evicting
      <4>2. Evicts(p)
        BY <1>1, <1>6, <3>7, <4>1 DEF Evicts, At
      <4> QED BY <3>2, <4>1, <4>2
    <3> QED BY <3>1, <3>2, <3>6, <3>7
  <2> QED BY <2>1, <2>2 DEF Owed
<1> QED BY <1>4, <1>9, <1>11 DEF SizeInv

(* Who lists the blocks finds all that are too many at that time. *)
LEMMA ListSize ==
  ASSUME TypeOK, SizeInv, NEW r \in Reader, List(r)
  PROVE  SizeInv'
<1> DEFINE n == Excess(Len(order))
           f == SubSeq(order, 1, n)
<1>1. At(r, "evict") /\ UNCHANGED <<blocks, order, left, spared>>
  BY DEF List, files
<1>2. /\ n \in 0 .. Len(order) /\ Len(order) - n <= MaxBlocks /\ Len(order) \in Nat
      /\ Len(f) = n /\ \A i \in 1 .. n : f[i] = order[i]
  BY ListMoves
<1>3. PICK x \in ReadType : x.at = "remove" /\ x.found = f /\ Moves(r, x)
  BY ListMoves
<1>4. \A q \in Reader : read'[q] = IF q = r THEN x ELSE read[q]
  BY <1>3 DEF Moves, TypeOK
<1>5. Evicting' = Evicting
  BY <1>1, <1>3, <1>4 DEF Evicting, At
<1>6. Cardinality(DOMAIN blocks \ Among(f)) <= MaxBlocks
  <2>1. Among(f) = {order[i] : i \in 1 .. n}
    <3> HIDE DEF f, n
    <3> QED BY <1>2 DEF Among
  <2>2. Cardinality(DOMAIN blocks \ {order[i] : i \in 1 .. n}) = Len(order) - n
    BY <1>2, RestCount DEF SizeInv
  <2> QED BY <1>2, <2>1, <2>2
<1>7. PICK A : Owed(A)
  BY DEF SizeInv
<1> DEFINE B == [A EXCEPT ![r] = {}]
<1>8. \A q \in Reader : B[q] = IF q = r THEN {} ELSE A[q]
  BY <1>7 DEF Owed
<1>9. Owed(B)'
  <2>1. B \in [Reader -> SUBSET Evicting']
    BY <1>5, <1>7 DEF Owed
  <2> HIDE DEF B, f
  <2>2. ASSUME NEW q \in Reader, Evicts(q)'
        PROVE  /\ q \notin B[q]
               /\ Cardinality(DOMAIN blocks' \ Among(read'[q].found)) <= MaxBlocks + Cardinality(B[q])
               /\ \A p \in B[q] : Evicts(p)' => B[p] \subseteq B[q] \ {p}
    <3>1. CASE q = r
      <4>1. B[q] = {} /\ Cardinality(B[q]) = 0
        BY <1>8, <3>1, FS_EmptySet
      <4>2. Cardinality(DOMAIN blocks' \ Among(read'[q].found)) <= MaxBlocks
        BY <1>1, <1>3, <1>4, <1>6, <3>1
      <4> QED BY <4>1, <4>2, BlockCacheAssumption
    <3>2. CASE q # r
      <4>1. Evicts(q) /\ read'[q] = read[q] /\ B[q] = A[q]
        BY <1>1, <1>4, <1>8, <2>2, <3>2 DEF Evicts, At
      <4>2. /\ q \notin A[q] /\ A[q] \subseteq Reader
            /\ Cardinality(DOMAIN blocks \ Among(read[q].found)) <= MaxBlocks + Cardinality(A[q])
            /\ \A p \in A[q] : Evicts(p) => A[p] \subseteq A[q] \ {p}
        BY <1>7, <4>1 DEF Owed, Evicting
      <4>3. ASSUME NEW p \in B[q], Evicts(p)' PROVE B[p] \subseteq B[q] \ {p}
        <5>1. p \in Reader /\ p \in A[q]
          BY <4>1, <4>2, <4>3
        <5>2. CASE p = r
          BY <1>8, <5>1, <5>2
        <5>3. CASE p # r
          <6>1. Evicts(p) /\ B[p] = A[p]
            BY <1>1, <1>4, <1>8, <4>3, <5>1, <5>3 DEF Evicts, At
          <6> QED BY <4>1, <4>2, <5>1, <6>1
        <5> QED BY <5>2, <5>3
      <4> QED BY <1>1, <4>1, <4>2, <4>3
    <3> QED BY <3>1, <3>2
  <2> QED BY <2>1, <2>2 DEF Owed
<1>10. Cardinality(DOMAIN blocks') <= MaxBlocks + left' + Cardinality(Evicting')
  BY <1>1, <1>5 DEF SizeInv
<1>11. IsOrder(order', DOMAIN blocks')
  BY <1>1 DEF SizeInv
<1> QED BY <1>9, <1>10, <1>11 DEF SizeInv

(* Who has removed all it found leaves as many as those that put blocks since
   account for. *)
LEMMA LeaveSize ==
  ASSUME TypeOK, SizeInv, NEW r \in Reader, RemoveOldest(r), read[r].found = <<>>,
         r \notin spared
  PROVE  SizeInv'
<1>1. Evicts(r) /\ UNCHANGED <<blocks, order, spared>> /\ left' = 0 /\ Goto(r, "have")
  BY DEF RemoveOldest, files, Evicts
<1>2. \A q \in Reader : q # r => read'[q] = read[q]
  BY <1>1 DEF Goto, TypeOK
<1>3. read'[r].at = "have"
  BY <1>1 DEF Goto, TypeOK, ReadType
<1>4. Evicting' = Evicting \ {r}
  BY <1>1, <1>2, <1>3 DEF Evicting, Evicts, At
<1>5. PICK A : Owed(A)
  BY DEF SizeInv
<1>6. A \in [Reader -> SUBSET Evicting]
  BY <1>5 DEF Owed
<1>7. r \notin A[r] /\ Cardinality(DOMAIN blocks) <= MaxBlocks + Cardinality(A[r])
  <2>1. Among(read[r].found) = {}
    BY DEF Among
  <2>2. Cardinality(DOMAIN blocks \ Among(read[r].found)) <= MaxBlocks + Cardinality(A[r])
        /\ r \notin A[r]
    BY <1>1, <1>5 DEF Owed
  <2>3. DOMAIN blocks \ {} = DOMAIN blocks
    OBVIOUS
  <2> QED BY <2>1, <2>2, <2>3
<1>8. IsFiniteSet(DOMAIN blocks) /\ Cardinality(DOMAIN blocks) \in Nat
  BY OrderCount, FS_CardinalityType DEF SizeInv
<1>9. Cardinality(DOMAIN blocks') <= MaxBlocks + left' + Cardinality(Evicting')
  <2>1. A[r] \in SUBSET Evicting'
    BY <1>4, <1>6, <1>7
  <2>2. IsFiniteSet(Evicting')
    BY <1>4, Finite DEF Evicting
  <2>3. /\ Cardinality(A[r]) <= Cardinality(Evicting') /\ Cardinality(A[r]) \in Nat
        /\ Cardinality(Evicting') \in Nat
    BY <2>1, <2>2, Smaller
  <2> QED BY <1>1, <1>7, <1>8, <2>3, BlockCacheAssumption
<1> DEFINE B == [q \in Reader |-> A[q] \ {r}]
<1>10. Owed(B)'
  <2>1. B \in [Reader -> SUBSET Evicting']
    BY <1>4, <1>6
  <2>2. ASSUME NEW q \in Reader, Evicts(q)'
        PROVE  /\ q \notin B[q]
               /\ Cardinality(DOMAIN blocks' \ Among(read'[q].found)) <= MaxBlocks + Cardinality(B[q])
               /\ \A p \in B[q] : Evicts(p)' => B[p] \subseteq B[q] \ {p}
    <3>1. q # r /\ Evicts(q) /\ read'[q] = read[q]
      BY <1>1, <1>2, <1>3, <2>2 DEF Evicts, At
    <3>2. /\ q \notin A[q]
          /\ Cardinality(DOMAIN blocks \ Among(read[q].found)) <= MaxBlocks + Cardinality(A[q])
          /\ \A p \in A[q] : Evicts(p) => A[p] \subseteq A[q] \ {p}
      BY <1>5, <3>1 DEF Owed
    <3>3. A[q] \in SUBSET Reader /\ B[q] = A[q] \ {r} /\ r \in Reader
      BY <1>6 DEF Evicting
    <3>4. /\ Cardinality(DOMAIN blocks \ Among(read[q].found)) <= Cardinality(DOMAIN blocks)
          /\ Cardinality(DOMAIN blocks \ Among(read[q].found)) \in Nat
      BY <1>8, Smaller
    <3>5. Cardinality(DOMAIN blocks \ Among(read[q].found)) <= MaxBlocks + Cardinality(B[q])
      <4>1. CASE r \in A[q]
        <5>1. A[r] \in SUBSET B[q]
          BY <1>1, <3>2, <3>3, <4>1
        <5>2. IsFiniteSet(B[q])
          BY <3>3, Finite
        <5>3. Cardinality(A[r]) <= Cardinality(B[q]) /\ Cardinality(A[r]) \in Nat /\ Cardinality(B[q]) \in Nat
          BY <5>1, <5>2, Smaller
        <5> QED BY <1>7, <1>8, <3>4, <5>3, BlockCacheAssumption
      <4>2. CASE r \notin A[q]
        <5>1. B[q] = A[q]
          BY <3>3, <4>2
        <5> QED BY <3>2, <5>1
      <4> QED BY <4>1, <4>2
    <3>6. ASSUME NEW p \in B[q], Evicts(p)' PROVE B[p] \subseteq B[q] \ {p}
      <4>1. p \in Reader /\ p # r /\ p \in A[q]
        BY <3>3, <3>6
      <4>2. Evicts(p)
        BY <1>1, <1>2, <3>6, <4>1 DEF Evicts, At
      <4> QED BY <3>2, <3>3, <4>1, <4>2
    <3> QED BY <1>1, <3>1, <3>2, <3>5, <3>6
  <2> QED BY <2>1, <2>2 DEF Owed
<1>11. IsOrder(order', DOMAIN blocks')
  BY <1>1 DEF SizeInv
<1> QED BY <1>9, <1>10, <1>11 DEF SizeInv

(* Who gives up leaves its block over, and nobody is sure to make up for it. *)
LEMMA SpareSize ==
  ASSUME TypeOK, SizeInv, NEW r \in Reader, read[r].at \in {"evict", "remove"},
         Goto(r, "have"), UNCHANGED <<blocks, order>>, Spares(r)
  PROVE  SizeInv'
<1>1. \A q \in Reader : q # r => read'[q] = read[q]
  BY DEF Goto, TypeOK
<1>2. read'[r].at = "have"
  BY DEF Goto, TypeOK, ReadType
<1>3. Evicting' = Evicting \ {r} /\ r \in Evicting
  BY <1>1, <1>2 DEF Evicting
<1>4. \A q \in Reader : ~Evicts(q)'
  BY <1>1, <1>2 DEF Evicts, At, Spares
<1>5. Owed([q \in Reader |-> {}])'
  BY <1>4 DEF Owed
<1>6. Cardinality(Evicting') = Cardinality(Evicting) - 1 /\ Cardinality(Evicting) \in Nat
  <2>1. IsFiniteSet(Evicting) /\ Cardinality(Evicting) \in Nat
    BY Finite DEF Evicting
  <2>2. Cardinality(Evicting \ {r}) = Cardinality(Evicting) - 1
    BY <1>3, <2>1, FS_RemoveElement
  <2> QED BY <1>3, <2>1, <2>2
<1>7. IsFiniteSet(DOMAIN blocks) /\ Cardinality(DOMAIN blocks) \in Nat
  BY OrderCount, FS_CardinalityType DEF SizeInv
<1>8. Cardinality(DOMAIN blocks') <= MaxBlocks + left' + Cardinality(Evicting')
  BY <1>6, <1>7, BlockCacheAssumption DEF SizeInv, TypeOK, Spares
<1>9. IsOrder(order', DOMAIN blocks')
  BY DEF SizeInv
<1> QED BY <1>5, <1>8, <1>9 DEF SizeInv

(* What the killed writers put is what is left over. *)
LEMMA CrashSize ==
  ASSUME TypeOK, SizeInv, Crash
  PROVE  SizeInv'
<1>1. /\ UNCHANGED <<blocks, order>> /\ left' = left + Cardinality(Evicting)
      /\ \A r \in Reader : read'[r] = Idle
  BY DEF Crash, files, Evicting
<1>2. Evicting' = {} /\ \A r \in Reader : ~Evicts(r)'
  BY <1>1, IdleIs DEF Evicting, Evicts, At
<1>3. Owed([r \in Reader |-> {}])'
  BY <1>2 DEF Owed
<1>4. Cardinality(Evicting') = 0 /\ Cardinality(Evicting) \in Nat
  BY <1>2, FS_EmptySet, Finite DEF Evicting
<1>5. Cardinality(DOMAIN blocks') <= MaxBlocks + left' + Cardinality(Evicting')
  BY <1>1, <1>4, BlockCacheAssumption DEF SizeInv, TypeOK
<1> QED BY <1>1, <1>3, <1>5 DEF SizeInv

LEMMA SizeReader ==
  ASSUME TypeOK, SizeInv, NEW r \in Reader,
         \/ \E k \in Key, e \in Ranges : ReadRange(r, k, e[1], e[2])
         \/ Look(r) \/ Open(r) \/ Lock(r) \/ Again(r) \/ Take(r)
         \/ Fetch(r) \/ FetchFails(r) \/ Write(r) \/ WriteFails(r) \/ Rename(r)
         \/ List(r) \/ ListFails(r) \/ RemoveOldest(r) \/ RemoveFails(r) \/ Join(r) \/ Leave(r)
  PROVE  SizeInv'
<1>1. IsOrder(order, DOMAIN blocks)
  BY DEF SizeInv
<1>2. ASSUME NEW x, Moves(r, x), read[r].at \notin {"evict", "remove"}, x.at \notin {"evict", "remove"},
             UNCHANGED <<blocks, order, left, spared>>
      PROVE  SizeInv'
  BY <1>1, <1>2, OthersCalm, CalmKeeps
<1>3. ASSUME NEW k \in Key, NEW e \in Ranges, ReadRange(r, k, e[1], e[2]) PROVE SizeInv'
  BY <1>2, <1>3, ReadRangeMoves DEF ReadRange, files, At
<1>4. ASSUME Look(r) PROVE SizeInv'
  <2>1. PICK x \in ReadType, a \in {"open", "lock"}, n \in Nat :
          x = [read[r] EXCEPT !.at = a, !.size = n] /\ Moves(r, x)
    BY <1>4, LookMoves
  <2>2. x.at = a
    BY <2>1, <1>4, BlockIs DEF ReadType, Look, At
  <2> QED BY <1>2, <1>4, <2>1, <2>2 DEF Look, files, At
<1>5. ASSUME NEW a \in Stage \ {"idle", "evict", "remove"}, Goto(r, a),
             read[r].at \notin {"idle", "evict", "remove"}
      PROVE  \E x : Moves(r, x) /\ x.at \notin {"evict", "remove"}
  <2>1. PICK x \in ReadType : x = [read[r] EXCEPT !.at = a] /\ Moves(r, x)
    BY <1>5, GotoMoves DEF At
  <2>2. x.at = a
    BY <1>5, <2>1, BlockIs DEF ReadType, At
  <2> QED BY <1>5, <2>1, <2>2
<1>6. ASSUME NEW a \in Stage \ {"idle", "evict", "remove"}, NEW d \in Seq(Byte),
             read' = [read EXCEPT ![r] = [read[r] EXCEPT !.at = a, !.data = d]],
             read[r].at \notin {"idle", "evict", "remove"}
      PROVE  \E x : Moves(r, x) /\ x.at \notin {"evict", "remove"}
  <2>1. PICK x \in ReadType : x = [read[r] EXCEPT !.at = a, !.data = d] /\ Moves(r, x)
    BY <1>6, DataMoves DEF At
  <2>2. x.at = a
    BY <1>6, <2>1, BlockIs DEF ReadType, At
  <2> QED BY <1>6, <2>1, <2>2
<1>7. ASSUME read' = [read EXCEPT ![r] = Idle] PROVE \E x : Moves(r, x) /\ x.at \notin {"evict", "remove"}
  BY <1>7, IdleMoves, IdleIs
<1>8. ASSUME Block(r) \in DOMAIN blocks, read[r].at \notin {"idle", "evict", "remove"},
             read' = [read EXCEPT ![r] = [read[r] EXCEPT !.at = "have", !.data = blocks[Block(r)]]]
      PROVE  \E x : Moves(r, x) /\ x.at \notin {"evict", "remove"}
  <2>1. blocks[Block(r)] \in Seq(Byte)
    BY <1>8 DEF TypeOK, FilesType
  <2> QED BY <1>6, <1>8, <2>1 DEF Stage
<1>9. ASSUME Open(r) PROVE SizeInv'
  <2>1. read[r].at = "open" /\ UNCHANGED <<blocks, left, spared>>
    BY <1>9 DEF Open, At
  <2>2. PICK x : Moves(r, x) /\ x.at \notin {"evict", "remove"}
    <3>1. CASE /\ Block(r) \in DOMAIN blocks
               /\ read' = [read EXCEPT ![r].at = "have", ![r].data = blocks[Block(r)]]
      <4>1. read' = [read EXCEPT ![r] = [read[r] EXCEPT !.at = "have", !.data = blocks[Block(r)]]]
        BY <3>1
      <4> QED BY <1>8, <2>1, <3>1, <4>1
    <3>2. CASE Goto(r, "lock")
      BY <1>5, <2>1, <3>2 DEF Stage
    <3> QED BY <1>7, <1>9, <3>1, <3>2 DEF Open
  <2>3. IsOrder(order', DOMAIN blocks')
    <3>1. order' = order \/ (order' = Touched(Block(r)) /\ Block(r) \in DOMAIN blocks)
      BY <1>9 DEF Open
    <3>2. Block(r) \in DOMAIN blocks => IsOrder(Touched(Block(r)), DOMAIN blocks)
      <4>1. Block(r) \in Slot
        BY <2>1, BlockIs DEF At
      <4>2. Block(r) \in DOMAIN blocks => DOMAIN blocks \cup {Block(r)} = DOMAIN blocks
        OBVIOUS
      <4>3. IsOrder(Touched(Block(r)), DOMAIN blocks \cup {Block(r)})
        BY <1>1, <4>1, TouchedOrder
      <4> QED BY <4>2, <4>3
    <3> QED BY <1>1, <2>1, <3>1, <3>2
  <2> QED BY <2>1, <2>2, <2>3, OthersCalm, CalmKeeps
<1>10. ASSUME Lock(r) PROVE SizeInv'
  BY <1>2, <1>5, <1>10 DEF Lock, files, At, Stage, Locked
<1>11. ASSUME Again(r) PROVE SizeInv'
  <2>1. /\ Goto(r, "take") \/ Goto(r, "fetch")
        /\ read[r].at = "again" /\ UNCHANGED <<blocks, order, left, spared>>
    BY <1>11 DEF Again, files, At
  <2> QED BY <1>2, <1>5, <2>1 DEF Stage, Locked
<1>12. ASSUME Take(r) PROVE SizeInv'
  <2>1. read[r].at = "take" /\ UNCHANGED <<blocks, order, left, spared>>
    BY <1>12 DEF Take, files, At
  <2>2. CASE Block(r) \in DOMAIN blocks
    <3>1. read' = [read EXCEPT ![r] = [read[r] EXCEPT !.at = "have", !.data = blocks[Block(r)]]]
      BY <1>12, <2>2 DEF Take
    <3> QED BY <1>2, <1>8, <2>1, <2>2, <3>1
  <2>3. CASE Block(r) \notin DOMAIN blocks
    BY <1>2, <1>7, <1>12, <2>1, <2>3 DEF Take
  <2> QED BY <2>2, <2>3
<1>13. ASSUME Fetch(r) PROVE SizeInv'
  <2> DEFINE d == Chunk(read[r].key, version[read[r].key], read[r].index)
             a == IF d = <<>> THEN "have" ELSE "write"
  <2>1. read[r].at = "fetch" /\ UNCHANGED <<blocks, order, left, spared>>
    BY <1>13 DEF Fetch, files, At
  <2>2. read[r].key \in Key /\ read[r].index \in Nat /\ version[read[r].key] \in 1 .. Len(Length)
    BY <2>1, BlockIs DEF TypeOK, At
  <2>3. d \in Seq(Byte)
    BY <2>2, ChunkIs
  <2>4. read' = [read EXCEPT ![r] = [read[r] EXCEPT !.at = a, !.data = d]]
    BY <1>13 DEF Fetch
  <2>5. a \in Stage \ {"idle", "evict", "remove"}
    BY DEF Stage, Locked
  <2> HIDE DEF d, a
  <2> QED BY <1>2, <1>6, <2>1, <2>3, <2>4, <2>5
<1>14. ASSUME FetchFails(r) \/ Leave(r) PROVE SizeInv'
  BY <1>2, <1>7, <1>14 DEF FetchFails, Leave, files, At
<1>15. ASSUME Write(r) PROVE SizeInv'
  BY <1>2, <1>5, <1>15 DEF Write, At, Stage, Locked
<1>16. ASSUME WriteFails(r) PROVE SizeInv'
  BY <1>2, <1>5, <1>16 DEF WriteFails, files, At, Stage
<1>17. ASSUME RemoveOldest(r) PROVE SizeInv'
  <2>1. CASE read[r].found # <<>>
    <3> DEFINE f == read[r].found
               b == Head(f)
    <3>1. /\ At(r, "remove") /\ UNCHANGED <<left, spared>>
          /\ blocks' = Without(blocks, {b}) /\ order' = Kept(b)
      BY <1>17, <2>1 DEF RemoveOldest
    <3>2. PICK x \in ReadType : x = [read[r] EXCEPT !.found = Tail(f)] /\ Moves(r, x)
      BY <1>17, <2>1, RemoveMoves
    <3>3. b \in Slot
      BY <1>17, <2>1, RemoveMoves
    <3>4. read[r] \in ReadType /\ f \in Seq(Slot)
      BY <3>1, BlockIs DEF At, ReadType
    <3>5. x.at = "remove" /\ x.found = Tail(f)
      BY <3>1, <3>2, <3>4 DEF ReadType, At
    <3>6. DOMAIN blocks' = DOMAIN blocks \ {b} /\ IsOrder(order', DOMAIN blocks')
      <4>1. DOMAIN blocks' = DOMAIN blocks \ {b}
        BY <3>1, FilesKeep DEF TypeOK
      <4>2. IsOrder(Kept(b), DOMAIN blocks \ {b})
        BY <1>1, <3>3, KeptOrder
      <4> QED BY <3>1, <4>1, <4>2
    <3>7. Among(f) \subseteq {b} \cup Among(Tail(f))
      <4>1. /\ Len(f) \in Nat /\ Len(Tail(f)) = Len(f) - 1 /\ Head(f) = f[1]
            /\ \A i \in 1 .. Len(Tail(f)) : Tail(f)[i] = f[i + 1]
        BY <2>1, <3>4, HeadTailProperties, LenProperties
      <4>2. ASSUME NEW i \in 1 .. Len(f) PROVE f[i] \in {b} \cup Among(Tail(f))
        <5>1. CASE i = 1
          BY <4>1, <5>1
        <5>2. CASE i # 1
          <6>1. i - 1 \in 1 .. Len(Tail(f)) /\ Tail(f)[i - 1] = f[i]
            BY <4>1, <5>2
          <6> QED BY <6>1 DEF Among
        <5> QED BY <5>1, <5>2
      <4> QED BY <4>2 DEF Among
    <3>8. \A q \in Reader : read'[q] = IF q = r THEN x ELSE read[q]
      BY <3>2 DEF Moves, TypeOK
    <3>9. Evicting' = Evicting
      BY <3>1, <3>5, <3>8 DEF Evicting, At
    <3> HIDE DEF f, b
    <3>10. Calm
      <4>1. \A q \in Reader : Evicts(q)' => Evicts(q)
        BY <3>1, <3>5, <3>8 DEF Evicts, At
      <4>2. ASSUME NEW q \in Reader
            PROVE  DOMAIN blocks' \ Among(read'[q].found) \subseteq DOMAIN blocks \ Among(read[q].found)
        BY <3>5, <3>6, <3>7, <3>8 DEF f
      <4> QED BY <3>1, <3>6, <3>9, <4>1, <4>2 DEF Calm
    <3> QED BY <3>10, CalmKeeps
  <2>2. CASE read[r].found = <<>> /\ r \in spared
    <3>1. /\ read[r].at = "remove" /\ Goto(r, "have") /\ UNCHANGED <<blocks, order>> /\ Spares(r)
      BY <1>17, <2>2 DEF RemoveOldest, files, At
    <3> QED BY <3>1, SpareSize
  <2> QED BY <1>17, <2>1, <2>2, LeaveSize
<1>19. ASSUME ListFails(r) PROVE SizeInv'
  BY <1>19, SpareSize DEF ListFails, files, At
<1>20. ASSUME RemoveFails(r) PROVE SizeInv'
  <2>1. /\ At(r, "remove") /\ UNCHANGED <<blocks, order, left>> /\ spared' = spared \cup {r}
        /\ read[r].found # <<>>
    BY <1>20 DEF RemoveFails, files
  <2>2. PICK x \in ReadType : x = [read[r] EXCEPT !.found = Tail(read[r].found)] /\ Moves(r, x)
    BY <1>20, <2>1, RemoveMoves
  <2>3. x.at = "remove"
    BY <2>1, <2>2, BlockIs DEF ReadType, At
  <2>4. \A q \in Reader : read'[q] = IF q = r THEN x ELSE read[q]
    BY <2>2 DEF Moves, TypeOK
  <2>5. Evicting' = Evicting
    BY <2>1, <2>3, <2>4 DEF Evicting, At
  <2>6. ASSUME NEW q \in Reader, Evicts(q)' PROVE Evicts(q) /\ read'[q] = read[q]
    BY <2>1, <2>4, <2>6 DEF Evicts, At
  <2>7. Calm
    BY <1>1, <2>1, <2>5, <2>6 DEF Calm
  <2> QED BY <2>7, CalmKeeps
<1>18. ASSUME Join(r) PROVE SizeInv'
  BY <1>2, <1>18, JoinMoves DEF Join, files, At
<1> QED BY <1>3, <1>4, <1>9, <1>10, <1>11, <1>12, <1>13, <1>14, <1>15, <1>16, <1>17, <1>18,
           <1>19, <1>20, RenameSize, ListSize

LEMMA SizeOutside ==
  ASSUME TypeOK, SizeInv,
         \/ \E k \in Key : Change(k) \/ Invalidate(k)
         \/ (\E b \in wiping.bins : WipeBlock(b)) \/ (\E b \in wiping.tmps : WipePart(b))
         \/ WipeFails \/ EndInvalidate \/ Crash
  PROVE  SizeInv'
<1>1. IsOrder(order, DOMAIN blocks)
  BY DEF SizeInv
<1>2. ASSUME UNCHANGED <<left, spared>>, IsOrder(order', DOMAIN blocks'), DOMAIN blocks' \subseteq DOMAIN blocks,
             \A r \in Reader : read'[r].at = read[r].at /\ read'[r].found = read[r].found
      PROVE  SizeInv'
  <2>1. Evicting' = Evicting
    BY <1>2 DEF Evicting
  <2> QED BY <1>2, <2>1, CalmKeeps DEF Calm, Evicts, At
<1>3. ASSUME NEW k \in Key, Change(k) PROVE SizeInv'
  <2>1. \A x \in ReadType : /\ [x EXCEPT !.sure = FALSE].at = x.at
                            /\ [x EXCEPT !.sure = FALSE].found = x.found
    BY DEF ReadType
  <2>2. \A r \in Reader : read'[r] = IF read[r].key = k THEN [read[r] EXCEPT !.sure = FALSE] ELSE read[r]
    BY <1>3 DEF Change
  <2>3. \A r \in Reader : read'[r].at = read[r].at /\ read'[r].found = read[r].found
    BY <2>1, <2>2 DEF TypeOK
  <2> QED BY <1>1, <1>2, <1>3, <2>3 DEF Change, files
<1>4. ASSUME NEW k \in Key, Invalidate(k) PROVE SizeInv'
  BY <1>1, <1>2, <1>4 DEF Invalidate, files
<1>5. ASSUME NEW b \in wiping.bins, WipeBlock(b) PROVE SizeInv'
  <2>1. b \in Slot
    BY DEF TypeOK, WipeType
  <2>2. DOMAIN blocks' = DOMAIN blocks \ {b} /\ IsOrder(order', DOMAIN blocks')
    <3>1. DOMAIN blocks' = DOMAIN blocks \ {b}
      BY <1>5, FilesKeep DEF WipeBlock, TypeOK
    <3>2. IsOrder(Kept(b), DOMAIN blocks \ {b})
      BY <1>1, <2>1, KeptOrder
    <3> QED BY <1>5, <3>1, <3>2 DEF WipeBlock
  <2> QED BY <1>2, <1>5, <2>2 DEF WipeBlock
<1>6. ASSUME NEW b \in wiping.tmps, WipePart(b) PROVE SizeInv'
  BY <1>1, <1>2, <1>6 DEF WipePart
<1>7. ASSUME EndInvalidate PROVE SizeInv'
  BY <1>1, <1>2, <1>7 DEF EndInvalidate, files
<1>8. ASSUME WipeFails PROVE SizeInv'
  BY <1>1, <1>2, <1>8 DEF WipeFails, files
<1> QED BY <1>3, <1>4, <1>5, <1>6, <1>7, <1>8, CrashSize

LEMMA SizeStep == TypeOK /\ SizeInv /\ [Next]_vars => SizeInv'
<1> SUFFICES ASSUME TypeOK, SizeInv, [Next]_vars PROVE SizeInv'
  OBVIOUS
<1>1. CASE UNCHANGED vars
  <2>1. IsOrder(order, DOMAIN blocks)
    BY DEF SizeInv
  <2>2. Calm
    BY <1>1, <2>1 DEF Calm, vars, files, Evicting, Evicts, At
  <2> QED BY <2>2, CalmKeeps
<1> QED BY <1>1, SizeReader, SizeOutside DEF Next

(* There are never more blocks on disk than max_blocks, but for one for each
   writer that has still to evict, was killed before it did, or failed to:
   evict_if_needed (block_cache.rs) makes up for all it found, however the
   writers, their evictions and an invalidation interleave. *)
THEOREM SizeBoundedAlways == Spec => []SizeBounded
<1>1. SizeInv => SizeBounded
  BY DEF SizeInv, SizeBounded, Evicting
<1> QED BY <1>1, TypeInit, TypeStep, SizeInit, SizeStep, PTL DEF Spec

(***************************************************************************)
(* What is read.                                                           *)
(***************************************************************************)

(* The lock of a block is held by who writes it, and by nobody else. *)
LockInv ==
  \A r \in Reader : read[r].at \in Locked =>
    /\ Block(r) \in locks
    /\ \A q \in Reader : q # r /\ read[q].at \in Locked => Block(q) # Block(r)

(* The files of a source are of its version unless it changed and was not
   invalidated since; while it is, those still to be removed may not be. *)
Current(k, i) == Chunk(k, version[k], i)
CurrentKey(k) == k \notin unsure \/ (wiping.key = k /\ wiping.clean)
CurrentBlock(b) == b[1] \notin unsure \/ (CurrentKey(b[1]) /\ b \notin wiping.bins)
CacheInv ==
  /\ \A b \in DOMAIN blocks : CurrentBlock(b) => blocks[b] = Current(b[1], b[2])
  /\ \A b \in wiping.bins : b[1] = wiping.key

(* What a reader is about to put is of the version, and is what it put. *)
Held(e) ==
  /\ e.at \in {"write", "rename"} /\ CurrentKey(e.key) => e.data = Current(e.key, e.index)
  /\ e.at \in {"write", "rename", "evict", "remove", "have"} /\ e.sure => e.data = Current(e.key, e.index)
Part(e) ==
  e.at = "rename" /\ <<e.key, e.index>> \in DOMAIN parts => parts[<<e.key, e.index>>] = e.data

(* What it has read is what there is from its start to the block it is at. *)
First(e) == e.start \div BlockSize
From(e) == IF e.index = First(e) THEN e.start ELSE e.index * BlockSize
Source(e) == Bytes(e.key, version[e.key])
Upto(e) ==
  /\ e.out = SubSeq(Source(e), e.start + 1, From(e))
  /\ \/ e.index = First(e)
     \/ /\ e.start < e.index * BlockSize /\ e.index * BlockSize <= Len(Source(e))
        /\ e.end = -1 \/ e.index * BlockSize < e.end
Answer(e) ==
  e.out = SubSeq(Source(e), e.start + 1, IF e.end = -1 THEN Len(Source(e))
                                         ELSE Min({e.end, Len(Source(e))}))
Going(e) ==
  /\ e.sure => e.key \notin unsure
  /\ e.at # "idle" => e.end = -1 \/ e.start <= e.end
  /\ e.at \notin {"idle", "answer"} /\ e.sure => Upto(e)
  /\ e.at = "answer" /\ e.sure => Answer(e)

Exact(e) == Held(e) /\ Part(e) /\ Going(e)
ExactInv == LockInv /\ CacheInv /\ \A r \in Reader : Exact(read[r])

LEMMA IdleExact == Exact(Idle) /\ Exact(Idle)'
BY IdleIs DEF Exact, Held, Part, Going

LEMMA ExactInit == Init => ExactInv
<1> SUFFICES ASSUME Init PROVE ExactInv
  OBVIOUS
<1>1. \A r \in Reader : Exact(read[r]) /\ read[r].at \notin Locked
  BY IdleExact, IdleIs DEF Init, Locked
<1>2. CacheInv
  BY DEF Init, CacheInv, NoWipe
<1> QED BY <1>1, <1>2 DEF ExactInv, LockInv

(* Locks: taken, kept, given back. *)
Takes(r, x) == /\ read[r].at \notin Locked /\ x.key = read[r].key /\ x.index = read[r].index
               /\ Block(r) \notin locks /\ locks' = locks \cup {Block(r)}
Keeps(r, x) == /\ read[r].at \in Locked /\ x.key = read[r].key /\ x.index = read[r].index
               /\ locks' = locks
Gives(r, x) == read[r].at \in Locked /\ x.at \notin Locked /\ locks' = locks \ {Block(r)}
Unlocked(r, x) == read[r].at \notin Locked /\ x.at \notin Locked /\ locks' = locks

LEMMA LockMoves ==
  ASSUME TypeOK, LockInv, NEW r \in Reader, NEW x, Moves(r, x),
         Takes(r, x) \/ Keeps(r, x) \/ Gives(r, x) \/ Unlocked(r, x)
  PROVE  LockInv'
<1>1. \A q \in Reader : read'[q] = IF q = r THEN x ELSE read[q]
  BY DEF Moves, TypeOK
<1>2. \A q \in Reader : Block(q)' = IF q = r THEN <<x.key, x.index>> ELSE Block(q)
  BY <1>1 DEF Block
<1>3. CASE Takes(r, x)
  <2>1. Block(r)' = Block(r)
    BY <1>2, <1>3 DEF Takes, Block
  <2>2. \A q \in Reader : read[q].at \in Locked => Block(q) \in locks
    BY DEF LockInv
  <2> QED BY <1>1, <1>2, <1>3, <2>1, <2>2 DEF Takes, LockInv
<1>4. CASE Keeps(r, x)
  <2>1. \A q \in Reader : Block(q)' = Block(q)
    BY <1>2, <1>4 DEF Keeps, Block
  <2>2. \A q \in Reader : read'[q].at \in Locked => read[q].at \in Locked
    BY <1>1, <1>4 DEF Keeps
  <2> QED BY <1>4, <2>1, <2>2 DEF Keeps, LockInv
<1>5. CASE Gives(r, x)
  BY <1>1, <1>2, <1>5 DEF Gives, LockInv
<1>6. CASE Unlocked(r, x)
  BY <1>1, <1>2, <1>6 DEF Unlocked, LockInv
<1> QED BY <1>3, <1>4, <1>5, <1>6

(* A step of a reader leaves the others exact if it puts no part but its own. *)
LEMMA OthersExact ==
  ASSUME TypeOK, ExactInv, NEW r \in Reader, NEW x, Moves(r, x), Exact(x)',
         UNCHANGED <<version, unsure, wiping>>,
         \/ parts' = parts
         \/ /\ read[r].at \in Locked
            /\ \A b \in DOMAIN parts' : b # Block(r) => b \in DOMAIN parts /\ parts'[b] = parts[b]
  PROVE  \A q \in Reader : Exact(read[q])'
<1> SUFFICES ASSUME NEW q \in Reader, q # r PROVE Exact(read[q])'
  BY DEF Moves, TypeOK
<1>1. read'[q] = read[q] /\ Exact(read[q])
  BY DEF Moves, TypeOK, ExactInv
<1>2. Held(read[q])'
  BY <1>1 DEF Exact, Held, CurrentKey, Current
<1>3. Going(read[q])'
  BY <1>1 DEF Exact, Going, Upto, From, Source, Answer, First
<1>4. Part(read[q])'
  <2>1. read[q].at = "rename" /\ read[r].at \in Locked => Block(q) # Block(r)
    BY DEF ExactInv, LockInv, Locked
  <2> QED BY <1>1, <2>1 DEF Exact, Part, Block
<1> QED BY <1>1, <1>2, <1>3, <1>4 DEF Exact

(* What a step that only goes on within a block keeps. *)
Within(e, x) ==
  /\ e.at \notin {"idle", "answer"} /\ x.at \notin {"idle", "answer"}
  /\ x.key = e.key /\ x.start = e.start /\ x.end = e.end /\ x.index = e.index
  /\ x.out = e.out /\ x.sure = e.sure

LEMMA WithinGoes ==
  ASSUME NEW r \in Reader, NEW x, Exact(read[r]), Within(read[r], x), UNCHANGED <<version, unsure>>
  PROVE  Going(x)'
BY DEF Exact, Going, Within, Upto, From, Source, First

LEMMA GotoIs ==
  ASSUME TypeOK, NEW r \in Reader, ~At(r, "idle"), ~At(r, "answer"), NEW a \in Stage \ {"idle", "answer"},
         Goto(r, a)
  PROVE  \E x \in ReadType : /\ Moves(r, x) /\ Within(read[r], x) /\ x.at = a /\ x.data = read[r].data
<1>1. PICK x \in ReadType : x = [read[r] EXCEPT !.at = a] /\ Moves(r, x)
  BY GotoMoves
<1>2. read[r] \in ReadType
  BY BlockIs
<1> QED BY <1>1, <1>2 DEF ReadType, Within, At

LEMMA DataIs ==
  ASSUME TypeOK, NEW r \in Reader, ~At(r, "idle"), ~At(r, "answer"), NEW a \in Stage \ {"idle", "answer"},
         NEW d \in Seq(Byte), read' = [read EXCEPT ![r] = [read[r] EXCEPT !.at = a, !.data = d]]
  PROVE  \E x \in ReadType : /\ Moves(r, x) /\ Within(read[r], x) /\ x.at = a /\ x.data = d
<1>1. PICK x \in ReadType : x = [read[r] EXCEPT !.at = a, !.data = d] /\ Moves(r, x)
  BY DataMoves
<1>2. read[r] \in ReadType
  BY BlockIs
<1> QED BY <1>1, <1>2 DEF ReadType, Within, At

(* The block of a sure reader is of the version its files are of. *)
LEMMA SureBlock ==
  ASSUME TypeOK, ExactInv, NEW r \in Reader, ~At(r, "idle"), read[r].sure, Block(r) \in DOMAIN blocks
  PROVE  blocks[Block(r)] = Current(read[r].key, read[r].index)
<1>1. read[r].key \in Key /\ read[r].key \notin unsure
  BY BlockIs DEF ExactInv, Exact, Going
<1> QED BY <1>1 DEF ExactInv, CacheInv, CurrentBlock, Block

LEMMA Division ==
  ASSUME NEW n \in Nat
  PROVE  /\ n \div BlockSize \in Nat /\ n % BlockSize \in 0 .. BlockSize - 1
         /\ n = (n \div BlockSize) * BlockSize + (n % BlockSize)
<1>1. BlockSize \in Nat /\ BlockSize > 0
  BY BlockCacheAssumption
<1>2. n \div BlockSize \in Nat
  BY <1>1
<1>3. n % BlockSize \in 0 .. BlockSize - 1
  BY <1>1
<1>4. n = (n \div BlockSize) * BlockSize + (n % BlockSize)
  BY <1>1
<1> QED BY <1>2, <1>3, <1>4

LEMMA NextEdge ==
  ASSUME NEW i \in Nat
  PROVE  i * BlockSize \in Nat /\ (i + 1) * BlockSize = i * BlockSize + BlockSize
BY BlockCacheAssumption

(* The piece of s between two places. *)
LEMMA Piece ==
  ASSUME NEW s \in Seq(Byte), NEW a \in Nat, NEW b \in 0 .. Len(s)
  PROVE  /\ SubSeq(s, a + 1, b) \in Seq(Byte)
         /\ Len(SubSeq(s, a + 1, b)) = IF a < b THEN b - a ELSE 0
         /\ \A n \in 1 .. b - a : SubSeq(s, a + 1, b)[n] = s[a + n]
         /\ b <= a => SubSeq(s, a + 1, b) = <<>>
<1>0. Len(s) \in Nat
  BY LenProperties
<1>1. \A n \in a + 1 .. b : s[n] \in Byte
  BY <1>0, ElementOfSeq
<1>2. /\ SubSeq(s, a + 1, b) \in Seq(Byte)
      /\ Len(SubSeq(s, a + 1, b)) = IF a + 1 <= b THEN b - (a + 1) + 1 ELSE 0
      /\ \A n \in 1 .. b - (a + 1) + 1 : SubSeq(s, a + 1, b)[n] = s[a + 1 + n - 1]
  BY <1>0, <1>1, SubSeqProperties
<1>3. b <= a => SubSeq(s, a + 1, b) = <<>>
  BY <1>0, SubSeqEmpty
<1> QED BY <1>0, <1>2, <1>3

LEMMA PieceOfPiece ==
  ASSUME NEW s \in Seq(Byte), NEW a \in Nat, NEW b \in 0 .. Len(s), NEW c \in Nat,
         NEW d \in 0 .. Len(SubSeq(s, a + 1, b))
  PROVE  SubSeq(SubSeq(s, a + 1, b), c + 1, d) = SubSeq(s, a + c + 1, a + d)
<1> DEFINE p == SubSeq(s, a + 1, b)
<1>0. Len(s) \in Nat
  BY LenProperties
<1>1. /\ p \in Seq(Byte) /\ Len(p) = IF a < b THEN b - a ELSE 0
      /\ \A n \in 1 .. b - a : p[n] = s[a + n]
  BY Piece
<1>2. d \in 0 .. Len(p)
  OBVIOUS
<1> HIDE DEF p
<1>3. /\ SubSeq(p, c + 1, d) \in Seq(Byte) /\ Len(SubSeq(p, c + 1, d)) = IF c < d THEN d - c ELSE 0
      /\ \A n \in 1 .. d - c : SubSeq(p, c + 1, d)[n] = p[c + n]
      /\ d <= c => SubSeq(p, c + 1, d) = <<>>
  BY <1>1, <1>2, Piece
<1>4. CASE d <= c
  <2>1. SubSeq(s, a + c + 1, a + d) = <<>>
    BY <1>0, <1>1, <1>2, <1>4, SubSeqEmpty
  <2> QED BY <1>3, <1>4, <2>1 DEF p
<1>5. CASE c < d
  <2>1. a + d \in 0 .. Len(s) /\ a + c \in Nat /\ a < b /\ d <= b - a
    BY <1>0, <1>1, <1>2, <1>5
  <2>2. /\ SubSeq(s, a + c + 1, a + d) \in Seq(Byte)
        /\ Len(SubSeq(s, a + c + 1, a + d)) = IF a + c < a + d THEN (a + d) - (a + c) ELSE 0
        /\ \A n \in 1 .. (a + d) - (a + c) : SubSeq(s, a + c + 1, a + d)[n] = s[a + c + n]
    BY <2>1, Piece
  <2>3. Len(SubSeq(s, a + c + 1, a + d)) = d - c /\ Len(SubSeq(p, c + 1, d)) = d - c
    BY <1>0, <1>1, <1>2, <1>3, <1>5, <2>1, <2>2
  <2>4. ASSUME NEW n \in 1 .. d - c PROVE SubSeq(p, c + 1, d)[n] = SubSeq(s, a + c + 1, a + d)[n]
    <3>1. n \in 1 .. (a + d) - (a + c) /\ c + n \in 1 .. b - a /\ a + (c + n) = a + c + n
      BY <1>0, <1>1, <1>2, <1>5, <2>1
    <3> QED BY <1>1, <1>3, <2>2, <3>1
  <2>5. SubSeq(p, c + 1, d) = SubSeq(s, a + c + 1, a + d)
    BY <1>3, <2>2, <2>3, <2>4, SeqEqual
  <2> QED BY <2>5 DEF p
<1>6. d <= c \/ c < d
  BY <1>0, <1>1, <1>2
<1> QED BY <1>4, <1>5, <1>6

LEMMA PrefixOfPiece ==
  ASSUME NEW s \in Seq(Byte), NEW a \in Nat, NEW b \in 0 .. Len(s), NEW m \in a .. b
  PROVE  SubSeq(SubSeq(s, a + 1, b), 1, m - a) = SubSeq(s, a + 1, m)
<1>1. Len(s) \in Nat /\ Len(SubSeq(s, a + 1, b)) = (IF a < b THEN b - a ELSE 0)
  BY LenProperties, Piece
<1>2. m - a \in 0 .. Len(SubSeq(s, a + 1, b)) /\ 0 \in Nat
  BY <1>1
<1>3. SubSeq(SubSeq(s, a + 1, b), 0 + 1, m - a) = SubSeq(s, a + 0 + 1, a + (m - a))
  BY <1>2, PieceOfPiece
<1>4. 0 + 1 = 1 /\ a + 0 + 1 = a + 1 /\ a + (m - a) = m
  OBVIOUS
<1> QED BY <1>3, <1>4

(* A piece from st to c + off, and the part after off of the piece from c to t. *)
LEMMA Pieces ==
  ASSUME NEW s \in Seq(Byte), NEW st \in Nat, NEW c \in Nat, NEW off \in Nat, NEW t \in 0 .. Len(s),
         st <= c + off, c + off = st \/ c + off <= t
  PROVE  LET data == SubSeq(s, c + 1, t)
         IN SubSeq(s, st + 1, c + off) \o SubSeq(data, off + 1, Len(data)) = SubSeq(s, st + 1, t)
<1> DEFINE data == SubSeq(s, c + 1, t)
<1>0. Len(s) \in Nat
  BY LenProperties
<1>1. data \in Seq(Byte) /\ Len(data) = IF c < t THEN t - c ELSE 0
  BY Piece
<1>2. CASE c + off <= t
  <2>1. Len(data) = t - c
    BY <1>0, <1>1, <1>2
  <2>2. SubSeq(data, off + 1, Len(data)) = SubSeq(s, c + off + 1, c + Len(data))
    BY <1>0, <1>1, PieceOfPiece
  <2>3. c + Len(data) = t
    BY <1>0, <2>1
  <2>4. SubSeq(s, st + 1, c + off) \o SubSeq(s, c + off + 1, t) = SubSeq(s, st + 1, t)
    <3>1. st + 1 \in 1 .. Len(s) + 1 /\ c + off \in st + 1 - 1 .. Len(s) /\ t \in c + off .. Len(s)
      BY <1>0, <1>2
    <3> QED BY <3>1, ConcatAdjacentSubSeq
  <2> QED BY <2>2, <2>3, <2>4
<1>3. CASE c + off > t
  <2>1. c + off = st
    BY <1>0, <1>3
  <2>2. SubSeq(s, st + 1, c + off) = <<>>
    BY <2>1, SubSeqEmpty
  <2>3. SubSeq(data, off + 1, Len(data)) = <<>>
    <3>1. Len(data) < off + 1 /\ Len(data) \in Int
      BY <1>0, <1>1, <1>3
    <3> HIDE DEF data
    <3> QED BY <3>1, SubSeqEmpty
  <2>4. SubSeq(s, st + 1, t) = <<>>
    BY <1>0, <1>3, <2>1, SubSeqEmpty
  <2> HIDE DEF data
  <2>5. <<>> \o <<>> = <<>>
    OBVIOUS
  <2> QED BY <2>2, <2>3, <2>4, <2>5 DEF data
<1> QED BY <1>0, <1>2, <1>3

LEMMA ReadRangeGoes ==
  ASSUME TypeOK, NEW r \in Reader, NEW k \in Key, NEW e \in Ranges, ReadRange(r, k, e[1], e[2])
  PROVE  \E x \in ReadType : Moves(r, x) /\ Exact(x)' /\ x.at = "look"
<1>1. PICK x \in ReadType :
        /\ x.at = "look" /\ x.key = k /\ x.start = e[1] /\ x.end = e[2]
        /\ x.index = e[1] \div BlockSize /\ x.out = <<>> /\ x.sure = (k \notin unsure)
        /\ Moves(r, x)
  BY ReadRangeMoves
<1>2. e[1] \in Nat /\ (e[2] = -1 \/ e[1] <= e[2]) /\ unsure' = unsure
  BY BlockCacheAssumption DEF ReadRange
<1>3. \A s : SubSeq(s, e[1] + 1, e[1]) = <<>>
  BY <1>2, SubSeqEmpty
<1>4. Upto(x)'
  BY <1>1, <1>3 DEF Upto, From, First
<1>5. Going(x)'
  BY <1>1, <1>2, <1>4 DEF Going
<1>6. Held(x)' /\ Part(x)'
  BY <1>1 DEF Held, Part
<1> QED BY <1>1, <1>5, <1>6 DEF Exact

(* A block is appended: what was read goes up to its end, or to where the range
   ends; after the last block the source ends too. *)
LEMMA JoinGoes ==
  ASSUME TypeOK, ExactInv, NEW r \in Reader, Join(r)
  PROVE  \E x \in ReadType : Moves(r, x) /\ Exact(x)' /\ x.at \in {"answer", "look"}
<1> DEFINE e == read[r]
           out == JoinedOut(e, Offset(r))
           full == JoinedFull(e, out)
           done == JoinedDone(e, out)
<1>1. PICK x \in ReadType :
        /\ x.at = IF done THEN "answer" ELSE "look"
        /\ x.index = IF done THEN e.index ELSE e.index + 1
        /\ x.out = IF full THEN SubSeq(out, 1, e.end - e.start) ELSE out
        /\ x.key = e.key /\ x.start = e.start /\ x.end = e.end /\ x.sure = e.sure
        /\ Moves(r, x)
  BY JoinMoves
<1>2. e.at = "have" /\ UNCHANGED <<version, unsure, wiping, parts>>
  BY DEF Join, At, files
<1>3. /\ e.key \in Key /\ e.index \in Nat /\ e.start \in Nat /\ e.end \in Nat \cup {-1}
      /\ e.end = -1 \/ e.start <= e.end
      /\ version[e.key] \in 1 .. Len(Length) /\ Exact(e)
  <2>1. e \in ReadType /\ e.key \in Key /\ e.index \in Nat
    BY <1>2, BlockIs DEF At
  <2>2. e.start \in Nat /\ e.end \in Nat \cup {-1}
    BY <2>1 DEF ReadType
  <2>3. Exact(e)
    BY DEF ExactInv
  <2>4. e.end = -1 \/ e.start <= e.end
    BY <1>2, <2>3 DEF Exact, Going
  <2>5. version[e.key] \in 1 .. Len(Length)
    BY <2>1 DEF TypeOK
  <2> QED BY <2>1, <2>2, <2>3, <2>4, <2>5
<1>4. Held(x)' /\ Part(x)'
  BY <1>1 DEF Held, Part
<1>5. ASSUME ~e.sure PROVE Going(x)'
  BY <1>1, <1>2, <1>3, <1>5 DEF Going
<1>6. ASSUME e.sure PROVE Going(x)'
  <2> DEFINE s == Source(e)
             L == Len(s)
             B == BlockSize
             c == e.index * BlockSize
             st == e.start
             off == Offset(r)
             t == To(e.key, version[e.key], e.index)
             d == e.data
  <2>1. s \in Seq(Byte) /\ L \in Nat /\ t \in 0 .. L /\ d = SubSeq(s, c + 1, t)
    <3>1. /\ Length[version[e.key]] \in Nat /\ t \in 0 .. Length[version[e.key]]
          /\ s \in Seq(Byte) /\ L = Length[version[e.key]]
          /\ Current(e.key, e.index) = SubSeq(s, c + 1, t)
      BY <1>3, ChunkIs DEF Source, Current
    <3>2. d = Current(e.key, e.index)
      BY <1>2, <1>3, <1>6 DEF Exact, Held
    <3> QED BY <3>1, <3>2
  <2>2. B \in Nat /\ B > 0 /\ c \in Nat /\ (e.index + 1) * B = c + B
    BY <1>3, BlockCacheAssumption, NextEdge
  <2>3. t = IF c + B <= L THEN c + B ELSE L
    <3>1. L = Length[version[e.key]]
      BY <1>3, ChunkIs DEF Source
    <3> QED BY <2>2, <3>1 DEF To
  <2>4. e.key \notin unsure /\ Upto(e)
    BY <1>2, <1>3, <1>6 DEF Exact, Going
  <2>5. /\ off \in 0 .. B - 1 /\ From(e) = c + off /\ st <= c + off
        /\ c + off = st \/ (c + off <= t /\ (e.end = -1 \/ c + off < e.end) /\ off = 0)
        /\ e.out = SubSeq(s, st + 1, c + off)
    <3>1. CASE e.index = First(e)
      <4>1. off = st % B /\ From(e) = st
        BY <3>1 DEF Offset, First, From
      <4>2. st = c + (st % B) /\ st % B \in 0 .. B - 1
        BY <1>3, <3>1, Division DEF First
      <4>3. e.out = SubSeq(s, st + 1, st)
        BY <2>4, <4>1 DEF Upto
      <4> HIDE DEF c, s, off, t
      <4>4. c + off = st /\ off \in 0 .. B - 1
        BY <4>1, <4>2
      <4>5. st <= c + off
        BY <1>3, <4>4
      <4> QED BY <4>1, <4>3, <4>4, <4>5
    <3>2. CASE e.index # First(e)
      <4>1. off = 0 /\ From(e) = c
        BY <3>2 DEF Offset, First, From
      <4>2. st < c /\ c <= L /\ (e.end = -1 \/ c < e.end) /\ e.out = SubSeq(s, st + 1, c)
        BY <2>4, <3>2, <4>1 DEF Upto
      <4>3. c <= t
        BY <2>1, <2>2, <2>3, <4>2
      <4> HIDE DEF c, s, off, t
      <4>4. c + off = c /\ off \in 0 .. B - 1 /\ st <= c
        BY <1>3, <2>2, <4>1, <4>2
      <4> QED BY <4>1, <4>2, <4>3, <4>4
    <3> QED BY <3>1, <3>2
  <2> HIDE DEF s, c, off, t, d
  <2>6. out = SubSeq(s, st + 1, t)
    <3>1. out = SubSeq(s, st + 1, c + off) \o SubSeq(d, off + 1, Len(d))
      BY <2>5 DEF JoinedOut, off, d
    <3>2. off \in Nat /\ (c + off = st \/ c + off <= t) /\ st \in Nat
      BY <1>3, <2>2, <2>5
    <3>3. SubSeq(s, st + 1, c + off) \o SubSeq(SubSeq(s, c + 1, t), off + 1, Len(SubSeq(s, c + 1, t)))
            = SubSeq(s, st + 1, t)
      <4>1. s \in Seq(Byte) /\ st \in Nat /\ c \in Nat /\ off \in Nat /\ t \in 0 .. Len(s)
        BY <2>1, <2>2, <3>2
      <4>2. st <= c + off /\ (c + off = st \/ c + off <= t)
        BY <2>5
      <4> QED BY ONLY ZenonT(60), <4>1, <4>2, Pieces
    <3> QED BY <2>1, <3>1, <3>3
  <2> HIDE DEF out
  <2>7. /\ out \in Seq(Byte) /\ Len(out) = IF st < t THEN t - st ELSE 0
        /\ t <= st => out = <<>>
    <3>1. st \in Nat /\ t \in 0 .. Len(s)
      BY <1>3, <2>1
    <3>2. /\ SubSeq(s, st + 1, t) \in Seq(Byte)
          /\ Len(SubSeq(s, st + 1, t)) = IF st < t THEN t - st ELSE 0
          /\ t <= st => SubSeq(s, st + 1, t) = <<>>
      BY <2>1, <3>1, Piece
    <3> QED BY <2>6, <3>2
  <2>8. Len(d) = (IF c < t THEN t - c ELSE 0) /\ d \in Seq(Byte)
    BY <2>1, <2>2, Piece
  <2>9. d = <<>> <=> t <= c
    <3>1. d = <<>> <=> Len(d) = 0
      BY <2>8, EmptySeq
    <3> QED BY <2>1, <2>2, <2>8, <3>1
  <2>10. Source(x)' = s
    BY <1>1, <1>2 DEF Source, s
  <2>11. full <=> d # <<>> /\ e.end # -1 /\ Len(out) + st >= e.end
    BY DEF JoinedFull, d
  <2>12. done <=> full \/ Len(d) < B
    BY DEF JoinedDone, d
  <2> HIDE DEF full, done
  <2>13. ASSUME full PROVE Answer(x)'
    <3>1. x.out = SubSeq(out, 1, e.end - st)
      BY <1>1, <2>13
    <3>2. e.end \in Nat /\ st <= e.end /\ e.end # -1
      BY <1>3, <2>11, <2>13
    <3>3. Min({e.end, L}) = IF e.end <= L THEN e.end ELSE L
      BY <2>1, <3>2, MinOfTwo
    <3>4. CASE t <= st
      <4>1. e.end = st /\ out = <<>>
        BY <1>3, <2>1, <2>7, <2>11, <2>13, <3>2, <3>4
      <4>2. x.out = <<>>
        <5>1. e.end - st = 0
          BY <1>3, <4>1
        <5> QED BY <3>1, <5>1, SubSeqEmpty
      <4>3. SubSeq(s, st + 1, Min({e.end, L})) = <<>>
        <5>1. Min({e.end, L}) < st + 1 /\ Min({e.end, L}) \in Int
          BY <1>3, <2>1, <3>2, <3>3, <4>1
        <5> QED BY <1>3, <5>1, SubSeqEmpty
      <4> QED BY <1>1, <2>10, <3>2, <4>2, <4>3 DEF Answer
    <3>5. CASE st < t
      <4>1. e.end <= t /\ e.end - st \in 0 .. Len(out)
        <5>1. Len(out) = t - st /\ Len(out) + st >= e.end
          BY <2>7, <2>11, <2>13, <3>5
        <5> QED BY SMTT(30), <1>3, <2>1, <3>2, <3>5, <5>1
      <4>2. SubSeq(out, 1, e.end - st) = SubSeq(s, st + 1, e.end)
        <5>1. s \in Seq(Byte) /\ st \in Nat /\ t \in 0 .. Len(s) /\ e.end \in st .. t
          BY <1>3, <2>1, <3>2, <4>1
        <5>2. SubSeq(SubSeq(s, st + 1, t), 1, e.end - st) = SubSeq(s, st + 1, e.end)
          BY ONLY <5>1, PrefixOfPiece
        <5> QED BY <2>6, <5>2
      <4>3. Min({e.end, L}) = e.end
        BY <2>1, <3>2, <3>3, <4>1
      <4> QED BY <1>1, <2>10, <3>1, <3>2, <4>2, <4>3 DEF Answer
    <3> QED BY <1>3, <2>1, <3>4, <3>5
  <2>14. ASSUME ~full, done PROVE Answer(x)'
    <3>1. x.out = SubSeq(s, st + 1, t)
      BY <1>1, <2>6, <2>14
    <3>2. t = L \/ (t <= c /\ c + off = st)
      BY <2>1, <2>2, <2>3, <2>8, <2>12, <2>14
    <3>3. t = L
      BY <2>1, <2>2, <2>3, <2>8, <2>12, <2>14
    <3>4. CASE x.end = -1
      BY <1>1, <2>10, <3>1, <3>3, <3>4 DEF Answer
    <3>5. CASE x.end # -1
      <4>1. e.end \in Nat /\ e.end # -1 /\ st <= e.end /\ x.end = e.end /\ x.start = st
        BY <1>1, <1>3, <3>5
      <4>2. Min({e.end, L}) = IF e.end <= L THEN e.end ELSE L
        BY <2>1, <4>1, MinOfTwo
      <4>3. SubSeq(s, st + 1, Min({e.end, L})) = SubSeq(s, st + 1, L)
        <5>1. CASE L <= st
          <6>1. SubSeq(s, st + 1, L) = <<>>
            BY <1>3, <2>1, <5>1, SubSeqEmpty
          <6>2. Min({e.end, L}) < st + 1 /\ Min({e.end, L}) \in Int
            BY <1>3, <2>1, <4>1, <4>2, <5>1
          <6>3. SubSeq(s, st + 1, Min({e.end, L})) = <<>>
            BY <1>3, <6>2, SubSeqEmpty
          <6> QED BY <6>1, <6>3
        <5>2. CASE st < L
          <6>1. L < e.end \/ L = e.end
            <7>1. CASE d = <<>>
              BY SMTT(30), <1>3, <2>1, <2>2, <2>5, <2>9, <3>3, <4>1, <5>2, <7>1
            <7>2. CASE d # <<>>
              BY SMTT(30), <1>3, <2>1, <2>7, <2>11, <2>14, <3>3, <4>1, <5>2, <7>2
            <7> QED BY <7>1, <7>2
          <6>2. Min({e.end, L}) = L
            BY <2>1, <4>1, <4>2, <6>1
          <6> QED BY <6>2
        <5>3. L <= st \/ st < L
          BY <1>3, <2>1
        <5> QED BY <5>1, <5>2, <5>3
      <4> QED BY <2>10, <3>1, <3>3, <4>1, <4>3 DEF Answer
    <3> QED BY <3>4, <3>5
  <2>15. ASSUME ~done PROVE Upto(x)'
    <3>1. /\ x.out = SubSeq(s, st + 1, t) /\ x.index = e.index + 1 /\ x.start = st /\ x.end = e.end
      BY <1>1, <2>6, <2>12, <2>15
    <3>2. t = c + B /\ c + B <= L /\ d # <<>>
      BY <2>1, <2>2, <2>3, <2>8, <2>9, <2>12, <2>15
    <3>3. st < t
      BY <1>3, <2>1, <2>2, <2>5, <3>2
    <3>4. e.end = -1 \/ t < e.end
      BY <1>3, <2>1, <2>7, <2>11, <2>12, <2>15, <3>2, <3>3
    <3>5. x.index * BlockSize = t
      BY <2>2, <3>1, <3>2
    <3>6. From(x) = t
      <4>1. x.index # First(x)
        <5>1. First(x) * BlockSize <= st
          <6>1. /\ st = First(x) * BlockSize + (st % BlockSize) /\ st % BlockSize \in 0 .. BlockSize - 1
                /\ First(x) \in Nat
            BY <1>3, <3>1, Division DEF First
          <6>2. First(x) * BlockSize \in Nat
            BY <6>1, NextEdge
          <6> QED BY <1>3, <2>2, <6>1, <6>2
        <5> QED BY <1>3, <2>1, <3>3, <3>5, <5>1
      <4> QED BY <3>5, <4>1 DEF From
    <3> QED BY <2>10, <3>1, <3>2, <3>3, <3>4, <3>5, <3>6 DEF Upto, From, First
  <2>16. x.end = -1 \/ x.start <= x.end
    BY <1>1, <1>3
  <2> QED BY <1>1, <1>2, <2>4, <2>12, <2>13, <2>14, <2>15, <2>16 DEF Going
<1> QED BY <1>1, <1>4, <1>5, <1>6 DEF Exact

LEMMA CacheKeeps ==
  ASSUME CacheInv, UNCHANGED <<version, unsure, wiping>>,
         \A b \in DOMAIN blocks' : b \in DOMAIN blocks /\ blocks'[b] = blocks[b]
  PROVE  CacheInv'
BY DEF CacheInv, CurrentBlock, CurrentKey, Current

(* A step of a reader that puts nothing. *)
LEMMA ReaderKeeps ==
  ASSUME TypeOK, ExactInv, NEW r \in Reader, NEW x, Moves(r, x), Exact(x)',
         UNCHANGED <<version, unsure, wiping, parts>>,
         Takes(r, x) \/ Keeps(r, x) \/ Gives(r, x) \/ Unlocked(r, x),
         \A b \in DOMAIN blocks' : b \in DOMAIN blocks /\ blocks'[b] = blocks[b]
  PROVE  ExactInv'
<1>1. LockInv'
  BY LockMoves DEF ExactInv
<1>2. CacheInv'
  BY CacheKeeps DEF ExactInv
<1>3. \A q \in Reader : Exact(read[q])'
  BY OthersExact
<1> QED BY <1>1, <1>2, <1>3 DEF ExactInv

(* One that goes on within a block, holding or not what it held. *)
LEMMA WithinKeeps ==
  ASSUME TypeOK, ExactInv, NEW r \in Reader, NEW x, Moves(r, x), Within(read[r], x),
         UNCHANGED <<version, unsure, wiping, parts>>,
         Takes(r, x) \/ Keeps(r, x) \/ Gives(r, x) \/ Unlocked(r, x),
         \A b \in DOMAIN blocks' : b \in DOMAIN blocks /\ blocks'[b] = blocks[b],
         Held(x), x.at # "rename"
  PROVE  ExactInv'
<1>1. Going(x)'
  BY WithinGoes DEF ExactInv
<1>2. Held(x)' /\ Part(x)'
  BY DEF Held, Part, CurrentKey, Current
<1> QED BY <1>1, <1>2, ReaderKeeps DEF Exact

LEMMA GiveUpKeeps ==
  ASSUME TypeOK, ExactInv, NEW r \in Reader, read' = [read EXCEPT ![r] = Idle],
         UNCHANGED <<version, unsure, wiping, parts, blocks>>,
         Gives(r, Idle) \/ Unlocked(r, Idle)
  PROVE  ExactInv'
BY IdleMoves, IdleExact, ReaderKeeps

LEMMA WithoutIs ==
  ASSUME NEW f, NEW S, NEW g, g = Without(f, S)
  PROVE  \A c \in DOMAIN g : c \in DOMAIN f /\ c \notin S /\ g[c] = f[c]
BY DEF Without

LEMMA WriteExact ==
  ASSUME TypeOK, ExactInv, NEW r \in Reader, Write(r)
  PROVE  ExactInv'
<1>1. /\ read[r].at = "write" /\ UNCHANGED <<version, blocks, locks, unsure, wiping>>
      /\ parts' = Put(parts, Block(r), read[r].data) /\ Goto(r, "rename")
  BY DEF Write, At
<1>2. PICK x \in ReadType : /\ Moves(r, x) /\ Within(read[r], x) /\ x.at = "rename" /\ x.data = read[r].data
  BY <1>1, GotoIs DEF At, Stage, Locked
<1>3. Block(r) \in Slot /\ read[r].data \in Seq(Byte)
  BY <1>1, BlockIs DEF At
<1>4. /\ parts'[Block(r)] = read[r].data
      /\ \A b \in DOMAIN parts' : b # Block(r) => b \in DOMAIN parts /\ parts'[b] = parts[b]
  <2> DEFINE b == Block(r)
             d == read[r].data
  <2>1. parts' = [y \in DOMAIN parts \cup {b} |-> IF y = b THEN d ELSE parts[y]]
    BY <1>1 DEF Put
  <2> HIDE DEF b, d
  <2>2. parts'[b] = d /\ \A c \in DOMAIN parts' : c # b => c \in DOMAIN parts /\ parts'[c] = parts[c]
    BY ONLY <2>1
  <2> QED BY <2>2 DEF b, d
<1>5. Exact(read[r])
  BY DEF ExactInv
<1>6. Held(x)'
  BY <1>1, <1>2, <1>5 DEF Held, Within, Exact, CurrentKey, Current
<1>7. Part(x)'
  BY <1>2, <1>4 DEF Part, Within, Block
<1>8. Going(x)'
  BY <1>1, <1>2, <1>5, WithinGoes
<1>9. Keeps(r, x)
  BY <1>1, <1>2 DEF Keeps, Within, Locked
<1>10. LockInv'
  BY <1>2, <1>9, LockMoves DEF ExactInv
<1>11. CacheInv'
  BY <1>1, CacheKeeps DEF ExactInv
<1>12. \A q \in Reader : Exact(read[q])'
  BY <1>1, <1>2, <1>4, <1>6, <1>7, <1>8, OthersExact DEF Exact, Locked
<1> QED BY <1>10, <1>11, <1>12 DEF ExactInv

(* What is renamed is what its writer put, and of the version if the source's
   files are: nobody else writes the part of a block that is locked. *)
LEMMA RenameExact ==
  ASSUME TypeOK, ExactInv, NEW r \in Reader, Rename(r)
  PROVE  ExactInv'
<1> DEFINE b == Block(r)
<1>1. /\ read[r].at = "rename" /\ UNCHANGED <<version, locks, unsure, wiping>> /\ b \in DOMAIN parts
      /\ blocks' = Put(blocks, b, parts[b]) /\ parts' = Without(parts, {b}) /\ Goto(r, "evict")
  BY DEF Rename, At
<1>2. PICK x \in ReadType : /\ Moves(r, x) /\ Within(read[r], x) /\ x.at = "evict" /\ x.data = read[r].data
  BY <1>1, GotoIs DEF At, Stage, Locked
<1>3. b \in Slot /\ parts[b] \in Seq(Byte) /\ b[1] = read[r].key /\ b[2] = read[r].index
  BY <1>1, BlockIs DEF At, TypeOK, FilesType, Block
<1>4. /\ DOMAIN blocks' = DOMAIN blocks \cup {b} /\ blocks'[b] = parts[b]
      /\ \A c \in DOMAIN blocks' : c # b => c \in DOMAIN blocks /\ blocks'[c] = blocks[c]
  <2> DEFINE d == parts[b]
  <2>1. blocks' = [y \in DOMAIN blocks \cup {b} |-> IF y = b THEN d ELSE blocks[y]]
    BY <1>1 DEF Put
  <2> HIDE DEF b, d
  <2>2. /\ DOMAIN blocks' = DOMAIN blocks \cup {b} /\ blocks'[b] = d
        /\ \A c \in DOMAIN blocks' : c # b => c \in DOMAIN blocks /\ blocks'[c] = blocks[c]
    BY ONLY <2>1
  <2> QED BY <2>2 DEF b, d
<1>5. \A c \in DOMAIN parts' : c \in DOMAIN parts /\ parts'[c] = parts[c]
  BY <1>1, WithoutIs
<1>6. Exact(read[r])
  BY DEF ExactInv
<1>7. parts[b] = read[r].data /\ (CurrentKey(read[r].key) => read[r].data = Current(read[r].key, read[r].index))
  BY <1>1, <1>6 DEF Exact, Part, Held, Block
<1>8. Exact(x)'
  <2>1. Held(x)'
    BY <1>1, <1>2, <1>6 DEF Held, Within, Exact, CurrentKey, Current
  <2>2. Part(x)'
    BY <1>2 DEF Part
  <2>3. Going(x)'
    BY <1>1, <1>2, <1>6, WithinGoes
  <2> QED BY <2>1, <2>2, <2>3 DEF Exact
<1>9. LockInv'
  <2>1. Keeps(r, x)
    BY <1>1, <1>2 DEF Keeps, Within, Locked
  <2> QED BY <1>2, <2>1, LockMoves DEF ExactInv
<1>10. CacheInv'
  <2>1. ASSUME NEW c \in DOMAIN blocks', CurrentBlock(c)'
        PROVE  blocks'[c] = Current(c[1], c[2])'
    <3>1. CurrentKey(c[1]) /\ CurrentBlock(c) /\ Current(c[1], c[2])' = Current(c[1], c[2])
      BY <1>1, <2>1 DEF CurrentBlock, CurrentKey, Current
    <3>2. CASE c = b
      BY <1>3, <1>4, <1>7, <3>1, <3>2
    <3>3. CASE c # b
      BY <1>4, <3>1, <3>3 DEF ExactInv, CacheInv
    <3> QED BY <3>2, <3>3
  <2> QED BY <1>1, <2>1 DEF ExactInv, CacheInv
<1>11. \A q \in Reader : Exact(read[q])'
  BY <1>1, <1>2, <1>5, <1>8, OthersExact DEF Locked
<1> QED BY <1>9, <1>10, <1>11 DEF ExactInv

LEMMA ExactReader ==
  ASSUME TypeOK, ExactInv, NEW r \in Reader,
         \/ \E k \in Key, e \in Ranges : ReadRange(r, k, e[1], e[2])
         \/ Look(r) \/ Open(r) \/ Lock(r) \/ Again(r) \/ Take(r)
         \/ Fetch(r) \/ FetchFails(r) \/ Write(r) \/ WriteFails(r) \/ Rename(r)
         \/ List(r) \/ ListFails(r) \/ RemoveOldest(r) \/ RemoveFails(r) \/ Join(r) \/ Leave(r)
  PROVE  ExactInv'
<1> DEFINE Same == UNCHANGED <<version, unsure, wiping, parts>>
<1>1. Exact(read[r])
  BY DEF ExactInv
<1>3. ASSUME NEW k \in Key, NEW e \in Ranges, ReadRange(r, k, e[1], e[2]) PROVE ExactInv'
  <2>1. PICK x \in ReadType : Moves(r, x) /\ Exact(x)' /\ x.at = "look"
    BY <1>3, ReadRangeGoes
  <2>2. Same /\ UNCHANGED <<blocks, locks>> /\ Unlocked(r, x)
    BY <1>3, <2>1 DEF ReadRange, files, At, Unlocked, Locked
  <2> QED BY <2>1, <2>2, ReaderKeeps
<1>4. ASSUME Look(r) PROVE ExactInv'
  <2>1. PICK x \in ReadType, a \in {"open", "lock"}, n \in Nat :
          x = [read[r] EXCEPT !.at = a, !.size = n] /\ Moves(r, x)
    BY <1>4, LookMoves
  <2>2. Same /\ UNCHANGED <<blocks, locks>> /\ read[r].at = "look"
    BY <1>4 DEF Look, files, At
  <2>3. x.at = a /\ Within(read[r], x)
    BY <2>1, <2>2, BlockIs DEF ReadType, Within, At
  <2>4. Held(x) /\ Unlocked(r, x)
    BY <2>2, <2>3 DEF Held, Unlocked, Locked
  <2> QED BY <2>1, <2>2, <2>3, <2>4, WithinKeeps
<1>5. ASSUME Open(r) PROVE ExactInv'
  <2>1. Same /\ UNCHANGED <<blocks, locks>> /\ read[r].at = "open"
    BY <1>5 DEF Open, At
  <2>2. CASE read' = [read EXCEPT ![r] = Idle]
    BY <2>1, <2>2, GiveUpKeeps, IdleIs DEF Unlocked, Locked
  <2>3. CASE /\ Block(r) \in DOMAIN blocks
             /\ read' = [read EXCEPT ![r].at = "have", ![r].data = blocks[Block(r)]]
    <3>1. read' = [read EXCEPT ![r] = [read[r] EXCEPT !.at = "have", !.data = blocks[Block(r)]]]
      BY <2>3
    <3>2. blocks[Block(r)] \in Seq(Byte)
      BY <2>3 DEF TypeOK, FilesType
    <3>3. PICK x \in ReadType : /\ Moves(r, x) /\ Within(read[r], x) /\ x.at = "have"
                                /\ x.data = blocks[Block(r)]
      <4>1. ~At(r, "idle") /\ ~At(r, "answer") /\ "have" \in Stage \ {"idle", "answer"}
        BY <2>1 DEF At, Stage
      <4> QED BY ZenonT(60), <3>1, <3>2, <4>1, DataIs
    <3>4. Held(x)
      BY <2>1, <2>3, <3>3, SureBlock DEF Held, Within, At
    <3>5. Unlocked(r, x)
      BY <2>1, <3>3 DEF Unlocked, Locked
    <3> QED BY <2>1, <3>3, <3>4, <3>5, WithinKeeps
  <2>4. CASE Goto(r, "lock")
    <3>1. PICK x \in ReadType : Moves(r, x) /\ Within(read[r], x) /\ x.at = "lock"
      BY <2>1, <2>4, GotoIs DEF At, Stage
    <3>2. Held(x) /\ Unlocked(r, x)
      BY <2>1, <3>1 DEF Held, Unlocked, Locked
    <3> QED BY <2>1, <3>1, <3>2, WithinKeeps
  <2> QED BY <1>5, <2>2, <2>3, <2>4 DEF Open
<1>6. ASSUME Lock(r) PROVE ExactInv'
  <2>1. /\ Same /\ blocks' = blocks /\ read[r].at = "lock" /\ Goto(r, "again")
        /\ Block(r) \notin locks /\ locks' = locks \cup {Block(r)}
    BY <1>6 DEF Lock, files, At
  <2>2. PICK x \in ReadType : Moves(r, x) /\ Within(read[r], x) /\ x.at = "again"
    BY <2>1, GotoIs DEF At, Stage, Locked
  <2>3. Held(x) /\ Takes(r, x)
    BY <2>1, <2>2 DEF Held, Takes, Locked, Within
  <2> QED BY <2>1, <2>2, <2>3, WithinKeeps
<1>7. ASSUME Again(r) PROVE ExactInv'
  <2>1. /\ Same /\ UNCHANGED <<blocks, locks>> /\ read[r].at = "again"
        /\ Goto(r, "take") \/ Goto(r, "fetch")
    BY <1>7 DEF Again, files, At
  <2>2. PICK x \in ReadType : Moves(r, x) /\ Within(read[r], x) /\ x.at \in {"take", "fetch"}
    BY <2>1, GotoIs DEF At, Stage, Locked
  <2>3. Held(x) /\ Keeps(r, x)
    BY <2>1, <2>2 DEF Held, Keeps, Locked, Within
  <2> QED BY <2>1, <2>2, <2>3, WithinKeeps
<1>8. ASSUME Take(r) PROVE ExactInv'
  <2>1. Same /\ blocks' = blocks /\ read[r].at = "take" /\ locks' = locks \ {Block(r)}
    BY <1>8 DEF Take, files, At
  <2>2. CASE Block(r) \in DOMAIN blocks
    <3>1. read' = [read EXCEPT ![r] = [read[r] EXCEPT !.at = "have", !.data = blocks[Block(r)]]]
      BY <1>8, <2>2 DEF Take
    <3>2. blocks[Block(r)] \in Seq(Byte)
      BY <2>2 DEF TypeOK, FilesType
    <3>3. PICK x \in ReadType : /\ Moves(r, x) /\ Within(read[r], x) /\ x.at = "have"
                                /\ x.data = blocks[Block(r)]
      <4>1. ~At(r, "idle") /\ ~At(r, "answer") /\ "have" \in Stage \ {"idle", "answer"}
        BY <2>1 DEF At, Stage
      <4> QED BY ZenonT(60), <3>1, <3>2, <4>1, DataIs
    <3>4. Held(x)
      BY <2>1, <2>2, <3>3, SureBlock DEF Held, Within, At
    <3>5. Gives(r, x)
      BY <2>1, <3>3 DEF Gives, Locked
    <3> QED BY <2>1, <3>3, <3>4, <3>5, WithinKeeps
  <2>3. CASE Block(r) \notin DOMAIN blocks
    <3>1. read' = [read EXCEPT ![r] = Idle]
      BY <1>8, <2>3 DEF Take
    <3>2. Gives(r, Idle)
      BY <2>1, IdleIs DEF Gives, Locked
    <3> QED BY <2>1, <3>1, <3>2, GiveUpKeeps
  <2> QED BY <2>2, <2>3
<1>9. ASSUME Fetch(r) PROVE ExactInv'
  <2> DEFINE d == Chunk(read[r].key, version[read[r].key], read[r].index)
             a == IF d = <<>> THEN "have" ELSE "write"
  <2>1. /\ Same /\ blocks' = blocks /\ read[r].at = "fetch"
        /\ locks' = IF d = <<>> THEN locks \ {Block(r)} ELSE locks
    BY <1>9 DEF Fetch, files, At
  <2>2. read[r].key \in Key /\ read[r].index \in Nat /\ version[read[r].key] \in 1 .. Len(Length)
    BY <2>1, BlockIs DEF TypeOK, At
  <2>3. d \in Seq(Byte) /\ d = Current(read[r].key, read[r].index)
    BY <2>2, ChunkIs DEF Current
  <2>4. read' = [read EXCEPT ![r] = [read[r] EXCEPT !.at = a, !.data = d]]
    BY <1>9 DEF Fetch
  <2>5. a \in Stage \ {"idle", "answer"} /\ a \in {"have", "write"}
    BY DEF Stage, Locked
  <2>6. (a = "have" /\ locks' = locks \ {Block(r)}) \/ (a = "write" /\ locks' = locks)
    BY <2>1
  <2> HIDE DEF d, a
  <2>7. PICK x \in ReadType : Moves(r, x) /\ Within(read[r], x) /\ x.at = a /\ x.data = d
    <3>1. ~At(r, "idle") /\ ~At(r, "answer")
      BY <2>1 DEF At
    <3>2. PICK s \in Stage \ {"idle", "answer"}, y \in Seq(Byte) : s = a /\ y = d
      BY <2>3, <2>5
    <3>3. read' = [read EXCEPT ![r] = [read[r] EXCEPT !.at = s, !.data = y]]
      BY <2>4, <3>2
    <3>4. \E x \in ReadType : Moves(r, x) /\ Within(read[r], x) /\ x.at = s /\ x.data = y
      <4> DEFINE z == [read[r] EXCEPT !.at = s, !.data = y]
      <4>1. read[r] \in ReadType /\ read[r].key \in Key
        BY <3>1, BlockIs
      <4>2. z \in ReadType /\ z.at = s /\ z.data = y /\ z.key = read[r].key
        BY <4>1 DEF ReadType
      <4>3. Within(read[r], z)
        BY <3>1, <4>1 DEF Within, ReadType, At
      <4>4. Moves(r, z)
        BY <3>3, <4>1, <4>2 DEF Moves
      <4> QED BY <4>2, <4>3, <4>4
    <3> QED BY <3>2, <3>4
  <2>8. Held(x)
    BY <2>3, <2>7 DEF Held, Within
  <2>9. Gives(r, x) \/ Keeps(r, x)
    BY <2>1, <2>6, <2>7 DEF Gives, Keeps, Within, Locked
  <2> QED BY <2>1, <2>5, <2>7, <2>8, <2>9, WithinKeeps
<1>10. ASSUME FetchFails(r) PROVE ExactInv'
  <2>1. Same /\ blocks' = blocks /\ Gives(r, Idle) /\ read' = [read EXCEPT ![r] = Idle]
    BY <1>10, IdleIs DEF FetchFails, files, At, Gives, Locked
  <2> QED BY <2>1, GiveUpKeeps
<1>11. ASSUME WriteFails(r) PROVE ExactInv'
  <2>1. /\ Same /\ blocks' = blocks /\ read[r].at \in {"write", "rename"} /\ Goto(r, "have")
        /\ locks' = locks \ {Block(r)}
    BY <1>11 DEF WriteFails, files, At
  <2>2. PICK x \in ReadType : /\ Moves(r, x) /\ Within(read[r], x) /\ x.at = "have"
                              /\ x.data = read[r].data
    BY <2>1, GotoIs DEF At, Stage
  <2>3. Held(x)
    BY <1>1, <2>1, <2>2 DEF Held, Within, Exact
  <2>4. Gives(r, x)
    BY <2>1, <2>2 DEF Gives, Locked
  <2> QED BY <2>1, <2>2, <2>3, <2>4, WithinKeeps
<1>12. ASSUME List(r) PROVE ExactInv'
  <2> DEFINE f == SubSeq(order, 1, Excess(Len(order)))
  <2>1. Same /\ UNCHANGED <<blocks, locks>> /\ read[r].at = "evict"
    BY <1>12 DEF List, files, At
  <2>2. PICK x \in ReadType : /\ x = [read[r] EXCEPT !.at = "remove", !.found = f]
                              /\ x.at = "remove" /\ Moves(r, x)
    BY <1>12, ListMoves
  <2> HIDE DEF f
  <2>3. Within(read[r], x) /\ x.data = read[r].data
    BY <2>1, <2>2, BlockIs DEF ReadType, Within, At
  <2>4. Held(x) /\ Keeps(r, x)
    BY <1>1, <2>1, <2>2, <2>3 DEF Held, Keeps, Within, Locked, Exact
  <2> QED BY <2>1, <2>2, <2>3, <2>4, WithinKeeps
<1>13. ASSUME RemoveOldest(r) PROVE ExactInv'
  <2>1. UNCHANGED <<version, unsure, wiping>> /\ read[r].at = "remove"
    BY <1>13 DEF RemoveOldest, At
  <2>2. CASE read[r].found = <<>>
    <3>1. Same /\ blocks' = blocks /\ Goto(r, "have") /\ locks' = locks \ {Block(r)}
      BY <1>13, <2>2 DEF RemoveOldest, files
    <3>2. PICK x \in ReadType : /\ Moves(r, x) /\ Within(read[r], x) /\ x.at = "have"
                                /\ x.data = read[r].data
      BY <2>1, <3>1, GotoIs DEF At, Stage
    <3>3. Held(x) /\ Gives(r, x)
      BY <1>1, <2>1, <3>1, <3>2 DEF Held, Gives, Within, Locked, Exact
    <3> QED BY <3>1, <3>2, <3>3, WithinKeeps
  <2>3. CASE read[r].found # <<>>
    <3>1. /\ Same /\ locks' = locks /\ blocks' = Without(blocks, {Head(read[r].found)})
      BY <1>13, <2>1, <2>3 DEF RemoveOldest
    <3>2. \A b \in DOMAIN blocks' : b \in DOMAIN blocks /\ blocks'[b] = blocks[b]
      BY <3>1, WithoutIs
    <3>3. PICK x \in ReadType : x = [read[r] EXCEPT !.found = Tail(read[r].found)] /\ Moves(r, x)
      BY <1>13, <2>3, RemoveMoves
    <3>4. Within(read[r], x) /\ x.data = read[r].data /\ x.at = "remove"
      BY <2>1, <3>3, BlockIs DEF ReadType, Within, At
    <3>5. Held(x) /\ Keeps(r, x)
      BY <1>1, <2>1, <3>1, <3>4 DEF Held, Keeps, Within, Locked, Exact
    <3> QED BY <3>1, <3>2, <3>3, <3>4, <3>5, WithinKeeps
  <2> QED BY <2>2, <2>3
<1>16. ASSUME ListFails(r) PROVE ExactInv'
  <2>1. /\ Same /\ blocks' = blocks /\ read[r].at = "evict" /\ Goto(r, "have")
        /\ locks' = locks \ {Block(r)}
    BY <1>16 DEF ListFails, files, At
  <2>2. PICK x \in ReadType : /\ Moves(r, x) /\ Within(read[r], x) /\ x.at = "have"
                              /\ x.data = read[r].data
    BY <2>1, GotoIs DEF At, Stage
  <2>3. Held(x) /\ Gives(r, x)
    BY <1>1, <2>1, <2>2 DEF Held, Gives, Within, Locked, Exact
  <2> QED BY <2>1, <2>2, <2>3, WithinKeeps
<1>17. ASSUME RemoveFails(r) PROVE ExactInv'
  <2>1. Same /\ UNCHANGED <<blocks, locks>> /\ read[r].at = "remove" /\ read[r].found # <<>>
    BY <1>17 DEF RemoveFails, files, At
  <2>2. PICK x \in ReadType : x = [read[r] EXCEPT !.found = Tail(read[r].found)] /\ Moves(r, x)
    BY <1>17, <2>1, RemoveMoves
  <2>3. Within(read[r], x) /\ x.data = read[r].data /\ x.at = "remove"
    BY <2>1, <2>2, BlockIs DEF ReadType, Within, At
  <2>4. Held(x) /\ Keeps(r, x)
    BY <1>1, <2>1, <2>3 DEF Held, Keeps, Within, Locked, Exact
  <2> QED BY <2>1, <2>2, <2>3, <2>4, WithinKeeps
<1>14. ASSUME Join(r) PROVE ExactInv'
  <2>1. PICK x \in ReadType : Moves(r, x) /\ Exact(x)' /\ x.at \in {"answer", "look"}
    BY <1>14, JoinGoes
  <2>2. Same /\ UNCHANGED <<blocks, locks>> /\ Unlocked(r, x)
    BY <1>14, <2>1 DEF Join, files, At, Unlocked, Locked
  <2> QED BY <2>1, <2>2, ReaderKeeps
<1>15. ASSUME Leave(r) PROVE ExactInv'
  <2>1. Same /\ blocks' = blocks /\ Unlocked(r, Idle) /\ read' = [read EXCEPT ![r] = Idle]
    BY <1>15, IdleIs DEF Leave, files, At, Unlocked, Locked
  <2> QED BY <2>1, GiveUpKeeps
<1> QED BY <1>3, <1>4, <1>5, <1>6, <1>7, <1>8, <1>9, <1>10, <1>11, <1>12, <1>13, <1>14, <1>15,
           <1>16, <1>17, WriteExact, RenameExact

LEMMA ExactOutside ==
  ASSUME TypeOK, ExactInv,
         \/ \E k \in Key : Change(k) \/ Invalidate(k)
         \/ (\E b \in wiping.bins : WipeBlock(b)) \/ (\E b \in wiping.tmps : WipePart(b))
         \/ WipeFails \/ EndInvalidate \/ Crash
  PROVE  ExactInv'
<1>1. /\ LockInv /\ CacheInv /\ (\A r \in Reader : Exact(read[r])) /\ read \in [Reader -> ReadType]
      /\ wiping \in WipeType /\ unsure \in SUBSET Key /\ version \in [Key -> 1 .. Len(Length)]
      /\ DOMAIN blocks \in SUBSET Slot
      /\ \A r \in Reader : read[r].at # "idle" => read[r].key \in Key
  BY DEF ExactInv, TypeOK, FilesType
<1>2. NoKey \notin Key /\ NoWipe.key = NoKey /\ NoWipe.bins = {} /\ ~NoWipe.clean
  BY BlockCacheAssumption DEF NoWipe
(* The files and what is removed of them may get less, and of fewer sources one may be sure. *)
<1>3. ASSUME UNCHANGED <<version, read, locks>>,
             \A b \in DOMAIN parts' : b \in DOMAIN parts /\ parts'[b] = parts[b],
             \A r \in Reader : read[r].at # "idle" /\ CurrentKey(read[r].key)' => CurrentKey(read[r].key),
             unsure' \subseteq unsure
      PROVE  LockInv' /\ \A r \in Reader : Exact(read[r])'
  <2>1. LockInv'
    BY <1>1, <1>3 DEF LockInv, Block
  <2>2. ASSUME NEW r \in Reader PROVE Exact(read[r])'
    <3>1. Exact(read[r]) /\ read'[r] = read[r]
      BY <1>1, <1>3
    <3>2. Held(read[r])'
      BY <1>3, <3>1 DEF Exact, Held, Current
    <3>3. Part(read[r])'
      BY <1>3, <3>1 DEF Exact, Part
    <3>4. Going(read[r])'
      BY <1>3, <3>1 DEF Exact, Going, Upto, From, Source, Answer, First
    <3> QED BY <3>2, <3>3, <3>4 DEF Exact
  <2> QED BY <2>1, <2>2
<1>4. ASSUME NEW k \in Key, Change(k) PROVE ExactInv'
  <2>1. /\ UNCHANGED <<blocks, parts, locks>> /\ unsure' = unsure \cup {k}
        /\ version' = [version EXCEPT ![k] = @ + 1]
        /\ wiping' = IF wiping.key = k THEN [wiping EXCEPT !.clean = FALSE] ELSE wiping
        /\ \A r \in Reader : read'[r] = IF read[r].key = k THEN [read[r] EXCEPT !.sure = FALSE] ELSE read[r]
    BY <1>4 DEF Change, files
  <2>2. /\ wiping'.key = wiping.key /\ wiping'.bins = wiping.bins
        /\ wiping'.clean => wiping.clean /\ wiping.key # k
    BY <1>1, <2>1 DEF WipeType
  <2>3. ~CurrentKey(k)' /\ \A j : CurrentKey(j)' => CurrentKey(j)
    BY <2>1, <2>2 DEF CurrentKey
  <2>4. \A j \in Key \ {k} : version'[j] = version[j]
    BY <1>1, <2>1
  <2>5. CacheInv'
    <3>1. ASSUME NEW b \in DOMAIN blocks, CurrentBlock(b)'
          PROVE  blocks[b] = Current(b[1], b[2])'
      <4>0. CurrentKey(b[1])'
        BY <3>1 DEF CurrentBlock, CurrentKey
      <4>1. b[1] \in Key /\ b[1] # k /\ CurrentBlock(b)
        BY <1>1, <2>1, <2>2, <2>3, <3>1, <4>0 DEF Slot, CurrentBlock
      <4>2. Current(b[1], b[2])' = Current(b[1], b[2])
        BY <2>4, <4>1 DEF Current
      <4> QED BY <1>1, <3>1, <4>1, <4>2 DEF CacheInv
    <3> QED BY <1>1, <2>1, <2>2, <3>1 DEF CacheInv
  <2>6. ASSUME NEW r \in Reader
        PROVE  /\ Exact(read[r])' /\ read'[r].at = read[r].at
               /\ Block(r)' = Block(r)
    <3>0. read[r] \in ReadType /\ Exact(read[r])
      BY <1>1
    <3>1. CASE read[r].key = k
      <4>1. /\ read'[r].at = read[r].at /\ read'[r].key = k /\ ~read'[r].sure
            /\ read'[r].end = read[r].end /\ read'[r].start = read[r].start
            /\ read'[r].index = read[r].index /\ read'[r].data = read[r].data
        BY <2>1, <3>0, <3>1 DEF ReadType
      <4>2. Held(read[r])'
        BY <2>3, <4>1 DEF Held
      <4>3. Part(read[r])'
        BY <2>1, <3>0, <3>1, <4>1 DEF Part, Exact
      <4>4. Going(read[r])'
        BY <3>0, <4>1 DEF Going, Exact
      <4> QED BY <3>1, <4>1, <4>2, <4>3, <4>4 DEF Exact, Block
    <3>2. CASE read[r].key # k
      <4>1. read'[r] = read[r]
        BY <2>1, <3>2
      <4>2. CASE read[r].at = "idle"
        <5>1. ~read[r].sure => Going(read[r])'
          BY <4>1, <4>2 DEF Going
        <5>2. read[r].sure => read[r].key \notin unsure'
          BY <2>1, <3>0, <3>2 DEF Exact, Going
        <5> QED BY <4>1, <4>2, <5>1, <5>2 DEF Exact, Held, Part, Going, Block
      <4>3. CASE read[r].at # "idle"
        <5>1. version'[read[r].key] = version[read[r].key]
          BY <1>1, <2>4, <3>2, <4>3
        <5>2. Held(read[r])'
          BY <2>3, <3>0, <4>1, <5>1 DEF Held, Exact, Current
        <5>3. Part(read[r])'
          BY <2>1, <3>0, <4>1 DEF Part, Exact
        <5>4. Going(read[r])'
          BY ZenonT(60), <2>1, <3>0, <3>2, <4>1, <5>1 DEF Exact, Going, Upto, From, Source, Answer, First
        <5> QED BY <4>1, <5>2, <5>3, <5>4 DEF Exact, Block
      <4> QED BY <4>2, <4>3
    <3> QED BY <3>1, <3>2
  <2>7. LockInv'
    BY <1>1, <2>1, <2>6 DEF LockInv
  <2> QED BY <2>5, <2>6, <2>7 DEF ExactInv
<1>5. ASSUME NEW k \in Key, Invalidate(k) PROVE ExactInv'
  <2>1. /\ UNCHANGED <<version, blocks, parts, locks, read, unsure>> /\ wiping = NoWipe
        /\ wiping'.key = k /\ wiping'.bins = {b \in DOMAIN blocks : b[1] = k}
        /\ wiping'.clean => \A r \in Reader : read[r].key # k
    BY <1>5 DEF Invalidate, files
  <2>2. \A j \in Key \ {k} : CurrentKey(j)' => CurrentKey(j)
    BY <2>1 DEF CurrentKey
  <2>3. \A r \in Reader : read[r].at # "idle" /\ CurrentKey(read[r].key)' => CurrentKey(read[r].key)
    <3> SUFFICES ASSUME NEW r \in Reader, read[r].at # "idle", CurrentKey(read[r].key)'
                 PROVE  CurrentKey(read[r].key)
      OBVIOUS
    <3>1. read[r].key \in Key /\ read'[r].key = read[r].key
      BY <1>1, <2>1
    <3> QED BY <2>1, <3>1 DEF CurrentKey
  <2>4. CacheInv'
    <3>1. ASSUME NEW b \in DOMAIN blocks, CurrentBlock(b)'
          PROVE  blocks[b] = Current(b[1], b[2])'
      <4>1. b[1] \in Key /\ (b \notin wiping'.bins => b[1] # k)
        BY <1>1, <2>1, <3>1 DEF Slot
      <4>2. CurrentBlock(b) /\ Current(b[1], b[2])' = Current(b[1], b[2])
        BY <1>2, <2>1, <2>2, <3>1, <4>1 DEF CurrentBlock, Current
      <4> QED BY <1>1, <4>2 DEF CacheInv
    <3> QED BY <2>1, <3>1 DEF CacheInv
  <2> QED BY <1>3, <2>1, <2>3, <2>4 DEF ExactInv
<1>6. ASSUME UNCHANGED <<version, read, locks, unsure>>, wiping'.key = wiping.key, wiping'.clean => wiping.clean,
             wiping'.bins \subseteq wiping.bins,
             \A b \in DOMAIN parts' : b \in DOMAIN parts /\ parts'[b] = parts[b],
             \A b \in DOMAIN blocks' : /\ b \in DOMAIN blocks /\ blocks'[b] = blocks[b]
                                       /\ b \notin wiping'.bins /\ wiping'.clean => b \notin wiping.bins
      PROVE  ExactInv'
  <2>1. \A j : CurrentKey(j)' => CurrentKey(j)
    BY <1>6 DEF CurrentKey
  <2>2. \A j, i : Current(j, i)' = Current(j, i)
    BY <1>6 DEF Current
  <2>3. CacheInv'
    <3>1. ASSUME NEW b \in DOMAIN blocks', CurrentBlock(b)' PROVE CurrentBlock(b)
      BY <1>6, <2>1, <3>1 DEF CurrentBlock, CurrentKey
    <3> QED BY <1>1, <1>6, <2>2, <3>1 DEF CacheInv
  <2> QED BY <1>3, <1>6, <2>1, <2>3 DEF ExactInv
<1>7. ASSUME NEW b \in wiping.bins, WipeBlock(b) PROVE ExactInv'
  <2>1. /\ UNCHANGED <<version, parts, locks, read, unsure>>
        /\ wiping' = [wiping EXCEPT !.bins = @ \ {b}] /\ blocks' = Without(blocks, {b})
    BY <1>7 DEF WipeBlock
  <2>2. /\ wiping'.key = wiping.key /\ wiping'.clean = wiping.clean
        /\ wiping'.bins = wiping.bins \ {b}
    BY <1>1, <2>1 DEF WipeType
  <2>3. \A c \in DOMAIN blocks' : c \in DOMAIN blocks \ {b} /\ blocks'[c] = blocks[c]
    BY <2>1, WithoutIs
  <2> QED BY <1>6, <2>1, <2>2, <2>3
<1>8. ASSUME NEW b \in wiping.tmps, WipePart(b) PROVE ExactInv'
  <2>1. /\ UNCHANGED <<version, blocks, locks, read, unsure>>
        /\ wiping' = [wiping EXCEPT !.tmps = @ \ {b}] /\ parts' = Without(parts, {b})
    BY <1>8 DEF WipePart
  <2>2. /\ wiping'.key = wiping.key /\ wiping'.clean = wiping.clean
        /\ wiping'.bins = wiping.bins
    BY <1>1, <2>1 DEF WipeType
  <2>3. \A c \in DOMAIN parts' : c \in DOMAIN parts /\ parts'[c] = parts[c]
    BY <2>1, WithoutIs
  <2> QED BY <1>6, <2>1, <2>2, <2>3
<1>9. ASSUME EndInvalidate PROVE ExactInv'
  <2>1. /\ UNCHANGED <<version, blocks, parts, locks, read>> /\ wiping' = NoWipe /\ wiping.bins = {}
        /\ unsure' = IF wiping.clean THEN unsure \ {wiping.key} ELSE unsure
    BY <1>9 DEF EndInvalidate, Wiped, files
  <2>2. \A j \in Key : CurrentKey(j)' => CurrentKey(j)
    BY <1>2, <2>1 DEF CurrentKey
  <2>3. CacheInv'
    <3>1. ASSUME NEW b \in DOMAIN blocks, CurrentBlock(b)'
          PROVE  blocks[b] = Current(b[1], b[2])'
      <4>1. CurrentKey(b[1]) /\ Current(b[1], b[2])' = Current(b[1], b[2])
        BY <1>1, <2>1, <2>2, <3>1 DEF Slot, Current, CurrentBlock, CurrentKey
      <4> QED BY <1>1, <2>1, <4>1 DEF CacheInv, CurrentBlock
    <3> QED BY <1>2, <2>1, <3>1 DEF CacheInv
  <2> QED BY <1>1, <1>3, <2>1, <2>2, <2>3 DEF ExactInv
<1>11. ASSUME WipeFails PROVE ExactInv'
  <2>1. UNCHANGED <<version, blocks, parts, locks, read, unsure>>
    BY <1>11 DEF WipeFails, files
  <2>2. /\ wiping'.key = wiping.key /\ wiping'.bins \subseteq wiping.bins
        /\ wiping'.clean => wiping.clean /\ wiping'.bins = wiping.bins
    BY <1>1, <1>11 DEF WipeFails, WipeType
  <2> QED BY <1>6, <2>1, <2>2
<1>10. ASSUME Crash PROVE ExactInv'
  <2>1. /\ UNCHANGED <<version, blocks, parts, unsure>> /\ wiping' = NoWipe
        /\ \A r \in Reader : read'[r] = Idle
    BY <1>10 DEF Crash, files
  <2>2. LockInv'
    BY <2>1, IdleIs DEF LockInv, Locked
  <2>3. CacheInv'
    <3>1. ASSUME NEW b \in DOMAIN blocks, CurrentBlock(b)'
          PROVE  blocks[b] = Current(b[1], b[2])'
      <4>1. b[1] \in Key /\ b[1] \notin unsure
        BY <1>1, <1>2, <2>1, <3>1 DEF Slot, CurrentBlock, CurrentKey
      <4>3. Current(b[1], b[2])' = Current(b[1], b[2])
        BY <2>1 DEF Current
      <4> QED BY <1>1, <4>1, <4>3 DEF CacheInv, CurrentBlock
    <3> QED BY <1>2, <2>1, <3>1 DEF CacheInv
  <2> QED BY <2>1, <2>2, <2>3, IdleExact DEF ExactInv
<1> QED BY <1>4, <1>5, <1>7, <1>8, <1>9, <1>10, <1>11

LEMMA ExactStep == TypeOK /\ ExactInv /\ [Next]_vars => ExactInv'
<1> SUFFICES ASSUME TypeOK, ExactInv, [Next]_vars PROVE ExactInv'
  OBVIOUS
<1>1. CASE UNCHANGED vars
  BY ZenonT(60), <1>1 DEF vars, files, ExactInv, LockInv, Block, CacheInv, CurrentBlock, CurrentKey, Current, Exact, Held, Part,
              Going, Upto, From, First, Source, Answer
<1> QED BY <1>1, ExactReader, ExactOutside DEF Next

(* read_range (block_cache.rs) answers with exactly the bytes from start to end,
   or to the end of the source, whenever the source did not change meanwhile and
   was invalidated, with no read of it under way, after the last time it did:
   for every size of blocks and every range, whichever blocks came from files,
   were fetched, evicted, removed by an invalidation, or left by a crash. *)
THEOREM ReadIsExactAlways == Spec => []ReadIsExact
<1>1. ExactInv => ReadIsExact
  <2> SUFFICES ASSUME ExactInv, NEW r \in Reader, At(r, "answer"), read[r].sure
               PROVE  Answer(read[r])
    BY DEF ReadIsExact, Answer, Source
  <2> QED BY DEF ExactInv, Exact, Going, At
<1> QED BY <1>1, TypeInit, TypeStep, ExactInit, ExactStep, PTL DEF Spec
=============================================================================
