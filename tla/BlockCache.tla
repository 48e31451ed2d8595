------------------------------ MODULE BlockCache ------------------------------
(***************************************************************************)
(* The cache of blocks on disk (emrs-infra/block_cache.rs): ranges of a    *)
(* source are read block by block from files, a block that is missing is   *)
(* fetched, one at a time, and put there, the oldest go when there are too *)
(* many, and all of a source's go when it is invalidated.  The server      *)
(* makes one at start-up; what its readers do is what its tests do.        *)
(*                                                                         *)
(* Bytes carry the version of the source they are from; a source is at     *)
(* most a few blocks long.  The order of mtimes is a sequence.             *)
(***************************************************************************)
EXTENDS Integers, FiniteSets, Sequences, FiniteSetsExt

CONSTANTS
  Key,       \* sources
  Reader,    \* reads under way at once
  BlockSize, MaxBlocks, \* of BlockCacheConfig
  Length,    \* version -> bytes of a source in that version
  Ranges,    \* <<start, end>> asked for, end -1 when there is none
  MaxReads, MaxChanges, MaxCrashes, \* bounds
  Faults     \* TRUE when a fetch or a write may fail

NoKey == "no key"

ASSUME BlockCacheAssumption ==
  /\ NoKey \notin Key /\ IsFiniteSet(Reader)
  /\ BlockSize \in Nat \ {0} /\ MaxBlocks \in Nat \ {0}
  /\ Length \in Seq(Nat) /\ Length # <<>>
  /\ \A e \in Ranges : e[1] \in Nat /\ e[2] \in Nat \cup {-1} /\ (e[2] = -1 \/ e[2] >= e[1])
  /\ {MaxReads, MaxChanges, MaxCrashes} \subseteq Nat /\ Faults \in BOOLEAN

VARIABLES
  version,  \* key -> version of the source
  blocks,   \* <<key, index>> -> bytes of the ".bin" file
  order,    \* the ".bin" files from the oldest mtime to the newest
  parts,    \* <<key, index>> -> bytes of the ".tmp" file
  locks,    \* blocks whose write lock is held
  read,     \* reader -> what it does
  wiping,   \* the key an invalidation removes the files of, and those files
  reads, changes, crashes, \* counters for the bounds
  unsure,   \* history: keys that changed and were not invalidated since with no read under way
  left,     \* history: writes whose eviction a crash cut off, or that failed, since the last whole one
  spared    \* history: readers whose eviction does not make up for what is left

files == <<blocks, order, parts>>
counts == <<reads, changes, crashes>>
vars == <<version, files, locks, read, wiping, counts, unsure, left, spared>>

Idle == [at |-> "idle", key |-> NoKey, start |-> 0, end |-> -1, index |-> 0, out |-> <<>>,
         data |-> <<>>, size |-> 0, found |-> <<>>, sure |-> FALSE]
NoWipe == [key |-> NoKey, bins |-> {}, tmps |-> {}, clean |-> FALSE]

Init ==
  /\ version = [k \in Key |-> 1] /\ blocks = <<>> /\ order = <<>> /\ parts = <<>> /\ locks = {}
  /\ read = [r \in Reader |-> Idle] /\ wiping = NoWipe
  /\ reads = 0 /\ changes = 0 /\ crashes = 0 /\ unsure = {} /\ left = 0 /\ spared = {}

Block(r) == <<read[r].key, read[r].index>>
At(r, at) == read[r].at = at
Goto(r, at) == read' = [read EXCEPT ![r].at = at]
Put(f, b, data) == [x \in DOMAIN f \cup {b} |-> IF x = b THEN data ELSE f[x]]
Without(f, S) == [x \in DOMAIN f \ S |-> f[x]]
Places(b) == {i \in 1 .. Len(order) : order[i] = b}
Kept(b) == IF Places(b) = {} THEN order
           ELSE LET i == CHOOSE i \in Places(b) : TRUE
                IN SubSeq(order, 1, i - 1) \o SubSeq(order, i + 1, Len(order))
Touched(b) == Append(Kept(b), b)

(* Bytes of a version, and of one block of it. *)
Bytes(k, v) == [n \in 1 .. Length[v] |-> <<k, v, n>>]
Chunk(k, v, i) == SubSeq(Bytes(k, v), i * BlockSize + 1, Min({(i + 1) * BlockSize, Length[v]}))

-----------------------------------------------------------------------------
(* read_range and read_block.                                              *)

ReadRange(r, k, start, end) ==
  /\ At(r, "idle") /\ reads < MaxReads /\ reads' = reads + 1
  /\ read' = [read EXCEPT ![r] = [Idle EXCEPT !.at = "look", !.key = k, !.start = start, !.end = end,
                                            !.index = start \div BlockSize, !.sure = k \notin unsure]]
  /\ UNCHANGED <<version, files, locks, wiping, changes, crashes, unsure, left, spared>>

(* metadata: there is a block, or not. *)
Look(r) ==
  /\ At(r, "look")
  /\ read' = [read EXCEPT ![r].at = IF Block(r) \in DOMAIN blocks THEN "open" ELSE "lock",
                          ![r].size = IF Block(r) \in DOMAIN blocks THEN Len(blocks[Block(r)]) ELSE 0]
  /\ UNCHANGED <<version, files, locks, wiping, counts, unsure, left, spared>>

(* read: the read fails when the block went since; a block of that length is
   taken, and is the newest from then on. *)
Open(r) ==
  /\ At(r, "open")
  /\ LET b == Block(r)
     IN \/ b \notin DOMAIN blocks /\ read' = [read EXCEPT ![r] = Idle] /\ UNCHANGED order
        \/ /\ b \in DOMAIN blocks /\ Len(blocks[b]) = read[r].size
           /\ read' = [read EXCEPT ![r].at = "have", ![r].data = blocks[b]] /\ order' = Touched(b)
        \/ /\ b \in DOMAIN blocks /\ Len(blocks[b]) # read[r].size
           /\ Goto(r, "lock") /\ UNCHANGED order
  /\ UNCHANGED <<version, blocks, parts, locks, wiping, counts, unsure, left, spared>>

(* The lock of the block, then a second look. *)
Lock(r) ==
  /\ At(r, "lock") /\ Block(r) \notin locks
  /\ locks' = locks \cup {Block(r)} /\ Goto(r, "again")
  /\ UNCHANGED <<version, files, wiping, counts, unsure, left, spared>>
Again(r) ==
  /\ At(r, "again") /\ Goto(r, IF Block(r) \in DOMAIN blocks THEN "take" ELSE "fetch")
  /\ UNCHANGED <<version, files, locks, wiping, counts, unsure, left, spared>>
Take(r) ==
  /\ At(r, "take") /\ locks' = locks \ {Block(r)}
  /\ read' = [read EXCEPT ![r] = IF Block(r) \in DOMAIN blocks
                                 THEN [@ EXCEPT !.at = "have", !.data = blocks[Block(r)]] ELSE Idle]
  /\ UNCHANGED <<version, files, wiping, counts, unsure, left, spared>>

(* The source is asked; nothing is written of no bytes. *)
Fetch(r) ==
  /\ At(r, "fetch")
  /\ LET data == Chunk(read[r].key, version[read[r].key], read[r].index)
     IN /\ read' = [read EXCEPT ![r].at = IF data = <<>> THEN "have" ELSE "write", ![r].data = data]
        /\ locks' = IF data = <<>> THEN locks \ {Block(r)} ELSE locks
  /\ UNCHANGED <<version, files, wiping, counts, unsure, left, spared>>

(* write_block: a ".tmp" file, renamed when it is whole.  A write that fails
   does not fail the read.  Mutant: the file is written in its place. *)
WriteInPlace(r) ==
  /\ At(r, "write") /\ Goto(r, "rename")
  /\ blocks' = Put(blocks, Block(r), SubSeq(read[r].data, 1, 1)) /\ order' = Touched(Block(r))
  /\ parts' = Put(parts, Block(r), read[r].data)
  /\ UNCHANGED <<version, locks, wiping, counts, unsure, left, spared>>
Write(r) ==
  /\ At(r, "write") /\ parts' = Put(parts, Block(r), read[r].data) /\ Goto(r, "rename")
  /\ UNCHANGED <<version, blocks, order, locks, wiping, counts, unsure, left, spared>>
WriteFails(r) ==
  /\ \/ Faults /\ read[r].at \in {"write", "rename"}
     \/ At(r, "rename") /\ Block(r) \notin DOMAIN parts
  /\ Goto(r, "have") /\ locks' = locks \ {Block(r)}
  /\ UNCHANGED <<version, files, wiping, counts, unsure, left, spared>>
Rename(r) ==
  /\ At(r, "rename") /\ Block(r) \in DOMAIN parts
  /\ blocks' = Put(blocks, Block(r), parts[Block(r)]) /\ order' = Touched(Block(r))
  /\ parts' = Without(parts, {Block(r)})
  /\ Goto(r, "evict")
  /\ UNCHANGED <<version, locks, wiping, counts, unsure, left, spared>>

(* evict_if_needed: the blocks that are there by age, then the oldest are
   removed.  The directory may not be read, a file not removed: the eviction is
   over all the same, and none that listed the blocks before knows of what this
   one left.  Mutant: one of them is left. *)
EvictOneShort(n) == Max({n - MaxBlocks - 1, 0})
Excess(n) == Max({n - MaxBlocks, 0})
List(r) ==
  /\ At(r, "evict")
  /\ read' = [read EXCEPT ![r].at = "remove", ![r].found = SubSeq(order, 1, Excess(Len(order)))]
  /\ UNCHANGED <<version, files, locks, wiping, counts, unsure, left, spared>>
Spares(r) == left' = left + 1 /\ spared' = {q \in Reader : At(q, "remove")} \ {r}
ListFails(r) ==
  /\ Faults /\ At(r, "evict") /\ Goto(r, "have") /\ locks' = locks \ {Block(r)} /\ Spares(r)
  /\ UNCHANGED <<version, files, wiping, counts, unsure>>
RemoveOldest(r) ==
  /\ At(r, "remove")
  /\ IF read[r].found = <<>>
     THEN /\ Goto(r, "have") /\ locks' = locks \ {Block(r)} /\ UNCHANGED files
          /\ IF r \in spared THEN Spares(r) ELSE left' = 0 /\ UNCHANGED spared
     ELSE LET b == Head(read[r].found)
          IN /\ blocks' = Without(blocks, {b}) /\ order' = Kept(b)
             /\ read' = [read EXCEPT ![r].found = Tail(@)] /\ UNCHANGED <<parts, locks, left, spared>>
  /\ UNCHANGED <<version, wiping, counts, unsure>>
RemoveFails(r) ==
  /\ Faults /\ At(r, "remove") /\ read[r].found # <<>> /\ spared' = spared \cup {r}
  /\ read' = [read EXCEPT ![r].found = Tail(@)]
  /\ UNCHANGED <<version, files, locks, wiping, counts, unsure, left>>

(* The part of the block that is asked for is appended; the range is done at
   its end, or after the last block of the source. *)
Offset(r) == IF read[r].index = read[r].start \div BlockSize THEN read[r].start % BlockSize ELSE 0
Join(r) ==
  /\ At(r, "have")
  /\ LET e == read[r]
         out == e.out \o SubSeq(e.data, Offset(r) + 1, Len(e.data))
         full == e.data # <<>> /\ e.end # -1 /\ Len(out) + e.start >= e.end
         done == full \/ Len(e.data) < BlockSize
     IN read' = [read EXCEPT ![r] = [e EXCEPT
          !.at = IF done THEN "answer" ELSE "look", !.index = IF done THEN @ ELSE @ + 1,
          !.out = IF full THEN SubSeq(out, 1, e.end - e.start) ELSE out, !.data = <<>>, !.size = 0]]
  /\ UNCHANGED <<version, files, locks, wiping, counts, unsure, left, spared>>
Leave(r) ==
  /\ At(r, "answer") /\ read' = [read EXCEPT ![r] = Idle]
  /\ UNCHANGED <<version, files, locks, wiping, counts, unsure, left, spared>>
(* The fetch fails or takes longer than fetch_timeout, and the read with it. *)
FetchFails(r) ==
  /\ Faults /\ At(r, "fetch") /\ locks' = locks \ {Block(r)}
  /\ read' = [read EXCEPT ![r] = Idle]
  /\ UNCHANGED <<version, files, wiping, counts, unsure, left, spared>>

-----------------------------------------------------------------------------
(* invalidate, and what goes on outside.                                   *)

(* The source gets other bytes; a read of it under way may see both. *)
Change(k) ==
  /\ changes < MaxChanges /\ changes' = changes + 1 /\ version[k] < Len(Length)
  /\ version' = [version EXCEPT ![k] = @ + 1] /\ unsure' = unsure \cup {k}
  /\ read' = [r \in Reader |-> IF read[r].key = k THEN [read[r] EXCEPT !.sure = FALSE] ELSE read[r]]
  /\ wiping' = IF wiping.key = k THEN [wiping EXCEPT !.clean = FALSE] ELSE wiping
  /\ UNCHANGED <<files, locks, reads, crashes, left, spared>>

(* The files whose names begin with the hash of the key, ".tmp" and ".bin"
   alike, are removed one by one; no lock is held, and a file that cannot be
   removed is left. *)
Invalidate(k) ==
  /\ wiping = NoWipe
  /\ wiping' = [key |-> k, bins |-> {b \in DOMAIN blocks : b[1] = k},
                tmps |-> {b \in DOMAIN parts : b[1] = k}, clean |-> \A r \in Reader : read[r].key # k]
  /\ UNCHANGED <<version, files, locks, read, counts, unsure, left, spared>>
WipeBlock(b) ==
  /\ b \in wiping.bins /\ wiping' = [wiping EXCEPT !.bins = @ \ {b}]
  /\ blocks' = Without(blocks, {b}) /\ order' = Kept(b)
  /\ UNCHANGED <<version, parts, locks, read, counts, unsure, left, spared>>
WipePart(b) ==
  /\ b \in wiping.tmps /\ wiping' = [wiping EXCEPT !.tmps = @ \ {b}]
  /\ parts' = Without(parts, {b})
  /\ UNCHANGED <<version, blocks, order, locks, read, counts, unsure, left, spared>>
WipeFails ==
  /\ Faults
  /\ \/ \E b \in wiping.bins : wiping' = [wiping EXCEPT !.bins = @ \ {b}, !.clean = FALSE]
     \/ \E b \in wiping.tmps : wiping' = [wiping EXCEPT !.tmps = @ \ {b}]
  /\ UNCHANGED <<version, files, locks, read, counts, unsure, left, spared>>
Wiped == wiping.bins = {} /\ wiping.tmps = {}
EndInvalidate ==
  /\ wiping.key # NoKey /\ Wiped /\ wiping' = NoWipe
  /\ unsure' = IF wiping.clean THEN unsure \ {wiping.key} ELSE unsure
  /\ UNCHANGED <<version, files, locks, read, counts, left, spared>>

(* The server is killed and started again: the files stay. *)
Crash ==
  /\ crashes < MaxCrashes /\ crashes' = crashes + 1
  /\ left' = left + Cardinality({r \in Reader : read[r].at \in {"evict", "remove"}})
  /\ read' = [r \in Reader |-> Idle] /\ locks' = {} /\ wiping' = NoWipe /\ spared' = {}
  /\ UNCHANGED <<version, files, reads, changes, unsure>>

Next ==
  \/ \E r \in Reader :
       \/ \E k \in Key, e \in Ranges : ReadRange(r, k, e[1], e[2])
       \/ Look(r) \/ Open(r) \/ Lock(r) \/ Again(r) \/ Take(r)
       \/ Fetch(r) \/ FetchFails(r) \/ Write(r) \/ WriteFails(r) \/ Rename(r)
       \/ List(r) \/ ListFails(r) \/ RemoveOldest(r) \/ RemoveFails(r) \/ Join(r) \/ Leave(r)
  \/ \E k \in Key : Change(k) \/ Invalidate(k)
  \/ \E b \in wiping.bins : WipeBlock(b)
  \/ \E b \in wiping.tmps : WipePart(b)
  \/ WipeFails \/ EndInvalidate \/ Crash

Spec == Init /\ [][Next]_vars

-----------------------------------------------------------------------------
(* Properties.                                                             *)

(* A range read from a source that did not change meanwhile, and that was
   invalidated, with no read of it under way and every block removed, after the
   last time it did, is exactly its bytes from start to end, or to its own end:
   whichever blocks came from files, were fetched, evicted or left by a crash
   (block_cache.rs:130-175, "avoid half a block being read by another" :122). *)
ReadIsExact ==
  \A r \in Reader : At(r, "answer") /\ read[r].sure =>
    LET bytes == Bytes(read[r].key, version[read[r].key])
        end == IF read[r].end = -1 THEN Len(bytes) ELSE Min({read[r].end, Len(bytes)})
    IN read[r].out = SubSeq(bytes, read[r].start + 1, end)

(* There are no more blocks than max_blocks but for those whose writers are
   still to evict, were killed before they did, or failed to; the next eviction
   that finds all of these and removes all it finds makes up for them
   (block_cache.rs:177-202). *)
SizeBounded ==
  Cardinality(DOMAIN blocks)
    <= MaxBlocks + left + Cardinality({r \in Reader : read[r].at \in {"evict", "remove"}})
=============================================================================
