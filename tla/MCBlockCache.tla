---------------------------- MODULE MCBlockCache -----------------------------
(* BlockCache for TLC: blocks of two bytes, one source whose first version
   ends inside a block and whose second ends with one, a range that begins
   inside a block and ends inside the next, and one without an end that begins
   with the second block. *)
EXTENDS BlockCache, TLC
CONSTANTS k1, r1, r2
TheLengths == <<3, 4>>
TheRanges == {<<1, 3>>, <<2, -1>>}
Readers == Permutations(Reader)
=============================================================================
