--------------------------- MODULE MCBlockManager ---------------------------
(* BlockManager for TLC: two blocks, three seconds (a block put, deleted   *)
(* and put again), compactions of one or two index blobs, and a store of   *)
(* at most two pack blobs and three index blobs.                           *)
EXTENDS BlockManager, TLC

CONSTANTS c1, c2

MCContents == {c1, c2}
Symmetry   == Permutations(MCContents)

\* States beyond these are not explored.
MaxPacks   == 2
MaxIndexes == 3
Bounded    == Cardinality(packs) <= MaxPacks /\ Cardinality(indexes) <= MaxIndexes
=============================================================================
