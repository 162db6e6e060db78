-------------------------- MODULE MCChunkRangeList --------------------------
(***************************************************************************)
(* ChunkRangeList for TLC: the visitor is shown records with row ids 1..5, *)
(* a record that was never persisted (-1) and one that waits for its id    *)
(* (-2).                                                                   *)
(***************************************************************************)
EXTENDS ChunkRangeList

MCIds == {-2, -1} \cup (1..5)

============================================================================
