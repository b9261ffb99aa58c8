--------------------------- MODULE MCMemoryCache ---------------------------
(* MemoryCache on pages of two blocks, blocks of two frames. *)
EXTENDS MemoryCache, TLC

Symmetry == Permutations(Threads)
=============================================================================
