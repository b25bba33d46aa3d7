--------------------------- MODULE MCTestfsBlocks ---------------------------
(* Instances of TestfsBlocks for TLC.  The files are alike.                *)
EXTENDS TestfsBlocks, TLC

FileSymmetry == Permutations(Files)
=============================================================================
