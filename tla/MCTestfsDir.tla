----------------------------- MODULE MCTestfsDir -----------------------------
(* An instance of TestfsDir for TLC.  In the code an entry has two         *)
(* integers, its name and a zero; here the integers have 1 and 2 bytes,    *)
(* and "." and the names a and b are as long as each other.  Entries for a *)
(* and b fill the first block to its end.  An entry for cc behind that of  *)
(* a is cut within its name, one for a behind that of cc within its number.*)
EXTENDS TestfsDir, TLC

CONSTANTS a, b, cc

MCEntrySize ==
    [n \in Names \cup {Dot, DotDot} |-> IF n = DotDot THEN 5 ELSE IF n = cc THEN 6 ELSE 4]
Symmetry == Permutations({a, b})
=============================================================================
