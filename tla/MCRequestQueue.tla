--------------------------- MODULE MCRequestQueue ---------------------------
(* Instances of RequestQueue for TLC.  The temporal properties do without  *)
(* symmetry, though the threads of the pool are alike.                     *)
EXTENDS RequestQueue
=============================================================================
