---------------------------- MODULE MCFileCache ----------------------------
(* Instances of FileCache for TLC.  Two files share a bucket; the cache     *)
(* holds any two files, also the one that is alone in its bucket twice, but *)
(* not all three.                                                           *)
EXTENDS FileCache, TLC

CONSTANTS a, b, c

Sizes   == a :> 1 @@ b :> 2 @@ c :> 2
Hashes  == a :> 0 @@ b :> 0 @@ c :> 1
ThreadSymmetry == Permutations(Threads)
=============================================================================
