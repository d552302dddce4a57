----------------------------- MODULE MCCheckCache -----------------------------
(***************************************************************************)
(* Small instances of CheckCache.  Servers, writes and requests are         *)
(* interchangeable.                                                         *)
(***************************************************************************)
EXTENDS CheckCache, TLC

CONSTANTS s1, s2, t1, t2, c1, c2

Symmetry == Permutations(Server) \cup Permutations(Tx) \cup Permutations(Check)
=============================================================================
