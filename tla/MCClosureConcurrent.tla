------------------------- MODULE MCClosureConcurrent -------------------------
(***************************************************************************)
(* Instances of ClosureConcurrent on a chain a -> b -> c, the shortcut      *)
(* a -> c and the way back c -> a, with two transactions.                   *)
(***************************************************************************)
EXTENDS ClosureConcurrent, TLC

CONSTANTS a, b, c, t1, t2

MCLink == {<<a, b>>, <<b, c>>, <<a, c>>, <<c, a>>}

Nothing == [x \in Tx |-> {}]

\* Either transaction may write, or delete, any relation.
Anything == [x \in Tx |-> MCLink]

\* Only t1 may.
OfTheFirst == [Nothing EXCEPT ![t1] = MCLink]

Symmetry == Permutations(Tx)
=============================================================================
