------------------------------ MODULE ClosureOps ------------------------------
(***************************************************************************)
(* The rows of the table entity_closure and the SQL statements that         *)
(* relation_repository.go runs on it.                                       *)
(*                                                                         *)
(* The table of one tenant is a function from the pairs                     *)
(* <<descendant, ancestor>> of its primary key to the column depth.  A      *)
(* node stands for a (type, id) pair.                                       *)
(***************************************************************************)
EXTENDS Integers

\* Mutant: ON CONFLICT ... DO NOTHING, the depth of an existing row stays.
UpsertKeepingOld(C, R) ==
    [p \in DOMAIN C \cup DOMAIN R |-> IF p \in DOMAIN C THEN C[p] ELSE R[p]]

\* ON CONFLICT ... DO UPDATE SET depth = LEAST(old, new): rows R are upserted
\* into the table C.
Upsert(C, R) ==
    [p \in DOMAIN C \cup DOMAIN R |->
        IF p \in DOMAIN C /\ (p \in DOMAIN R => C[p] <= R[p]) THEN C[p] ELSE R[p]]

Ancestors(C, n) == {p[2] : p \in {q \in DOMAIN C : q[1] = n}}

Descendants(C, n) == {p[1] : p \in {q \in DOMAIN C : q[2] = n}}

(***************************************************************************)
(* The four INSERT statements of updateClosureOnAdd for the edge e -> s.    *)
(* Each sees the rows the earlier ones inserted.                            *)
(***************************************************************************)
\* Mutant: the direct row gets depth 0.
AddDirectAtZero(C, e, s) == Upsert(C, [p \in {<<e, s>>} |-> 0])

AddDirect(C, e, s) == Upsert(C, [p \in {<<e, s>>} |-> 1])

AddEntityToAncestors(C, e, s) ==
    Upsert(C, [p \in {e} \X Ancestors(C, s) |-> C[<<s, p[2]>>] + 1])

\* Mutant: the third or the fourth INSERT is left out.
AddNothing(C, e, s) == C

AddDescendantsToSubject(C, e, s) ==
    Upsert(C, [p \in Descendants(C, e) \X {s} |-> C[<<p[1], e>>] + 1])

AddCross(C, e, s) ==
    Upsert(C, [p \in Descendants(C, e) \X Ancestors(C, s) |->
                  C[<<p[1], e>>] + C[<<s, p[2]>>] + 1])

UpdateClosureOnAdd(C, e, s) ==
    LET C1 == AddDirect(C, e, s)
        C2 == AddEntityToAncestors(C1, e, s)
        C3 == AddDescendantsToSubject(C2, e, s)
    IN  AddCross(C3, e, s)

(***************************************************************************)
(* Steps 1 and 2 of updateClosureOnDelete: the entity and its descendants   *)
(* in the table are affected, and all their rows as descendants go.         *)
(***************************************************************************)
Affected(C, e) == {e} \cup Descendants(C, e)

DropDescendants(C, A) == [p \in {q \in DOMAIN C : q[1] \notin A} |-> C[p]]

(***************************************************************************)
(* Reference notions, independent of the statements above.                  *)
(***************************************************************************)
IsTransitiveSet(P) ==
    \A p, q \in P : p[2] = q[1] => <<p[1], q[2]>> \in P

\* P is the least transitive set of pairs that contains the edges E.
IsLeastClosure(P, E) ==
    /\ E \subseteq P
    /\ IsTransitiveSet(P)
    /\ \A R \in SUBSET P : E \subseteq R /\ IsTransitiveSet(R) => P \subseteq R

\* The Bellman equations of the shortest path lengths: a row has depth 1 iff
\* it is an edge, and otherwise one more than the best first hop.
IsShortest(C, E) ==
    \A p \in DOMAIN C :
        IF p \in E
        THEN C[p] = 1
        ELSE LET hops == {m \in {q[2] : q \in {r \in E : r[1] = p[1]}} :
                              <<m, p[2]>> \in DOMAIN C}
             IN  /\ \E m \in hops : C[p] = C[<<m, p[2]>>] + 1
                 /\ \A m \in hops : C[p] <= C[<<m, p[2]>>] + 1
=============================================================================
