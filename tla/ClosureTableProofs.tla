-------------------------- MODULE ClosureTableProofs --------------------------
(***************************************************************************)
(* Theorems about ClosureTable for every set of nodes and tuples.           *)
(*                                                                         *)
(* The SQL statements are first reduced to what they do to the set of pairs *)
(* of the table (AddDomain, DropDomain); that set is then shown to stay     *)
(* transitive, and to stay the least closure of the edges it represents,    *)
(* with the lengths of the shortest paths as depths.                        *)
(***************************************************************************)
EXTENDS ClosureTable, FiniteSetTheorems, TLAPS

\* A pair is in the result of the four INSERTs iff it was in the table or it
\* leads from the entity or one below it to the subject or one above it.
LEMMA AddDomain ==
    ASSUME NEW N, NEW C, DOMAIN C \subseteq N \X N, IsTransitiveSet(DOMAIN C),
           NEW e \in N, NEW s \in N
    PROVE  LET P == DOMAIN C
               Q == DOMAIN UpdateClosureOnAdd(C, e, s)
           IN  /\ Q \subseteq N \X N
               /\ \A x, y \in N : <<x, y>> \in Q <=>
                     \/ <<x, y>> \in P
                     \/ /\ x = e \/ <<x, e>> \in P
                        /\ y = s \/ <<s, y>> \in P
<1> DEFINE C1 == AddDirect(C, e, s)
           C2 == AddEntityToAncestors(C1, e, s)
           C3 == AddDescendantsToSubject(C2, e, s)
           C4 == AddCross(C3, e, s)
<1>1. DOMAIN C1 = DOMAIN C \cup {<<e, s>>}
  BY DEF AddDirect, Upsert
<1>2. DOMAIN C2 = DOMAIN C1 \cup ({e} \X Ancestors(C1, s))
  BY DEF AddEntityToAncestors, Upsert
<1>3. DOMAIN C3 = DOMAIN C2 \cup (Descendants(C2, e) \X {s})
  BY DEF AddDescendantsToSubject, Upsert
<1>4. DOMAIN C4 = DOMAIN C3 \cup (Descendants(C3, e) \X Ancestors(C3, s))
  BY DEF AddCross, Upsert
<1>5. UpdateClosureOnAdd(C, e, s) = C4
  BY DEF UpdateClosureOnAdd
<1> HIDE DEF C1, C2, C3, C4
<1>6. \A D : DOMAIN D \subseteq N \X N =>
         /\ Ancestors(D, s) = {y \in N : <<s, y>> \in DOMAIN D}
         /\ Descendants(D, e) = {x \in N : <<x, e>> \in DOMAIN D}
  BY DEF Ancestors, Descendants
<1>7. /\ DOMAIN C1 \subseteq N \X N
      /\ \A x, y \in N : <<x, y>> \in DOMAIN C1 <=>
            <<x, y>> \in DOMAIN C \/ (x = e /\ y = s)
  BY <1>1
<1>8. /\ DOMAIN C2 \subseteq N \X N
      /\ \A x, y \in N : <<x, y>> \in DOMAIN C2 <=>
            <<x, y>> \in DOMAIN C1 \/ (x = e /\ <<s, y>> \in DOMAIN C1)
  <2>1. Ancestors(C1, s) = {y \in N : <<s, y>> \in DOMAIN C1}
    BY <1>6, <1>7
  <2>2. QED  BY <1>2, <1>7, <2>1
<1>9. /\ DOMAIN C3 \subseteq N \X N
      /\ \A x, y \in N : <<x, y>> \in DOMAIN C3 <=>
            <<x, y>> \in DOMAIN C2 \/ (y = s /\ <<x, e>> \in DOMAIN C2)
  <2>1. Descendants(C2, e) = {x \in N : <<x, e>> \in DOMAIN C2}
    BY <1>6, <1>8
  <2>2. QED  BY <1>3, <1>8, <2>1
<1>10. /\ DOMAIN C4 \subseteq N \X N
       /\ \A x, y \in N : <<x, y>> \in DOMAIN C4 <=>
             <<x, y>> \in DOMAIN C3 \/ (<<x, e>> \in DOMAIN C3 /\ <<s, y>> \in DOMAIN C3)
  <2>1. /\ Ancestors(C3, s) = {y \in N : <<s, y>> \in DOMAIN C3}
        /\ Descendants(C3, e) = {x \in N : <<x, e>> \in DOMAIN C3}
    BY <1>6, <1>9
  <2>2. QED  BY <1>4, <1>9, <2>1
<1>11. \A x, y, z \in N : <<x, y>> \in DOMAIN C /\ <<y, z>> \in DOMAIN C => <<x, z>> \in DOMAIN C
  BY DEF IsTransitiveSet
<1>12. SUFFICES ASSUME NEW x \in N, NEW y \in N
                PROVE  <<x, y>> \in DOMAIN C4 <=>
                          \/ <<x, y>> \in DOMAIN C
                          \/ /\ x = e \/ <<x, e>> \in DOMAIN C
                             /\ y = s \/ <<s, y>> \in DOMAIN C
  BY <1>5, <1>10
<1>13. \A v, w \in N : <<v, w>> \in DOMAIN C3 <=>
          \/ <<v, w>> \in DOMAIN C
          \/ v = e /\ w = s
          \/ v = e /\ <<s, w>> \in DOMAIN C
          \/ w = s /\ <<v, e>> \in DOMAIN C
  BY <1>7, <1>8, <1>9
<1>14. QED
  BY <1>10, <1>11, <1>13

\* Step 2 of a delete leaves the rows whose descendant is not affected.
LEMMA DropDomain ==
    ASSUME NEW C, NEW A
    PROVE  DOMAIN DropDescendants(C, A) = {p \in DOMAIN C : p[1] \notin A}
  BY DEF DropDescendants

\* The affected entities are the entity itself and those with a row up to it.
LEMMA AffectedSet ==
    ASSUME NEW N, NEW C, DOMAIN C \subseteq N \X N, NEW e \in N
    PROVE  /\ Affected(C, e) \subseteq N
           /\ \A x \in N : x \in Affected(C, e) <=> x = e \/ <<x, e>> \in DOMAIN C
  BY DEF Affected, Descendants

-----------------------------------------------------------------------------
(***************************************************************************)
(* Transitivity of the table.                                               *)
(***************************************************************************)
LEMMA AddTransitive ==
    ASSUME NEW N, NEW C, DOMAIN C \subseteq N \X N, IsTransitiveSet(DOMAIN C),
           NEW e \in N, NEW s \in N
    PROVE  IsTransitiveSet(DOMAIN UpdateClosureOnAdd(C, e, s))
<1> DEFINE P == DOMAIN C
           Q == DOMAIN UpdateClosureOnAdd(C, e, s)
<1>1. /\ Q \subseteq N \X N
      /\ \A x, y \in N : <<x, y>> \in Q <=>
            \/ <<x, y>> \in P
            \/ /\ x = e \/ <<x, e>> \in P
               /\ y = s \/ <<s, y>> \in P
  BY AddDomain
<1>2. \A x, y, z \in N : <<x, y>> \in P /\ <<y, z>> \in P => <<x, z>> \in P
  BY DEF IsTransitiveSet
<1> HIDE DEF P, Q
<1>3. \A x, y, z \in N : <<x, y>> \in Q /\ <<y, z>> \in Q => <<x, z>> \in Q
  BY <1>1, <1>2
<1>4. \A p, q \in Q : p[2] = q[1] => <<p[1], q[2]>> \in Q
  BY <1>1, <1>3
<1>5. QED  BY <1>4 DEF IsTransitiveSet, Q

\* Dropping all rows of some descendants keeps the table transitive.
LEMMA DropTransitive ==
    ASSUME NEW N, NEW C, DOMAIN C \subseteq N \X N, IsTransitiveSet(DOMAIN C), NEW A
    PROVE  /\ DOMAIN DropDescendants(C, A) \subseteq N \X N
           /\ IsTransitiveSet(DOMAIN DropDescendants(C, A))
  BY DropDomain DEF IsTransitiveSet

-----------------------------------------------------------------------------
(***************************************************************************)
(* The table as the least closure of a set of edges.                        *)
(***************************************************************************)
LEMMA AddLeast ==
    ASSUME NEW N, NEW C, DOMAIN C \subseteq N \X N, NEW E,
           IsLeastClosure(DOMAIN C, E), NEW e \in N, NEW s \in N
    PROVE  IsLeastClosure(DOMAIN UpdateClosureOnAdd(C, e, s), E \cup {<<e, s>>})
<1> DEFINE P == DOMAIN C
           Q == DOMAIN UpdateClosureOnAdd(C, e, s)
<1>0. IsTransitiveSet(P) /\ E \subseteq P
  BY DEF IsLeastClosure
<1>1. /\ Q \subseteq N \X N
      /\ \A x, y \in N : <<x, y>> \in Q <=>
            \/ <<x, y>> \in P
            \/ /\ x = e \/ <<x, e>> \in P
               /\ y = s \/ <<s, y>> \in P
  BY <1>0, AddDomain
<1>2. IsTransitiveSet(Q)
  BY <1>0, AddTransitive
<1>3. ASSUME NEW R \in SUBSET Q, E \cup {<<e, s>>} \subseteq R, IsTransitiveSet(R)
      PROVE  Q \subseteq R
  <2>1. E \subseteq R \cap P /\ R \cap P \in SUBSET P
    BY <1>0, <1>3
  <2>2. IsTransitiveSet(R \cap P)
    BY <1>0, <1>3 DEF IsTransitiveSet
  <2>3. P \subseteq R
    BY <2>1, <2>2 DEF IsLeastClosure
  <2>4. \A x, y, z \in N : <<x, y>> \in R /\ <<y, z>> \in R => <<x, z>> \in R
    BY <1>3 DEF IsTransitiveSet
  <2> HIDE DEF P, Q
  <2>5. \A x, y \in N : <<x, y>> \in Q => <<x, y>> \in R
    <3> SUFFICES ASSUME NEW x \in N, NEW y \in N, <<x, y>> \in Q
                 PROVE  <<x, y>> \in R
      OBVIOUS
    <3>1. CASE <<x, y>> \in P
      BY <3>1, <2>3
    <3>2. CASE <<x, y>> \notin P
      <4>1. /\ x = e \/ <<x, e>> \in R
            /\ y = s \/ <<s, y>> \in R
        BY <3>2, <1>1, <2>3
      <4>2. <<e, s>> \in R
        BY <1>3
      <4>3. <<x, s>> \in R
        BY <4>1, <4>2, <2>4
      <4>4. QED  BY <4>1, <4>3, <2>4
    <3>3. QED  BY <3>1, <3>2
  <2>6. QED  BY <2>5, <1>1
<1>4. E \cup {<<e, s>>} \subseteq Q
  <2>1. P \subseteq N \X N
    OBVIOUS
  <2> HIDE DEF P, Q
  <2>2. ASSUME NEW p \in P
        PROVE  p \in Q
    <3>1. p = <<p[1], p[2]>> /\ p[1] \in N /\ p[2] \in N
      BY <2>1
    <3>2. QED  BY <3>1, <1>1
  <2>3. QED  BY <1>0, <1>1, <2>2
<1>5. QED
  BY <1>2, <1>3, <1>4 DEF IsLeastClosure

\* Dropping the rows of everything that reaches e leaves the least closure of
\* the edges that start elsewhere: no such edge leads into what was dropped.
LEMMA DropLeast ==
    ASSUME NEW N, NEW C, DOMAIN C \subseteq N \X N, NEW E,
           IsLeastClosure(DOMAIN C, E), NEW e \in N
    PROVE  LET A == Affected(C, e)
           IN  IsLeastClosure(DOMAIN DropDescendants(C, A), {d \in E : d[1] \notin A})
<1> DEFINE P == DOMAIN C
           A == Affected(C, e)
           Q == {p \in P : p[1] \notin A}
           F == {d \in E : d[1] \notin A}
<1>1. /\ IsTransitiveSet(P)
      /\ E \subseteq P
      /\ \A R \in SUBSET P : E \subseteq R /\ IsTransitiveSet(R) => P \subseteq R
  BY DEF IsLeastClosure
<1>2. \A x \in N : x \in A <=> x = e \/ <<x, e>> \in P
  BY AffectedSet
<1>3. \A p \in Q : p[2] \notin A
  <2> SUFFICES ASSUME NEW p \in Q, p[2] \in A
               PROVE  p[1] \in A
    OBVIOUS
  <2>1. p \in N \X N /\ p \in P
    OBVIOUS
  <2>2. CASE p[2] = e
    <3>1. p = <<p[1], e>>
      BY <2>1, <2>2
    <3>2. QED  BY <3>1, <2>1, <1>2
  <2>3. CASE <<p[2], e>> \in P
    <3>1. <<p[1], e>> \in P
      BY <2>1, <2>3, <1>1 DEF IsTransitiveSet
    <3>2. QED  BY <3>1, <2>1, <1>2
  <2>4. QED  BY <2>1, <2>2, <2>3, <1>2
<1>4. IsTransitiveSet(Q)
  BY <1>1 DEF IsTransitiveSet
<1>5. ASSUME NEW R \in SUBSET Q, F \subseteq R, IsTransitiveSet(R)
      PROVE  Q \subseteq R
  <2> DEFINE R2 == R \cup {p \in P : p[1] \in A}
  <2>1. R2 \in SUBSET P /\ E \subseteq R2
    BY <1>1, <1>5
  <2>2. IsTransitiveSet(R2)
    <3> SUFFICES ASSUME NEW p \in R2, NEW q \in R2, p[2] = q[1]
                 PROVE  <<p[1], q[2]>> \in R2
      BY DEF IsTransitiveSet
    <3>1. <<p[1], q[2]>> \in P
      BY <2>1, <1>1 DEF IsTransitiveSet
    <3>2. CASE p[1] \in A
      BY <3>1, <3>2
    <3>3. CASE p[1] \notin A
      <4>1. p \in R /\ q \in R
        BY <3>3, <1>3
      <4>2. QED  BY <4>1, <1>5 DEF IsTransitiveSet
    <3>4. QED  BY <3>2, <3>3
  <2>3. P \subseteq R2
    BY <2>1, <2>2, <1>1
  <2>4. QED  BY <2>3
<1>6. F \subseteq Q
  BY <1>1
<1>7. DOMAIN DropDescendants(C, A) = Q
  BY DropDomain
<1>8. IsLeastClosure(Q, F)
  BY <1>4, <1>5, <1>6 DEF IsLeastClosure
<1>9. QED
  BY <1>7, <1>8

-----------------------------------------------------------------------------
(***************************************************************************)
(* Types.                                                                   *)
(***************************************************************************)
LEMMA EdgeType ==
    ASSUME TypeOK
    PROVE
    /\ \A t \in tuples : t.entity \in Node /\ t.subject \in Node
                        /\ Edge(t) \in Node \X Node
                        /\ Edge(t)[1] = t.entity /\ Edge(t)[2] = t.subject
    /\ \A T \in SUBSET tuples : Edges(T) \subseteq Node \X Node
<1>1. \A t \in tuples : t.entity \in Node /\ t.subject \in Node
  BY DEF TypeOK, TupleType
<1>2. QED  BY <1>1 DEF Edge, Edges

\* Edges added again by a delete join nodes.
LEMMA EdgesToReaddType ==
    ASSUME TypeOK, NEW T \in SUBSET tuples, NEW A, NEW d
    PROVE  EdgesToReadd(T, A, d) \subseteq Node \X Node
  BY EdgeType DEF EdgesToReadd

\* Rows are positive: every depth a statement writes is 1 or a sum with 1.
LEMMA UpsertType ==
    ASSUME NEW C, NEW R, IsClosureTable(C), IsClosureTable(R)
    PROVE  IsClosureTable(Upsert(C, R))
  BY DEF Upsert, IsClosureTable

\* Row p of the table D that an upsert makes of C: has says whether a row for p was
\* proposed, with depth d.
Merged(C, D, p, has, d) ==
    /\ p \in DOMAIN D <=> p \in DOMAIN C \/ has
    /\ p \in DOMAIN D => D[p] \in Nat \ {0}
    /\ p \in DOMAIN C => C[p] \in Nat \ {0} /\ D[p] <= C[p]
    /\ p \in DOMAIN C /\ ~has => D[p] = C[p]
    /\ has => d \in Nat \ {0} /\ D[p] <= d
    /\ has => D[p] = d \/ (p \in DOMAIN C /\ D[p] = C[p])

\* LEAST keeps the smaller of two depths.
LEMMA UpsertRow ==
    ASSUME NEW C, NEW R, IsClosureTable(C), IsClosureTable(R), NEW p
    PROVE  /\ IsClosureTable(Upsert(C, R))
           /\ Merged(C, Upsert(C, R), p, p \in DOMAIN R, R[p])
<1>1. IsClosureTable(Upsert(C, R))
  BY UpsertType
<1>2. p \in DOMAIN C => C[p] \in Nat \ {0}
  BY DEF IsClosureTable
<1>3. p \in DOMAIN R => R[p] \in Nat \ {0}
  BY DEF IsClosureTable
<1>4. DOMAIN Upsert(C, R) = DOMAIN C \cup DOMAIN R
  BY DEF Upsert
<1>5. p \in DOMAIN C \cup DOMAIN R =>
         Upsert(C, R)[p] = IF p \in DOMAIN C /\ (p \in DOMAIN R => C[p] <= R[p]) THEN C[p] ELSE R[p]
  BY DEF Upsert
<1> QED
  BY <1>1, <1>2, <1>3, <1>4, <1>5 DEF Merged

\* The first INSERT proposes the row of the edge.
LEMMA DirectRow ==
    ASSUME NEW C, IsClosureTable(C), NEW e \in Node, NEW s \in Node, NEW x \in Node, NEW y \in Node
    PROVE  /\ IsClosureTable(AddDirect(C, e, s))
           /\ Merged(C, AddDirect(C, e, s), <<x, y>>, x = e /\ y = s, 1)
<1> DEFINE R == [p \in {<<e, s>>} |-> 1]
<1>1. IsClosureTable(R)
  BY DEF IsClosureTable
<1>2. <<x, y>> \in DOMAIN R <=> x = e /\ y = s
  OBVIOUS
<1>3. x = e /\ y = s => R[<<x, y>>] = 1
  OBVIOUS
<1>4. AddDirect(C, e, s) = Upsert(C, R)
  BY DEF AddDirect
<1> HIDE DEF R
<1>5. /\ IsClosureTable(Upsert(C, R))
      /\ Merged(C, Upsert(C, R), <<x, y>>, <<x, y>> \in DOMAIN R, R[<<x, y>>])
  BY <1>1, UpsertRow
<1> QED
  BY <1>2, <1>3, <1>4, <1>5 DEF Merged

\* What the statements read: the rows above the subject and below the entity.
LEMMA TableRows ==
    ASSUME NEW C, IsClosureTable(C), NEW e \in Node, NEW s \in Node
    PROVE  /\ Ancestors(C, s) = {y \in Node : <<s, y>> \in DOMAIN C}
           /\ Descendants(C, e) = {x \in Node : <<x, e>> \in DOMAIN C}
           /\ Ancestors(C, s) \subseteq Node /\ Descendants(C, e) \subseteq Node
           /\ \A x, y \in Node : <<x, y>> \in DOMAIN C => C[<<x, y>>] \in Nat \ {0}
  BY DEF Ancestors, Descendants, IsClosureTable

\* The second proposes rows from the entity to everything above the subject.
LEMMA AncestorRow ==
    ASSUME NEW C, IsClosureTable(C), NEW e \in Node, NEW s \in Node, NEW x \in Node, NEW y \in Node
    PROVE  /\ IsClosureTable(AddEntityToAncestors(C, e, s))
           /\ Merged(C, AddEntityToAncestors(C, e, s), <<x, y>>,
                     x = e /\ <<s, y>> \in DOMAIN C, C[<<s, y>>] + 1)
<1> DEFINE R == [p \in {e} \X Ancestors(C, s) |-> C[<<s, p[2]>>] + 1]
<1>1. \A p \in {e} \X Ancestors(C, s) : C[<<s, p[2]>>] \in Nat \ {0}
  BY TableRows
<1>2. IsClosureTable(R)
  <2>1. {e} \X Ancestors(C, s) \subseteq Node \X Node
    <3>1. Ancestors(C, s) \subseteq Node /\ Descendants(C, e) \subseteq Node
      BY TableRows
    <3> QED BY <3>1
  <2>0. DOMAIN R = {e} \X Ancestors(C, s)
    OBVIOUS
  <2>2. \A p \in DOMAIN R : R[p] \in Nat \ {0}
    BY <1>1
  <2> QED BY <2>0, <2>1, <2>2 DEF IsClosureTable
<1>3. <<x, y>> \in DOMAIN R <=> x = e /\ <<s, y>> \in DOMAIN C
  BY TableRows
<1>4. <<x, y>> \in DOMAIN R => R[<<x, y>>] = C[<<s, y>>] + 1
  OBVIOUS
<1>5. AddEntityToAncestors(C, e, s) = Upsert(C, R)
  BY DEF AddEntityToAncestors
<1> HIDE DEF R
<1>6. /\ IsClosureTable(Upsert(C, R))
      /\ Merged(C, Upsert(C, R), <<x, y>>, <<x, y>> \in DOMAIN R, R[<<x, y>>])
  BY <1>2, UpsertRow
<1> QED
  BY <1>3, <1>4, <1>5, <1>6 DEF Merged

\* The third proposes rows to the subject from everything below the entity.
LEMMA DescendantRow ==
    ASSUME NEW C, IsClosureTable(C), NEW e \in Node, NEW s \in Node, NEW x \in Node, NEW y \in Node
    PROVE  /\ IsClosureTable(AddDescendantsToSubject(C, e, s))
           /\ Merged(C, AddDescendantsToSubject(C, e, s), <<x, y>>,
                     y = s /\ <<x, e>> \in DOMAIN C, C[<<x, e>>] + 1)
<1> DEFINE R == [p \in Descendants(C, e) \X {s} |-> C[<<p[1], e>>] + 1]
<1>1. \A p \in Descendants(C, e) \X {s} : C[<<p[1], e>>] \in Nat \ {0}
  BY TableRows
<1>2. IsClosureTable(R)
  <2>1. Descendants(C, e) \X {s} \subseteq Node \X Node
    <3>1. Ancestors(C, s) \subseteq Node /\ Descendants(C, e) \subseteq Node
      BY TableRows
    <3> QED BY <3>1
  <2>0. DOMAIN R = Descendants(C, e) \X {s}
    OBVIOUS
  <2>2. \A p \in DOMAIN R : R[p] \in Nat \ {0}
    BY <1>1
  <2> QED BY <2>0, <2>1, <2>2 DEF IsClosureTable
<1>3. <<x, y>> \in DOMAIN R <=> y = s /\ <<x, e>> \in DOMAIN C
  BY TableRows
<1>4. <<x, y>> \in DOMAIN R => R[<<x, y>>] = C[<<x, e>>] + 1
  OBVIOUS
<1>5. AddDescendantsToSubject(C, e, s) = Upsert(C, R)
  BY DEF AddDescendantsToSubject
<1> HIDE DEF R
<1>6. /\ IsClosureTable(Upsert(C, R))
      /\ Merged(C, Upsert(C, R), <<x, y>>, <<x, y>> \in DOMAIN R, R[<<x, y>>])
  BY <1>2, UpsertRow
<1> QED
  BY <1>3, <1>4, <1>5, <1>6 DEF Merged

\* The fourth proposes rows from everything below the entity to everything above
\* the subject.
LEMMA CrossRow ==
    ASSUME NEW C, IsClosureTable(C), NEW e \in Node, NEW s \in Node, NEW x \in Node, NEW y \in Node
    PROVE  /\ IsClosureTable(AddCross(C, e, s))
           /\ Merged(C, AddCross(C, e, s), <<x, y>>,
                     <<x, e>> \in DOMAIN C /\ <<s, y>> \in DOMAIN C,
                     C[<<x, e>>] + C[<<s, y>>] + 1)
<1> DEFINE R == [p \in Descendants(C, e) \X Ancestors(C, s) |->
                     C[<<p[1], e>>] + C[<<s, p[2]>>] + 1]
<1>1. \A p \in Descendants(C, e) \X Ancestors(C, s) :
         C[<<p[1], e>>] \in Nat \ {0} /\ C[<<s, p[2]>>] \in Nat \ {0}
  BY TableRows
<1>2. IsClosureTable(R)
  <2>1. Descendants(C, e) \X Ancestors(C, s) \subseteq Node \X Node
    <3>1. Ancestors(C, s) \subseteq Node /\ Descendants(C, e) \subseteq Node
      BY TableRows
    <3> QED BY <3>1
  <2>0. DOMAIN R = Descendants(C, e) \X Ancestors(C, s)
    OBVIOUS
  <2>2. \A p \in DOMAIN R : R[p] \in Nat \ {0}
    BY <1>1
  <2> QED BY <2>0, <2>1, <2>2 DEF IsClosureTable
<1>3. <<x, y>> \in DOMAIN R <=> <<x, e>> \in DOMAIN C /\ <<s, y>> \in DOMAIN C
  BY TableRows
<1>4. <<x, y>> \in DOMAIN R => R[<<x, y>>] = C[<<x, e>>] + C[<<s, y>>] + 1
  OBVIOUS
<1>5. AddCross(C, e, s) = Upsert(C, R)
  BY DEF AddCross
<1> HIDE DEF R
<1>6. /\ IsClosureTable(Upsert(C, R))
      /\ Merged(C, Upsert(C, R), <<x, y>>, <<x, y>> \in DOMAIN R, R[<<x, y>>])
  BY <1>2, UpsertRow
<1> QED
  BY <1>3, <1>4, <1>5, <1>6 DEF Merged

\* An added edge keeps the rows of the table well-formed.
LEMMA AddType ==
    ASSUME NEW C, IsClosureTable(C), NEW e \in Node, NEW s \in Node
    PROVE  IsClosureTable(UpdateClosureOnAdd(C, e, s))
<1>1. \A D : IsClosureTable(D) => /\ IsClosureTable(AddDirect(D, e, s))
                                  /\ IsClosureTable(AddEntityToAncestors(D, e, s))
                                  /\ IsClosureTable(AddDescendantsToSubject(D, e, s))
                                  /\ IsClosureTable(AddCross(D, e, s))
  BY DirectRow, AncestorRow, DescendantRow, CrossRow
<1>2. QED
  BY <1>1 DEF UpdateClosureOnAdd

\* So does the DELETE of step 2.
LEMMA DropType ==
    ASSUME NEW C, IsClosureTable(C), NEW A
    PROVE  IsClosureTable(DropDescendants(C, A))
  BY DEF DropDescendants, IsClosureTable

\* SELECT COUNT(*) is a number: the table is finite.
LEMMA CountType ==
    ASSUME NEW C, IsClosureTable(C)
    PROVE  Cardinality(DOMAIN C) \in Nat
<1>1. IsFiniteSet(Node \X Node)
  BY FS_Product, ConstantsAssumption DEF ConstantsAssumption
<1>2. IsFiniteSet(DOMAIN C)
  BY <1>1, FS_Subset DEF IsClosureTable
<1>3. QED  BY <1>2, FS_CardinalityType

\* The empty table is well-formed.
LEMMA EmptyTableType == IsClosureTable([p \in {} |-> 0])
  BY DEF IsClosureTable

\* What an update for a deleted edge leaves behind is of the right type.
LEMMA DeleteStepType ==
    ASSUME TypeOK, NEW T \in SUBSET tuples, NEW t \in tuples,
           UpdateClosureOnDelete(T, t.entity, t.subject)
    PROVE  IsClosureTable(wClosure') /\ readd' \subseteq Node \X Node
  BY DropType, EdgesToReaddType DEF UpdateClosureOnDelete, TypeOK

\* The variables keep their types under every operation of the repository.
THEOREM TypeCorrect == Spec => []TypeOK
<1>1. Init => TypeOK
  BY EmptyTableType, ConstantsAssumption DEF Init, TypeOK, Idle, ConstantsAssumption
<1>2. TypeOK /\ [Next]_vars => TypeOK'
  <2> SUFFICES ASSUME TypeOK, [Next]_vars
               PROVE  TypeOK'
    OBVIOUS
  <2> USE ConstantsAssumption DEF ConstantsAssumption
  <2>1. ASSUME NEW kind \in {"write", "delete"}, NEW n \in 1..MaxBatch, Begin(kind, n)
        PROVE  TypeOK'
    BY <2>1 DEF Begin, TypeOK
  <2>2. CASE BeginWrite
    BY <2>2, <2>1 DEF BeginWrite
  <2>3. CASE BeginBatchWrite
    BY <2>3, <2>1 DEF BeginBatchWrite
  <2>4. CASE BeginDelete
    BY <2>4, <2>1 DEF BeginDelete
  <2>5. CASE BeginBatchDelete
    BY <2>5, <2>1 DEF BeginBatchDelete
  <2>6. ASSUME NEW t \in tuples, InsertTuple(t)
        PROVE  TypeOK'
    <3>1. IsClosureTable(wClosure')
      BY <2>6, AddType, EdgeType DEF InsertTuple, TypeOK
    <3>2. QED  BY <2>6, <3>1 DEF InsertTuple, TypeOK
  <2>7. ASSUME NEW t \in tuples, DeleteTuple(t)
        PROVE  TypeOK'
    <3>1. IsClosureTable(wClosure') /\ readd' \subseteq Node \X Node
      <4>1. CASE Tracked(t)
        BY <2>7, <4>1, DeleteStepType DEF DeleteTuple, TypeOK
      <4>2. CASE ~Tracked(t)
        BY <2>7, <4>2 DEF DeleteTuple, TypeOK
      <4>3. QED  BY <4>1, <4>2
    <3>2. QED  BY <2>7, <3>1 DEF DeleteTuple, TypeOK
  <2>8. ASSUME NEW f \in Filter, BeginDeleteByFilter(f)
        PROVE  TypeOK'
    BY <2>8 DEF BeginDeleteByFilter, TypeOK
  <2>9. ASSUME NEW t \in refs, CleanupRef(t)
        PROVE  TypeOK'
    <3>1. t \in tuples
      BY DEF TypeOK
    <3>2. IsClosureTable(wClosure') /\ readd' \subseteq Node \X Node
      <4>1. CASE Tracked(t)
        BY <2>9, <3>1, <4>1, DeleteStepType DEF CleanupRef, TypeOK
      <4>2. CASE ~Tracked(t)
        BY <2>9, <4>2 DEF CleanupRef, TypeOK
      <4>3. QED  BY <4>1, <4>2
    <3>3. QED  BY <2>9, <3>2 DEF CleanupRef, TypeOK
  <2>10. ASSUME NEW d \in readd, ReaddEdge(d)
         PROVE  TypeOK'
    <3>1. d[1] \in Node /\ d[2] \in Node
      BY DEF TypeOK
    <3>2. IsClosureTable(wClosure')
      BY <2>10, <3>1, AddType DEF ReaddEdge, TypeOK
    <3>3. QED  BY <2>10, <3>2 DEF ReaddEdge, TypeOK
  <2>11. CASE BeginRebuildClosure
    BY <2>11, EmptyTableType, EdgeType DEF BeginRebuildClosure, TypeOK
  <2>12. CASE NextPass
    <3>1. Cardinality(DOMAIN wClosure) \in Nat
      BY CountType DEF TypeOK
    <3>2. QED  BY <2>12, <3>1, EdgeType DEF NextPass, TypeOK
  <2>13. CASE Commit
    BY <2>13, EmptyTableType DEF Commit, EndTx, TypeOK
  <2>14. CASE Rollback
    BY <2>14, EmptyTableType DEF Rollback, EndTx, TypeOK
  <2>15. CASE UNCHANGED vars
    BY <2>15 DEF vars, TypeOK
  <2>16. QED
    BY <2>2, <2>3, <2>4, <2>5, <2>6, <2>7, <2>8, <2>9, <2>10, <2>11, <2>12,
       <2>13, <2>14, <2>15 DEF Next
<1>3. QED
  BY <1>1, <1>2, PTL DEF Spec

\* No operation changes which tuples the clients use.
LEMMA VocabularyFixed ==
    [Next]_vars => /\ WellKeyed' <=> WellKeyed
                   /\ NoExcludedEdge' <=> NoExcludedEdge
<1> SUFFICES ASSUME [Next]_vars
             PROVE  tuples' = tuples
  BY DEF WellKeyed, NoExcludedEdge, NoParallelEdge
<1>1. QED
  BY DEF Next, BeginWrite, BeginBatchWrite, BeginDelete, BeginBatchDelete, Begin,
     InsertTuple, DeleteTuple, BeginDeleteByFilter, CleanupRef, ReaddEdge,
     BeginRebuildClosure, NextPass, Commit, Rollback, EndTx, vars

-----------------------------------------------------------------------------
(***************************************************************************)
(* The committed table is transitive, for any relations: the copy a         *)
(* transaction works on is transitive after each of its statements.         *)
(***************************************************************************)
TransitiveInv ==
    /\ IsTransitiveSet(DOMAIN closure)
    /\ IsTransitiveSet(DOMAIN wClosure)

\* updateClosureOnDelete leaves a transitive table, before any edge is added again.
LEMMA DeleteStepTransitive ==
    ASSUME TypeOK, TransitiveInv, NEW T, NEW e, NEW s, UpdateClosureOnDelete(T, e, s)
    PROVE  IsTransitiveSet(DOMAIN wClosure')
  BY DropTransitive DEF UpdateClosureOnDelete, TransitiveInv, TypeOK, IsClosureTable

\* Every operation leaves a table on which the next composition is complete.
THEOREM AlwaysTransitive == Spec => []ClosureTransitive
<1>1. Init => TransitiveInv
  BY DEF Init, TransitiveInv, IsTransitiveSet
<1>2. TypeOK /\ TransitiveInv /\ [Next]_vars => TransitiveInv'
  <2> SUFFICES ASSUME TypeOK, TransitiveInv, [Next]_vars
               PROVE  TransitiveInv'
    OBVIOUS
  <2>0. IsTransitiveSet(DOMAIN [p \in {} |-> 0])
    BY DEF IsTransitiveSet
  <2>1. CASE BeginWrite \/ BeginBatchWrite \/ BeginDelete \/ BeginBatchDelete
    BY <2>1 DEF BeginWrite, BeginBatchWrite, BeginDelete, BeginBatchDelete, Begin,
                TransitiveInv
  <2>2. ASSUME NEW t \in tuples, InsertTuple(t)
        PROVE  TransitiveInv'
    <3>1. IsTransitiveSet(DOMAIN UpdateClosureOnAdd(wClosure, t.entity, t.subject))
      BY AddTransitive, EdgeType DEF TypeOK, IsClosureTable, TransitiveInv
    <3>2. QED  BY <2>2, <3>1 DEF InsertTuple, TransitiveInv
  <2>3. ASSUME NEW t \in tuples, DeleteTuple(t)
        PROVE  TransitiveInv'
    <3>1. IsTransitiveSet(DOMAIN wClosure')
      BY <2>3, DeleteStepTransitive DEF DeleteTuple, TransitiveInv
    <3>2. QED  BY <2>3, <3>1 DEF DeleteTuple, TransitiveInv
  <2>4. ASSUME NEW t \in refs, CleanupRef(t)
        PROVE  TransitiveInv'
    <3>1. IsTransitiveSet(DOMAIN wClosure')
      BY <2>4, DeleteStepTransitive DEF CleanupRef, TransitiveInv
    <3>2. QED  BY <2>4, <3>1 DEF CleanupRef, TransitiveInv
  <2>5. ASSUME NEW f \in Filter, BeginDeleteByFilter(f)
        PROVE  TransitiveInv'
    BY <2>5 DEF BeginDeleteByFilter, TransitiveInv
  <2>6. ASSUME NEW d \in readd, ReaddEdge(d)
        PROVE  TransitiveInv'
    <3>1. d[1] \in Node /\ d[2] \in Node
      BY DEF TypeOK
    <3>2. IsTransitiveSet(DOMAIN UpdateClosureOnAdd(wClosure, d[1], d[2]))
      BY <3>1, AddTransitive DEF TypeOK, IsClosureTable, TransitiveInv
    <3>3. QED  BY <2>6, <3>2 DEF ReaddEdge, TransitiveInv
  <2>7. CASE BeginRebuildClosure
    BY <2>7, <2>0 DEF BeginRebuildClosure, TransitiveInv
  <2>8. CASE NextPass
    BY <2>8 DEF NextPass, TransitiveInv
  <2>9. CASE Commit
    BY <2>9, <2>0 DEF Commit, EndTx, TransitiveInv
  <2>10. CASE Rollback
    BY <2>10, <2>0 DEF Rollback, EndTx, TransitiveInv
  <2>11. CASE UNCHANGED vars
    BY <2>11 DEF vars, TransitiveInv
  <2>12. QED
    BY <2>1, <2>2, <2>3, <2>4, <2>5, <2>6, <2>7, <2>8, <2>9, <2>10, <2>11 DEF Next
<1>3. TransitiveInv => ClosureTransitive
  BY DEF TransitiveInv, ClosureTransitive
<1>4. QED
  BY <1>1, <1>2, <1>3, TypeCorrect, PTL DEF Spec

-----------------------------------------------------------------------------
(***************************************************************************)
(* The column depth.                                                        *)
(*                                                                         *)
(* The depths satisfy the triangle inequality over the rows, so adding an   *)
(* edge needs no more than the four INSERTs: a row gets the least of its    *)
(* depth and the length of the one way over the edge (AddRow).              *)
(***************************************************************************)
\* x is y or has a row up to it, Away(C, x, y) steps long.
Leads(C, x, y) == x = y \/ <<x, y>> \in DOMAIN C

Away(C, x, y) == IF x = y THEN 0 ELSE C[<<x, y>>]

\* A way over a third node is a row, and no shorter one.
Triangle(C) ==
    \A x, y, z \in Node : <<x, y>> \in DOMAIN C /\ <<y, z>> \in DOMAIN C =>
        <<x, z>> \in DOMAIN C /\ C[<<x, z>>] <= C[<<x, y>>] + C[<<y, z>>]

\* The four INSERTs together propose every row over the edge with the length of that
\* way; what the later statements read of the earlier ones is never shorter.
LEMMA AddRow ==
    ASSUME NEW C, IsClosureTable(C), Triangle(C), NEW e \in Node, NEW s \in Node
    PROVE  /\ IsClosureTable(UpdateClosureOnAdd(C, e, s))
           /\ \A x, y \in Node :
                Merged(C, UpdateClosureOnAdd(C, e, s), <<x, y>>,
                       Leads(C, x, e) /\ Leads(C, s, y), Away(C, x, e) + 1 + Away(C, s, y))
<1> DEFINE C1 == AddDirect(C, e, s)
           C2 == AddEntityToAncestors(C1, e, s)
           C3 == AddDescendantsToSubject(C2, e, s)
           C4 == AddCross(C3, e, s)
<1>1. /\ IsClosureTable(C1)
      /\ \A u, v \in Node : Merged(C, C1, <<u, v>>, u = e /\ v = s, 1)
  BY DirectRow
<1> HIDE DEF C1
<1>2. /\ IsClosureTable(C2)
      /\ \A u, v \in Node : Merged(C1, C2, <<u, v>>, u = e /\ <<s, v>> \in DOMAIN C1, C1[<<s, v>>] + 1)
  BY <1>1, AncestorRow
<1> HIDE DEF C2
<1>3. /\ IsClosureTable(C3)
      /\ \A u, v \in Node : Merged(C2, C3, <<u, v>>, v = s /\ <<u, e>> \in DOMAIN C2, C2[<<u, e>>] + 1)
  BY <1>2, DescendantRow
<1> HIDE DEF C3
<1>4. /\ IsClosureTable(C4)
      /\ \A u, v \in Node : Merged(C3, C4, <<u, v>>, <<u, e>> \in DOMAIN C3 /\ <<s, v>> \in DOMAIN C3,
                                   C3[<<u, e>>] + C3[<<s, v>>] + 1)
  BY <1>3, CrossRow
<1>5. UpdateClosureOnAdd(C, e, s) = C4
  BY DEF UpdateClosureOnAdd, C1, C2, C3
<1> HIDE DEF C4
<1>6. \A u, v \in Node : <<u, v>> \in DOMAIN C => C[<<u, v>>] \in Nat \ {0}
  BY TableRows
\* The table after the first INSERT.
<1>7. \A u, v \in Node :
         /\ <<u, v>> \in DOMAIN C1 <=> <<u, v>> \in DOMAIN C \/ (u = e /\ v = s)
         /\ u = e /\ v = s => C1[<<u, v>>] = 1
         /\ ~(u = e /\ v = s) /\ <<u, v>> \in DOMAIN C => C1[<<u, v>>] = C[<<u, v>>]
  <2> SUFFICES ASSUME NEW u \in Node, NEW v \in Node
               PROVE  /\ <<u, v>> \in DOMAIN C1 <=> <<u, v>> \in DOMAIN C \/ (u = e /\ v = s)
                      /\ u = e /\ v = s => C1[<<u, v>>] = 1
                      /\ ~(u = e /\ v = s) /\ <<u, v>> \in DOMAIN C => C1[<<u, v>>] = C[<<u, v>>]
    OBVIOUS
  <2>1. Merged(C, C1, <<u, v>>, u = e /\ v = s, 1)
    BY <1>1
  <2> QED BY <2>1 DEF Merged
<1>8. SUFFICES ASSUME NEW x \in Node, NEW y \in Node
               PROVE  Merged(C, C4, <<x, y>>,
                       Leads(C, x, e) /\ Leads(C, s, y), Away(C, x, e) + 1 + Away(C, s, y))
  BY <1>4, <1>5
<1>9. CASE e = s
  <2>1. \A u, v \in Node : /\ <<u, v>> \in DOMAIN C2 <=> <<u, v>> \in DOMAIN C1
                           /\ <<u, v>> \in DOMAIN C1 => C2[<<u, v>>] = C1[<<u, v>>]
    <3> SUFFICES ASSUME NEW u \in Node, NEW v \in Node
                 PROVE  /\ <<u, v>> \in DOMAIN C2 <=> <<u, v>> \in DOMAIN C1
                        /\ <<u, v>> \in DOMAIN C1 => C2[<<u, v>>] = C1[<<u, v>>]
      OBVIOUS
    <3>1. Merged(C1, C2, <<u, v>>, u = e /\ <<s, v>> \in DOMAIN C1, C1[<<s, v>>] + 1)
      BY <1>2
    <3> QED BY <3>1, <1>9 DEF Merged
  <2>2. \A u, v \in Node : /\ <<u, v>> \in DOMAIN C3 <=> <<u, v>> \in DOMAIN C2
                           /\ <<u, v>> \in DOMAIN C2 => C3[<<u, v>>] = C2[<<u, v>>]
    <3> SUFFICES ASSUME NEW u \in Node, NEW v \in Node
                 PROVE  /\ <<u, v>> \in DOMAIN C3 <=> <<u, v>> \in DOMAIN C2
                        /\ <<u, v>> \in DOMAIN C2 => C3[<<u, v>>] = C2[<<u, v>>]
      OBVIOUS
    <3>1. Merged(C2, C3, <<u, v>>, v = s /\ <<u, e>> \in DOMAIN C2, C2[<<u, e>>] + 1)
      BY <1>3
    <3> QED BY <3>1, <1>9 DEF Merged
  <2>3. Merged(C3, C4, <<x, y>>, <<x, e>> \in DOMAIN C3 /\ <<s, y>> \in DOMAIN C3,
                                   C3[<<x, e>>] + C3[<<s, y>>] + 1)
    BY <1>4
  <2>4. \A u, v \in Node :
         /\ <<u, v>> \in DOMAIN C3 <=> <<u, v>> \in DOMAIN C \/ (u = e /\ v = e)
         /\ u = e /\ v = e => C3[<<u, v>>] = 1
         /\ ~(u = e /\ v = e) /\ <<u, v>> \in DOMAIN C => C3[<<u, v>>] = C[<<u, v>>]
    <3> SUFFICES ASSUME NEW u \in Node, NEW v \in Node
                 PROVE  /\ <<u, v>> \in DOMAIN C3 <=> <<u, v>> \in DOMAIN C \/ (u = e /\ v = e)
                        /\ u = e /\ v = e => C3[<<u, v>>] = 1
                        /\ ~(u = e /\ v = e) /\ <<u, v>> \in DOMAIN C => C3[<<u, v>>] = C[<<u, v>>]
      OBVIOUS
    <3>1. /\ <<u, v>> \in DOMAIN C3 <=> <<u, v>> \in DOMAIN C1
          /\ <<u, v>> \in DOMAIN C1 => C3[<<u, v>>] = C1[<<u, v>>]
      BY <2>1, <2>2
    <3> QED BY <3>1, <1>7, <1>9
  <2>5. <<x, e>> \in DOMAIN C /\ <<e, y>> \in DOMAIN C =>
           <<x, y>> \in DOMAIN C /\ C[<<x, y>>] <= C[<<x, e>>] + C[<<e, y>>]
    BY DEF Triangle
  <2>6. /\ <<x, y>> \in DOMAIN C => C[<<x, y>>] \in Nat \ {0}
        /\ <<x, e>> \in DOMAIN C => C[<<x, e>>] \in Nat \ {0}
        /\ <<e, y>> \in DOMAIN C => C[<<e, y>>] \in Nat \ {0}
    BY <1>6
  <2>7. CASE x = e /\ y = e
    BY <2>3, <2>4, <2>6, <2>7, <1>9 DEF Merged, Leads, Away
  <2>8. CASE x = e /\ y # e
    BY <2>3, <2>4, <2>6, <2>8, <1>9 DEF Merged, Leads, Away
  <2>9. CASE x # e /\ y = e
    BY <2>3, <2>4, <2>6, <2>9, <1>9 DEF Merged, Leads, Away
  <2>10. CASE x # e /\ y # e
    BY <2>3, <2>4, <2>5, <2>6, <2>10, <1>9 DEF Merged, Leads, Away
  <2> QED BY <2>7, <2>8, <2>9, <2>10
<1>10. CASE e # s
  <2>1. \A u, v \in Node :
           /\ u # e => (<<u, v>> \in DOMAIN C2 <=> <<u, v>> \in DOMAIN C)
           /\ u # e /\ <<u, v>> \in DOMAIN C => C2[<<u, v>>] = C[<<u, v>>]
           /\ u = e /\ v = s => <<u, v>> \in DOMAIN C2 /\ C2[<<u, v>>] = 1
           /\ u = e /\ v # s => Merged(C, C2, <<u, v>>, <<s, v>> \in DOMAIN C, C[<<s, v>>] + 1)
    <3> SUFFICES ASSUME NEW u \in Node, NEW v \in Node
                 PROVE  /\ u # e => (<<u, v>> \in DOMAIN C2 <=> <<u, v>> \in DOMAIN C)
                        /\ u # e /\ <<u, v>> \in DOMAIN C => C2[<<u, v>>] = C[<<u, v>>]
                        /\ u = e /\ v = s => <<u, v>> \in DOMAIN C2 /\ C2[<<u, v>>] = 1
                        /\ u = e /\ v # s => Merged(C, C2, <<u, v>>, <<s, v>> \in DOMAIN C, C[<<s, v>>] + 1)
      OBVIOUS
    <3>1. Merged(C1, C2, <<u, v>>, u = e /\ <<s, v>> \in DOMAIN C1, C1[<<s, v>>] + 1)
      BY <1>2
    <3>2. /\ <<u, v>> \in DOMAIN C => C[<<u, v>>] \in Nat \ {0}
          /\ <<s, v>> \in DOMAIN C => C[<<s, v>>] \in Nat \ {0}
      BY <1>6
    <3>3. CASE u # e
      BY <3>1, <3>2, <3>3, <1>7 DEF Merged
    <3>4. CASE u = e
      BY <3>1, <3>2, <3>4, <1>7, <1>10 DEF Merged
    <3> QED BY <3>3, <3>4
  <2>2. \A u, v \in Node :
           /\ u # e /\ v # s => (<<u, v>> \in DOMAIN C3 <=> <<u, v>> \in DOMAIN C)
           /\ u # e /\ v # s /\ <<u, v>> \in DOMAIN C => C3[<<u, v>>] = C[<<u, v>>]
           /\ u = e /\ v = s => <<u, v>> \in DOMAIN C3 /\ C3[<<u, v>>] = 1
           /\ u = e /\ v # s => Merged(C, C3, <<u, v>>, <<s, v>> \in DOMAIN C, C[<<s, v>>] + 1)
           /\ u # e /\ v = s => Merged(C, C3, <<u, v>>, <<u, e>> \in DOMAIN C, C[<<u, e>>] + 1)
    <3> SUFFICES ASSUME NEW u \in Node, NEW v \in Node
                 PROVE  /\ u # e /\ v # s => (<<u, v>> \in DOMAIN C3 <=> <<u, v>> \in DOMAIN C)
                        /\ u # e /\ v # s /\ <<u, v>> \in DOMAIN C => C3[<<u, v>>] = C[<<u, v>>]
                        /\ u = e /\ v = s => <<u, v>> \in DOMAIN C3 /\ C3[<<u, v>>] = 1
                        /\ u = e /\ v # s => Merged(C, C3, <<u, v>>, <<s, v>> \in DOMAIN C, C[<<s, v>>] + 1)
                        /\ u # e /\ v = s => Merged(C, C3, <<u, v>>, <<u, e>> \in DOMAIN C, C[<<u, e>>] + 1)
      OBVIOUS
    <3>1. Merged(C2, C3, <<u, v>>, v = s /\ <<u, e>> \in DOMAIN C2, C2[<<u, e>>] + 1)
      BY <1>3
    <3>2. /\ <<u, v>> \in DOMAIN C => C[<<u, v>>] \in Nat \ {0}
          /\ <<u, e>> \in DOMAIN C => C[<<u, e>>] \in Nat \ {0}
      BY <1>6
    <3>3. CASE v # s
      <4>1. /\ <<u, v>> \in DOMAIN C3 <=> <<u, v>> \in DOMAIN C2
            /\ <<u, v>> \in DOMAIN C2 => C3[<<u, v>>] = C2[<<u, v>>]
        BY <3>1, <3>3 DEF Merged
      <4>2. CASE u # e
        BY <4>1, <4>2, <3>3, <2>1
      <4>3. CASE u = e
        <5>1. Merged(C, C2, <<u, v>>, <<s, v>> \in DOMAIN C, C[<<s, v>>] + 1)
          BY <4>3, <3>3, <2>1
        <5>2. Merged(C, C3, <<u, v>>, <<s, v>> \in DOMAIN C, C[<<s, v>>] + 1)
          BY <5>1, <4>1 DEF Merged
        <5> QED BY <5>2, <4>3, <3>3
      <4> QED BY <4>2, <4>3
    <3>4. CASE v = s /\ u = e
      <4>1. <<e, e>> \in DOMAIN C2 => C2[<<e, e>>] \in Nat \ {0}
        BY <1>2, TableRows
      <4>2. <<u, v>> \in DOMAIN C2 /\ C2[<<u, v>>] = 1
        BY <2>1, <3>4
      <4>3. <<u, v>> \in DOMAIN C3 /\ C3[<<u, v>>] = 1
        BY <4>1, <4>2, <3>1, <3>4 DEF Merged
      <4> QED BY <4>3, <3>4
    <3>5. CASE v = s /\ u # e
      <4>1. /\ <<u, v>> \in DOMAIN C2 <=> <<u, v>> \in DOMAIN C
            /\ <<u, e>> \in DOMAIN C2 <=> <<u, e>> \in DOMAIN C
            /\ <<u, v>> \in DOMAIN C => C2[<<u, v>>] = C[<<u, v>>]
            /\ <<u, e>> \in DOMAIN C => C2[<<u, e>>] = C[<<u, e>>]
        BY <2>1, <3>5
      <4> QED BY <4>1, <3>1, <3>2, <3>5 DEF Merged
    <3> QED BY <3>3, <3>4, <3>5
  <2>3. Merged(C3, C4, <<x, y>>, <<x, e>> \in DOMAIN C3 /\ <<s, y>> \in DOMAIN C3,
                                   C3[<<x, e>>] + C3[<<s, y>>] + 1)
    BY <1>4
  <2>4. /\ <<x, y>> \in DOMAIN C => C[<<x, y>>] \in Nat \ {0}
        /\ <<x, e>> \in DOMAIN C => C[<<x, e>>] \in Nat \ {0}
        /\ <<s, y>> \in DOMAIN C => C[<<s, y>>] \in Nat \ {0}
    BY <1>6
  <2>5. /\ <<x, y>> \in DOMAIN C3 => C3[<<x, y>>] \in Nat \ {0}
        /\ <<x, e>> \in DOMAIN C3 => C3[<<x, e>>] \in Nat \ {0}
        /\ <<s, y>> \in DOMAIN C3 => C3[<<s, y>>] \in Nat \ {0}
    BY <1>3, TableRows
  <2>6. CASE x = e /\ y = s
    <3>1. <<x, y>> \in DOMAIN C3 /\ C3[<<x, y>>] = 1
      BY <2>2, <2>6
    <3> QED BY <3>1, <2>3, <2>4, <2>5, <2>6 DEF Merged, Leads, Away
  <2>7. CASE x = e /\ y # s
    <3>1. Merged(C, C3, <<x, y>>, <<s, y>> \in DOMAIN C, C[<<s, y>>] + 1)
      BY <2>2, <2>7
    <3>2. /\ <<s, y>> \in DOMAIN C3 <=> <<s, y>> \in DOMAIN C
          /\ <<s, y>> \in DOMAIN C => C3[<<s, y>>] = C[<<s, y>>]
      BY <2>2, <2>7, <1>10
    <3> QED BY <3>1, <3>2, <2>3, <2>4, <2>5, <2>7 DEF Merged, Leads, Away
  <2>8. CASE x # e /\ y = s
    <3>1. Merged(C, C3, <<x, y>>, <<x, e>> \in DOMAIN C, C[<<x, e>>] + 1)
      BY <2>2, <2>8
    <3>2. /\ <<x, e>> \in DOMAIN C3 <=> <<x, e>> \in DOMAIN C
          /\ <<x, e>> \in DOMAIN C => C3[<<x, e>>] = C[<<x, e>>]
      BY <2>2, <2>8, <1>10
    <3> QED BY <3>1, <3>2, <2>3, <2>4, <2>5, <2>8 DEF Merged, Leads, Away
  <2>9. CASE x # e /\ y # s
    <3>1. /\ <<x, e>> \in DOMAIN C3 <=> <<x, e>> \in DOMAIN C
          /\ <<x, e>> \in DOMAIN C => C3[<<x, e>>] = C[<<x, e>>]
          /\ <<s, y>> \in DOMAIN C3 <=> <<s, y>> \in DOMAIN C
          /\ <<s, y>> \in DOMAIN C => C3[<<s, y>>] = C[<<s, y>>]
          /\ <<x, y>> \in DOMAIN C3 <=> <<x, y>> \in DOMAIN C
          /\ <<x, y>> \in DOMAIN C => C3[<<x, y>>] = C[<<x, y>>]
      BY <2>2, <2>9, <1>10
    <3> QED BY <3>1, <2>3, <2>4, <2>9 DEF Merged, Leads, Away
  <2> QED BY <2>6, <2>7, <2>8, <2>9
<1> QED BY <1>9, <1>10

\* The depths of the closure of E: 1 for an edge, otherwise one more than after some
\* first edge, and never more than a way over a third node.
Lengths(C, E) ==
    /\ Triangle(C)
    /\ \A p \in E : p \in DOMAIN C /\ C[p] = 1
    /\ \A x, y \in Node : <<x, y>> \in DOMAIN C \ E =>
          \E m \in Node : <<x, m>> \in E /\ <<m, y>> \in DOMAIN C
                          /\ C[<<x, y>>] = C[<<m, y>>] + 1

\* C holds the pairs joined by a path of E, with the lengths of the shortest ones.
Exact(C, E) == IsLeastClosure(DOMAIN C, E) /\ Lengths(C, E)

\* A way over a third node leads on, and is no shorter.
LEMMA AwayTriangle ==
    ASSUME NEW C, IsClosureTable(C), Triangle(C)
    PROVE  \A x, y, z \in Node : Leads(C, x, y) /\ Leads(C, y, z) =>
              /\ Leads(C, x, z)
              /\ Away(C, x, y) \in Nat /\ Away(C, y, z) \in Nat /\ Away(C, x, z) \in Nat
              /\ Away(C, x, z) <= Away(C, x, y) + Away(C, y, z)
<1> SUFFICES ASSUME NEW x \in Node, NEW y \in Node, NEW z \in Node, Leads(C, x, y), Leads(C, y, z)
             PROVE  /\ Leads(C, x, z)
                    /\ Away(C, x, y) \in Nat /\ Away(C, y, z) \in Nat /\ Away(C, x, z) \in Nat
                    /\ Away(C, x, z) <= Away(C, x, y) + Away(C, y, z)
  OBVIOUS
<1>1. \A u, v \in Node : <<u, v>> \in DOMAIN C => C[<<u, v>>] \in Nat \ {0}
  BY TableRows
<1>2. CASE x = y
  BY <1>1, <1>2 DEF Leads, Away
<1>3. CASE y = z
  BY <1>1, <1>3 DEF Leads, Away
<1>4. CASE x # y /\ y # z
  BY <1>1, <1>4 DEF Leads, Away, Triangle
<1> QED BY <1>2, <1>3, <1>4

\* An added edge keeps the triangle inequality.
LEMMA AddTriangle ==
    ASSUME NEW C, IsClosureTable(C), Triangle(C), NEW e \in Node, NEW s \in Node
    PROVE  Triangle(UpdateClosureOnAdd(C, e, s))
<1> DEFINE D == UpdateClosureOnAdd(C, e, s)
           Over(x, y) == Leads(C, x, e) /\ Leads(C, s, y)
           Way(x, y) == Away(C, x, e) + 1 + Away(C, s, y)
<1>1. \A x, y \in Node : Merged(C, D, <<x, y>>, Over(x, y), Way(x, y))
  BY AddRow
<1> HIDE DEF D
<1>2. SUFFICES ASSUME NEW x \in Node, NEW y \in Node, NEW z \in Node,
                      <<x, y>> \in DOMAIN D, <<y, z>> \in DOMAIN D
               PROVE  <<x, z>> \in DOMAIN D /\ D[<<x, z>>] <= D[<<x, y>>] + D[<<y, z>>]
  BY DEF Triangle, D
<1>3. /\ Merged(C, D, <<x, y>>, Over(x, y), Way(x, y))
      /\ Merged(C, D, <<y, z>>, Over(y, z), Way(y, z))
      /\ Merged(C, D, <<x, z>>, Over(x, z), Way(x, z))
  BY <1>1
<1>4. \A u, v, w \in Node : Leads(C, u, v) /\ Leads(C, v, w) =>
         /\ Leads(C, u, w)
         /\ Away(C, u, v) \in Nat /\ Away(C, v, w) \in Nat /\ Away(C, u, w) \in Nat
         /\ Away(C, u, w) <= Away(C, u, v) + Away(C, v, w)
  BY AwayTriangle
<1>5. /\ <<x, y>> \in DOMAIN C => Leads(C, x, y) /\ Away(C, x, y) <= C[<<x, y>>]
      /\ <<y, z>> \in DOMAIN C => Leads(C, y, z) /\ Away(C, y, z) <= C[<<y, z>>]
      /\ <<x, y>> \in DOMAIN C => C[<<x, y>>] \in Nat \ {0}
      /\ <<y, z>> \in DOMAIN C => C[<<y, z>>] \in Nat \ {0}
  BY TableRows DEF Leads, Away
<1>6. \/ <<x, y>> \in DOMAIN C /\ D[<<x, y>>] = C[<<x, y>>]
      \/ Over(x, y) /\ D[<<x, y>>] = Way(x, y)
  BY <1>2, <1>3 DEF Merged
<1>7. \/ <<y, z>> \in DOMAIN C /\ D[<<y, z>>] = C[<<y, z>>]
      \/ Over(y, z) /\ D[<<y, z>>] = Way(y, z)
  BY <1>2, <1>3 DEF Merged
<1>8. /\ <<x, z>> \in DOMAIN C => <<x, z>> \in DOMAIN D /\ D[<<x, z>>] <= C[<<x, z>>]
      /\ Over(x, z) => <<x, z>> \in DOMAIN D /\ D[<<x, z>>] <= Way(x, z)
      /\ <<x, z>> \in DOMAIN D => D[<<x, z>>] \in Nat \ {0}
      /\ <<x, z>> \in DOMAIN C => C[<<x, z>>] \in Nat \ {0}
  BY <1>3 DEF Merged
<1>9. CASE /\ <<x, y>> \in DOMAIN C /\ D[<<x, y>>] = C[<<x, y>>]
           /\ <<y, z>> \in DOMAIN C /\ D[<<y, z>>] = C[<<y, z>>]
  <2>1. <<x, z>> \in DOMAIN C /\ C[<<x, z>>] <= C[<<x, y>>] + C[<<y, z>>]
    BY <1>9 DEF Triangle
  <2> QED BY <1>5, <1>8, <1>9, <2>1
<1>10. CASE /\ <<x, y>> \in DOMAIN C /\ D[<<x, y>>] = C[<<x, y>>]
            /\ Over(y, z) /\ D[<<y, z>>] = Way(y, z)
  <2>1. /\ Leads(C, x, e)
        /\ Away(C, x, y) \in Nat /\ Away(C, y, e) \in Nat /\ Away(C, x, e) \in Nat
        /\ Away(C, x, e) <= Away(C, x, y) + Away(C, y, e)
    BY <1>4, <1>5, <1>10
  <2>2. Away(C, s, z) \in Nat
    BY <1>4, <1>10 DEF Leads
  <2> QED BY <1>5, <1>8, <1>10, <2>1, <2>2
<1>11. CASE /\ Over(x, y) /\ D[<<x, y>>] = Way(x, y)
            /\ <<y, z>> \in DOMAIN C /\ D[<<y, z>>] = C[<<y, z>>]
  <2>1. /\ Leads(C, s, z)
        /\ Away(C, s, y) \in Nat /\ Away(C, y, z) \in Nat /\ Away(C, s, z) \in Nat
        /\ Away(C, s, z) <= Away(C, s, y) + Away(C, y, z)
    BY <1>4, <1>5, <1>11
  <2>2. Away(C, x, e) \in Nat
    BY <1>4, <1>11 DEF Leads
  <2> QED BY <1>5, <1>8, <1>11, <2>1, <2>2
<1>12. CASE /\ Over(x, y) /\ D[<<x, y>>] = Way(x, y)
            /\ Over(y, z) /\ D[<<y, z>>] = Way(y, z)
  <2>1. Away(C, x, e) \in Nat /\ Away(C, s, y) \in Nat /\ Away(C, y, e) \in Nat /\ Away(C, s, z) \in Nat
    BY <1>4, <1>12 DEF Leads
  <2> QED BY <1>8, <1>12, <2>1
<1> QED BY <1>6, <1>7, <1>9, <1>10, <1>11, <1>12

\* The edge is the first hop of the new rows from its entity; the others take the
\* first hop they took to reach the entity.
LEMMA AddLengths ==
    ASSUME NEW C, IsClosureTable(C), NEW E, Lengths(C, E), E \subseteq Node \X Node,
           NEW e \in Node, NEW s \in Node
    PROVE  Lengths(UpdateClosureOnAdd(C, e, s), E \cup {<<e, s>>})
<1> DEFINE D == UpdateClosureOnAdd(C, e, s)
           F == E \cup {<<e, s>>}
           Over(x, y) == Leads(C, x, e) /\ Leads(C, s, y)
           Way(x, y) == Away(C, x, e) + 1 + Away(C, s, y)
<1>1. \A x, y \in Node : Merged(C, D, <<x, y>>, Over(x, y), Way(x, y))
  BY AddRow DEF Lengths
<1>2. Triangle(D)
  BY AddTriangle DEF Lengths
<1> HIDE DEF D
<1>3. \A x, y \in Node : <<x, y>> \in F => <<x, y>> \in DOMAIN D /\ D[<<x, y>>] = 1
  <2> SUFFICES ASSUME NEW x \in Node, NEW y \in Node, <<x, y>> \in F
               PROVE  <<x, y>> \in DOMAIN D /\ D[<<x, y>>] = 1
    OBVIOUS
  <2>1. Merged(C, D, <<x, y>>, Over(x, y), Way(x, y))
    BY <1>1
  <2>2. CASE <<x, y>> \in E
    BY <2>1, <2>2 DEF Merged, Lengths
  <2>3. CASE x = e /\ y = s
    BY <2>1, <2>3 DEF Merged, Leads, Away
  <2> QED BY <2>2, <2>3
<1>4. \A x, y \in Node : <<x, y>> \in DOMAIN D \ F =>
          \E m \in Node : <<x, m>> \in F /\ <<m, y>> \in DOMAIN D
                          /\ D[<<x, y>>] = D[<<m, y>>] + 1
  <2> SUFFICES ASSUME NEW x \in Node, NEW y \in Node, <<x, y>> \in DOMAIN D, <<x, y>> \notin F
               PROVE  \E m \in Node : <<x, m>> \in F /\ <<m, y>> \in DOMAIN D
                                      /\ D[<<x, y>>] = D[<<m, y>>] + 1
    OBVIOUS
  <2>1. SUFFICES \E m \in Node : <<x, m>> \in F /\ <<m, y>> \in DOMAIN D
                                      /\ D[<<m, y>>] <= D[<<x, y>>] - 1
    <3>1. PICK m \in Node : <<x, m>> \in F /\ <<m, y>> \in DOMAIN D
                                      /\ D[<<m, y>>] <= D[<<x, y>>] - 1
      BY <2>1
    <3>2. /\ Merged(C, D, <<m, y>>, Over(m, y), Way(m, y))
          /\ Merged(C, D, <<x, y>>, Over(x, y), Way(x, y))
      BY <1>1
    <3>3. D[<<m, y>>] \in Nat /\ D[<<x, y>>] \in Nat
      BY <3>1, <3>2 DEF Merged
    <3>4. <<x, m>> \in DOMAIN D /\ D[<<x, m>>] = 1
      BY <1>3, <3>1
    <3>5. D[<<x, y>>] <= D[<<x, m>>] + D[<<m, y>>]
      BY <1>2, <3>1, <3>4 DEF Triangle
    <3> QED BY <3>1, <3>3, <3>4, <3>5
  <2>2. Merged(C, D, <<x, y>>, Over(x, y), Way(x, y))
    BY <1>1
  <2>3. D[<<x, y>>] \in Nat
    BY <2>2 DEF Merged
  <2>4. CASE <<x, y>> \in DOMAIN C /\ D[<<x, y>>] = C[<<x, y>>]
    <3>1. PICK m \in Node : <<x, m>> \in E /\ <<m, y>> \in DOMAIN C /\ C[<<x, y>>] = C[<<m, y>>] + 1
      BY <2>4 DEF Lengths
    <3>2. Merged(C, D, <<m, y>>, Over(m, y), Way(m, y))
      BY <1>1
    <3>3. <<m, y>> \in DOMAIN D /\ D[<<m, y>>] <= C[<<m, y>>]
          /\ C[<<m, y>>] \in Nat /\ D[<<m, y>>] \in Nat
      BY <3>1, <3>2 DEF Merged
    <3> QED BY <2>4, <3>1, <3>3
  <2>5. CASE Over(x, y) /\ D[<<x, y>>] = Way(x, y)
    <3>1. Away(C, x, e) \in Nat /\ Away(C, s, y) \in Nat
      BY <2>5, TableRows DEF Leads, Away
    <3>2. CASE x = e
      <4>1. y # s /\ <<s, y>> \in DOMAIN C
        BY <2>5, <3>2 DEF Leads
      <4>2. Merged(C, D, <<s, y>>, Over(s, y), Way(s, y))
        BY <1>1
      <4>3. /\ <<s, y>> \in DOMAIN D /\ D[<<s, y>>] <= C[<<s, y>>]
            /\ C[<<s, y>>] \in Nat /\ D[<<s, y>>] \in Nat
        BY <4>1, <4>2 DEF Merged
      <4>4. D[<<x, y>>] = 1 + C[<<s, y>>]
        BY <2>5, <3>1, <3>2, <4>1, <4>3 DEF Away
      <4> QED BY <3>2, <4>3, <4>4
    <3>3. CASE x # e /\ <<x, e>> \in E
      <4>1. Away(C, x, e) = 1
        BY <3>3 DEF Away, Lengths
      <4>2. Merged(C, D, <<e, y>>, Over(e, y), Way(e, y))
        BY <1>1
      <4>3. Over(e, y) /\ Way(e, y) = 1 + Away(C, s, y)
        BY <2>5, <3>1 DEF Leads, Away
      <4>4. /\ <<e, y>> \in DOMAIN D /\ D[<<e, y>>] <= Way(e, y) /\ D[<<e, y>>] \in Nat
        BY <4>2, <4>3 DEF Merged
      <4> QED BY <2>5, <3>1, <3>3, <4>1, <4>3, <4>4
    <3>4. CASE x # e /\ <<x, e>> \notin E
      <4>1. <<x, e>> \in DOMAIN C /\ Away(C, x, e) = C[<<x, e>>]
        BY <2>5, <3>4 DEF Leads, Away
      <4>2. PICK m \in Node : <<x, m>> \in E /\ <<m, e>> \in DOMAIN C /\ C[<<x, e>>] = C[<<m, e>>] + 1
        BY <3>4, <4>1 DEF Lengths
      <4>3. C[<<m, e>>] \in Nat /\ Leads(C, m, e) /\ Away(C, m, e) <= C[<<m, e>>] /\ Away(C, m, e) \in Nat
        BY <4>2, TableRows DEF Leads, Away
      <4>4. Merged(C, D, <<m, y>>, Over(m, y), Way(m, y))
        BY <1>1
      <4>5. /\ <<m, y>> \in DOMAIN D /\ D[<<m, y>>] <= Way(m, y) /\ D[<<m, y>>] \in Nat
        BY <2>5, <4>3, <4>4 DEF Merged
      <4> QED BY <2>5, <3>1, <4>1, <4>2, <4>3, <4>5
    <3> QED BY <3>2, <3>3, <3>4
  <2> QED BY <2>2, <2>4, <2>5 DEF Merged
<1>5. \A p \in F : p \in DOMAIN D /\ D[p] = 1
  <2> SUFFICES ASSUME NEW p \in F PROVE p \in DOMAIN D /\ D[p] = 1
    OBVIOUS
  <2>1. p = <<p[1], p[2]>> /\ p[1] \in Node /\ p[2] \in Node
    OBVIOUS
  <2> HIDE DEF F
  <2> QED BY <1>3, <2>1
<1> QED BY <1>2, <1>4, <1>5 DEF Lengths, D

\* The rows that stay keep their first hops: none leads into what was dropped.
LEMMA DropLengths ==
    ASSUME NEW C, IsClosureTable(C), NEW E, Lengths(C, E), E \subseteq Node \X Node, NEW e \in Node
    PROVE  LET A == Affected(C, e)
           IN  Lengths(DropDescendants(C, A), {d \in E : d[1] \notin A})
<1> DEFINE A == Affected(C, e)
           D == DropDescendants(C, A)
           F == {d \in E : d[1] \notin A}
<1>1. \A x \in Node : x \in A <=> x = e \/ <<x, e>> \in DOMAIN C
  BY AffectedSet DEF IsClosureTable
<1> HIDE DEF A
<1>2. \A x, y \in Node : /\ <<x, y>> \in DOMAIN D <=> <<x, y>> \in DOMAIN C /\ x \notin A
                         /\ <<x, y>> \in DOMAIN D => D[<<x, y>>] = C[<<x, y>>]
  BY DEF DropDescendants
<1>3. \A p \in F : p \in DOMAIN D /\ D[p] = 1
  BY DEF DropDescendants, Lengths
<1> HIDE DEF D
<1>4. Triangle(D)
  <2> SUFFICES ASSUME NEW x \in Node, NEW y \in Node, NEW z \in Node,
                      <<x, y>> \in DOMAIN D, <<y, z>> \in DOMAIN D
               PROVE  <<x, z>> \in DOMAIN D /\ D[<<x, z>>] <= D[<<x, y>>] + D[<<y, z>>]
    BY DEF Triangle
  <2>1. <<x, z>> \in DOMAIN C /\ C[<<x, z>>] <= C[<<x, y>>] + C[<<y, z>>]
    BY <1>2 DEF Lengths, Triangle
  <2> QED BY <1>2, <2>1
<1>5. ASSUME NEW x \in Node, NEW y \in Node, <<x, y>> \in DOMAIN D \ F
      PROVE  \E m \in Node : <<x, m>> \in F /\ <<m, y>> \in DOMAIN D
                             /\ D[<<x, y>>] = D[<<m, y>>] + 1
  <2>1. <<x, y>> \in DOMAIN C \ E /\ x \notin A
    BY <1>2, <1>5
  <2>2. PICK m \in Node : <<x, m>> \in E /\ <<m, y>> \in DOMAIN C /\ C[<<x, y>>] = C[<<m, y>>] + 1
    BY <2>1 DEF Lengths
  <2>3. m \notin A
    <3>1. <<x, m>> \in DOMAIN C
      BY <2>2 DEF Lengths
    <3> QED BY <1>1, <2>1, <3>1 DEF Lengths, Triangle
  <2> QED BY <1>2, <1>5, <2>1, <2>2, <2>3
<1> QED BY <1>3, <1>4, <1>5 DEF Lengths, D, A

\* Such depths satisfy the equations of the shortest path lengths.
LEMMA LengthsShortest ==
    ASSUME NEW C, IsClosureTable(C), NEW E, Lengths(C, E), E \subseteq Node \X Node
    PROVE  IsShortest(C, E)
<1> SUFFICES ASSUME NEW p \in DOMAIN C
             PROVE  IF p \in E
                    THEN C[p] = 1
                    ELSE LET hops == {m \in {q[2] : q \in {r \in E : r[1] = p[1]}} :
                                          <<m, p[2]>> \in DOMAIN C}
                         IN  /\ \E m \in hops : C[p] = C[<<m, p[2]>>] + 1
                             /\ \A m \in hops : C[p] <= C[<<m, p[2]>>] + 1
  BY DEF IsShortest
<1> DEFINE hops == {m \in {q[2] : q \in {r \in E : r[1] = p[1]}} : <<m, p[2]>> \in DOMAIN C}
<1>1. p[1] \in Node /\ p[2] \in Node /\ p = <<p[1], p[2]>>
  BY DEF IsClosureTable
<1>2. \A m \in Node : m \in hops <=> <<p[1], m>> \in E /\ <<m, p[2]>> \in DOMAIN C
  <2>1. \A r \in E : r = <<r[1], r[2]>>
    OBVIOUS
  <2> QED BY <2>1
<1>3. hops \subseteq Node
  OBVIOUS
<1> HIDE DEF hops
<1>4. CASE p \in E
  BY <1>4 DEF Lengths
<1>5. CASE p \notin E
  <2>1. PICK m \in Node : <<p[1], m>> \in E /\ <<m, p[2]>> \in DOMAIN C /\ C[p] = C[<<m, p[2]>>] + 1
    <3>1. <<p[1], p[2]>> \in DOMAIN C \ E
      BY <1>1, <1>5
    <3>2. \E m \in Node : <<p[1], m>> \in E /\ <<m, p[2]>> \in DOMAIN C
                          /\ C[<<p[1], p[2]>>] = C[<<m, p[2]>>] + 1
      BY <1>1, <3>1 DEF Lengths
    <3> QED BY <1>1, <3>2
  <2>2. \E n \in hops : C[p] = C[<<n, p[2]>>] + 1
    BY <1>2, <2>1
  <2>3. ASSUME NEW n \in hops PROVE C[p] <= C[<<n, p[2]>>] + 1
    <3>1. n \in Node /\ <<p[1], n>> \in E /\ <<n, p[2]>> \in DOMAIN C
      BY <1>2, <1>3
    <3>2. <<p[1], n>> \in DOMAIN C /\ C[<<p[1], n>>] = 1 /\ C[<<n, p[2]>>] \in Nat
      BY <1>1, <3>1, TableRows DEF Lengths
    <3>3. C[<<p[1], p[2]>>] <= C[<<p[1], n>>] + C[<<n, p[2]>>]
      BY <1>1, <3>1, <3>2 DEF Lengths, Triangle
    <3> QED BY <1>1, <3>2, <3>3
  <2> QED BY <1>5, <2>2, <2>3 DEF hops
<1> QED BY <1>4, <1>5

\* The edges a table is the closure of join nodes.
LEMMA ExactEdges ==
    ASSUME NEW C, IsClosureTable(C), NEW E, Exact(C, E)
    PROVE  /\ DOMAIN C \subseteq Node \X Node /\ E \subseteq Node \X Node
           /\ IsLeastClosure(DOMAIN C, E) /\ Lengths(C, E)
  BY DEF Exact, IsClosureTable, IsLeastClosure

\* An added edge keeps a table exact, depths included.
LEMMA AddExact ==
    ASSUME NEW C, IsClosureTable(C), NEW E, Exact(C, E), NEW e \in Node, NEW s \in Node
    PROVE  Exact(UpdateClosureOnAdd(C, e, s), E \cup {<<e, s>>})
<1>1. IsLeastClosure(DOMAIN UpdateClosureOnAdd(C, e, s), E \cup {<<e, s>>})
  BY AddLeast, ExactEdges
<1>2. Lengths(UpdateClosureOnAdd(C, e, s), E \cup {<<e, s>>})
  BY AddLengths, ExactEdges
<1>3. QED  BY <1>1, <1>2 DEF Exact

\* So does dropping the rows of everything that reaches an entity.
LEMMA DropExact ==
    ASSUME NEW C, IsClosureTable(C), NEW E, Exact(C, E), NEW e \in Node
    PROVE  LET A == Affected(C, e)
           IN  Exact(DropDescendants(C, A), {d \in E : d[1] \notin A})
<1> DEFINE A == Affected(C, e)
<1>1. IsLeastClosure(DOMAIN DropDescendants(C, A), {d \in E : d[1] \notin A})
  BY DropLeast, ExactEdges
<1>2. Lengths(DropDescendants(C, A), {d \in E : d[1] \notin A})
  BY DropLengths, ExactEdges
<1>3. QED  BY <1>1, <1>2 DEF Exact

\* The empty table is the closure of no edges.
LEMMA EmptyExact ==
    /\ Exact([p \in {} |-> 0], {})
    /\ IsLeastClosure(DOMAIN [p \in {} |-> 0], {})
<1>1. IsLeastClosure(DOMAIN [p \in {} |-> 0], {})
  BY DEF IsLeastClosure, IsTransitiveSet
<1>2. Lengths([p \in {} |-> 0], {})
  BY DEF Lengths, Triangle
<1>3. QED  BY <1>1, <1>2 DEF Exact


-----------------------------------------------------------------------------
(***************************************************************************)
(* The committed table is exact when the tuples are well keyed.             *)
(*                                                                         *)
(* In the middle of a transaction the working table is the least closure of *)
(* the working relations without the edges still to be added again, and     *)
(* possibly with some that are stored or that belong to tuples whose        *)
(* cleanup is due.  When nothing is due the slack is gone.                  *)
(***************************************************************************)
Represents(S) == (Edges(wRelations) \ readd) \cup S

WorkingExact ==
    /\ readd \subseteq Edges(wRelations)
    /\ refs \cap wRelations = {}
    /\ op \in {Idle, "write"} => readd = {}
    /\ op # "filter" => refs = {}
    /\ \E S \in SUBSET Edges(wRelations \cup refs) :
          Exact(wClosure, Represents(S))

CommittedPaths == Exact(closure, Edges(relations))

ExactInv == CommittedPaths /\ WorkingExact

\* An empty table of relations has no edges.
LEMMA NoEdges == Edges({}) = {}
  BY DEF Edges

\* The edges of two sets of tuples are those of either.
LEMMA EdgesUnion ==
    ASSUME NEW T, NEW U
    PROVE  Edges(T \cup U) = Edges(T) \cup Edges(U)
  BY DEF Edges

\* Without anything due, the working table is the closure of its relations.
LEMMA NothingDue ==
    ASSUME WorkingExact, readd = {}, refs = {}
    PROVE  Exact(wClosure, Edges(wRelations))
<1>1. PICK S \in SUBSET Edges(wRelations \cup refs) :
              Exact(wClosure, Represents(S))
  BY DEF WorkingExact
<1>2. Represents(S) = Edges(wRelations)
  BY <1>1 DEF Represents
<1>3. QED  BY <1>1, <1>2

\* Taking a well-keyed tuple out takes out its edge and no other.
LEMMA RemoveTuple ==
    ASSUME WellKeyed, NEW T \in SUBSET tuples, NEW t \in tuples, t \notin T
    PROVE  /\ Tracked(t) => Edge(t) \notin Edges(T)
           /\ Edges(T \cup {t}) = Edges(T) \cup (IF Tracked(t) THEN {Edge(t)} ELSE {})
  BY DEF WellKeyed, NoParallelEdge, Edges

\* What is re-added for a tuple that is gone: the edges of the affected nodes.
LEMMA ReaddedEdges ==
    ASSUME TypeOK, WellKeyed, NEW T \in SUBSET tuples, NEW t \in tuples,
           t \notin T, Tracked(t), NEW A
    PROVE  EdgesToReadd(T, A, Edge(t)) = {d \in Edges(T) : d[1] \in A}
<1>1. \A u \in tuples : Plain(u) <=> Tracked(u)
  BY DEF WellKeyed, NoExcludedEdge, Tracked
<1>2. \A u \in tuples : Edge(u)[1] = u.entity
  BY EdgeType
<1>3. Edge(t) \notin Edges(T)
  BY RemoveTuple
<1>4. {Edge(u) : u \in {v \in T : Plain(v) /\ v.entity \in A}}
         = {d \in Edges(T) : d[1] \in A}
  BY <1>1, <1>2 DEF Edges
<1>5. QED  BY <1>3, <1>4 DEF EdgesToReadd

\* The step both kinds of delete share: T are the relations that stay, the
\* working table represents the edges F, and F has no edges outside T except
\* the deleted one and those of the tuples U still due.
LEMMA DeleteStepExact ==
    ASSUME TypeOK, WellKeyed, NEW T \in SUBSET tuples, NEW U \in SUBSET tuples,
           NEW t \in tuples, t \notin T, Tracked(t),
           NEW F, Edges(T) \subseteq F, F \subseteq Edges(T \cup U \cup {t}),
           Exact(wClosure, F),
           UpdateClosureOnDelete(T, t.entity, t.subject)
    PROVE  /\ readd' \subseteq Edges(T)
           /\ \E S \in SUBSET Edges(T \cup U) :
                 Exact(wClosure', (Edges(T) \ readd') \cup S)
<1> DEFINE A == Affected(wClosure, t.entity)
           S == {d \in F \ Edges(T) : d[1] \notin A}
<1>1. /\ wClosure' = DropDescendants(wClosure, A)
      /\ readd' = EdgesToReadd(T, A, Edge(t))
  BY DEF UpdateClosureOnDelete, Edge
<1>2. readd' = {d \in Edges(T) : d[1] \in A}
  BY <1>1, ReaddedEdges
<1>3. Exact(wClosure', {d \in F : d[1] \notin A})
  <2>1. IsClosureTable(wClosure) /\ t.entity \in Node
    BY EdgeType DEF TypeOK
  <2>2. QED  BY <1>1, <2>1, DropExact
<1>4. {d \in F : d[1] \notin A} = (Edges(T) \ readd') \cup S
  BY <1>2
<1>5. Edge(t)[1] \in A
  BY EdgeType DEF Affected
<1>6. S \subseteq Edges(T \cup U)
  <2>1. Edges(T \cup U \cup {t}) = Edges(T \cup U) \cup {Edge(t)}
    BY DEF Edges
  <2>2. QED  BY <1>5, <2>1
<1>7. QED
  BY <1>2, <1>3, <1>4, <1>6

\* With well-keyed tuples the committed table always holds the paths of tracked
\* relations and their lengths.
LEMMA PathsKept == Spec => [](WellKeyed => ExactInv)
<1>1. Init /\ WellKeyed => ExactInv
  <2> SUFFICES ASSUME Init PROVE ExactInv
    OBVIOUS
  <2>1. Exact(wClosure, Represents({}))
    BY EmptyExact, NoEdges DEF Init, Represents
  <2>2. QED
    BY <2>1, EmptyExact, NoEdges DEF Init, ExactInv, CommittedPaths, WorkingExact, Idle
<1>2. TypeOK /\ WellKeyed /\ ExactInv /\ [Next]_vars => ExactInv'
  <2> SUFFICES ASSUME TypeOK, WellKeyed, ExactInv, [Next]_vars
               PROVE  ExactInv'
    OBVIOUS
  <2>0. /\ WorkingExact
        /\ CommittedPaths
        /\ IsClosureTable(wClosure)
    BY DEF ExactInv, TypeOK
  <2>1. ASSUME NEW kind \in {"write", "delete"}, NEW n, Begin(kind, n)
        PROVE  ExactInv'
    <3>1. readd = {} /\ refs = {}
      BY <2>0, <2>1 DEF Begin, WorkingExact, Idle
    <3>2. Exact(wClosure', Represents({})')
      BY <2>0, <2>1, <3>1 DEF Begin, Represents, CommittedPaths
    <3>3. QED
      BY <2>0, <2>1, <3>1, <3>2 DEF Begin, ExactInv, CommittedPaths, WorkingExact
  <2>2. CASE BeginWrite \/ BeginBatchWrite \/ BeginDelete \/ BeginBatchDelete
    BY <2>2, <2>1 DEF BeginWrite, BeginBatchWrite, BeginDelete, BeginBatchDelete
  <2>3. ASSUME NEW t \in tuples, InsertTuple(t)
        PROVE  ExactInv'
    <3>1. readd = {} /\ refs = {} /\ op = "write"
      BY <2>0, <2>3 DEF InsertTuple, WorkingExact
    <3>2. Exact(wClosure, Edges(wRelations))
      BY <2>0, <3>1, NothingDue
    <3>3. Exact(wClosure', Edges(wRelations'))
      <4>1. CASE Tracked(t)
        <5>1. Edges(wRelations \cup {t}) = Edges(wRelations) \cup {<<t.entity, t.subject>>}
          BY <4>1 DEF Edges, Edge
        <5>2. /\ wClosure' = UpdateClosureOnAdd(wClosure, t.entity, t.subject)
              /\ wRelations' = wRelations \cup {t}
          BY <2>3, <4>1 DEF InsertTuple
        <5>3. t.entity \in Node /\ t.subject \in Node
          BY EdgeType
        <5>4. QED
          BY <2>0, <3>2, <5>1, <5>2, <5>3, AddExact
      <4>2. CASE ~Tracked(t)
        <5>1. Edges(wRelations \cup {t}) = Edges(wRelations)
          BY <4>2 DEF Edges
        <5>2. QED  BY <2>3, <3>2, <4>2, <5>1 DEF InsertTuple
      <4>3. QED  BY <4>1, <4>2
    <3>4. Exact(wClosure', Represents({})')
      BY <2>3, <3>1, <3>3 DEF InsertTuple, Represents
    <3>5. QED
      BY <2>0, <2>3, <3>1, <3>4 DEF InsertTuple, ExactInv, CommittedPaths, WorkingExact
  <2>4. ASSUME NEW t \in tuples, DeleteTuple(t)
        PROVE  ExactInv'
    <3>1. readd = {} /\ refs = {} /\ op = "delete"
      BY <2>0, <2>4 DEF DeleteTuple, WorkingExact
    <3>2. Exact(wClosure, Edges(wRelations))
      BY <2>0, <3>1, NothingDue
    <3>3. /\ readd' \subseteq Edges(wRelations')
          /\ \E S \in SUBSET Edges(wRelations' \cup refs') :
                Exact(wClosure', Represents(S)')
      <4> DEFINE T == wRelations \ {t}
      <4>1. wRelations' = T /\ refs' = {} /\ T \in SUBSET tuples
        BY <2>4, <3>1 DEF DeleteTuple, TypeOK
      <4>2. CASE Tracked(t)
        <5>1. Edges(T) \subseteq Edges(wRelations)
              /\ Edges(wRelations) \subseteq Edges(T \cup {} \cup {t})
          BY DEF Edges
        <5>2. UpdateClosureOnDelete(T, t.entity, t.subject)
          BY <2>4, <4>2 DEF DeleteTuple
        <5>3. /\ readd' \subseteq Edges(T)
              /\ \E S \in SUBSET Edges(T \cup {}) :
                    Exact(wClosure', (Edges(T) \ readd') \cup S)
          BY <3>2, <4>1, <4>2, <5>1, <5>2, DeleteStepExact
        <5>4. QED  BY <4>1, <5>3 DEF Represents
      <4>3. CASE ~Tracked(t)
        <5>1. Edges(T) = Edges(wRelations)
          BY <4>3 DEF Edges
        <5>2. wClosure' = wClosure /\ readd' = {}
          BY <2>4, <3>1, <4>3 DEF DeleteTuple
        <5>3. Exact(wClosure', Represents({})')
          BY <3>2, <4>1, <5>1, <5>2 DEF Represents
        <5>4. QED  BY <5>2, <5>3
      <4>4. QED  BY <4>2, <4>3
    <3>4. QED
      BY <2>0, <2>4, <3>1, <3>3 DEF DeleteTuple, ExactInv, CommittedPaths, WorkingExact, Idle
  <2>5. ASSUME NEW f \in Filter, BeginDeleteByFilter(f)
        PROVE  ExactInv'
    <3>1. readd = {} /\ readd' = {}
      BY <2>0, <2>5 DEF BeginDeleteByFilter, WorkingExact, Idle
    <3>2. relations = wRelations' \cup refs'
      BY <2>5 DEF BeginDeleteByFilter
    <3>3. Represents(Edges(refs))' = Edges(relations)
      BY <3>1, <3>2, EdgesUnion DEF Represents
    <3>4. Exact(wClosure', Represents(Edges(refs))')
      BY <2>0, <2>5, <3>3 DEF BeginDeleteByFilter, CommittedPaths
    <3>5. Edges(refs') \in SUBSET Edges(wRelations' \cup refs')
      BY EdgesUnion
    <3>6. WorkingExact'
      BY <2>5, <3>1, <3>4, <3>5 DEF BeginDeleteByFilter, WorkingExact, Idle
    <3>7. QED
      BY <2>0, <2>5, <3>6 DEF BeginDeleteByFilter, ExactInv, CommittedPaths
  <2>6. ASSUME NEW t \in refs, CleanupRef(t)
        PROVE  ExactInv'
    <3>1. /\ readd = {} /\ op = "filter"
          /\ t \in tuples /\ t \notin wRelations
          /\ wRelations' = wRelations /\ refs' = refs \ {t}
          /\ wRelations \in SUBSET tuples /\ refs' \in SUBSET tuples
      BY <2>0, <2>6 DEF CleanupRef, WorkingExact, TypeOK
    <3>2. PICK S \in SUBSET Edges(wRelations \cup refs) :
                  Exact(wClosure, Represents(S))
      BY <2>0 DEF WorkingExact
    <3>3. /\ readd' \subseteq Edges(wRelations')
          /\ \E S2 \in SUBSET Edges(wRelations' \cup refs') :
                Exact(wClosure', Represents(S2)')
      <4>1. CASE Tracked(t)
        <5> DEFINE F == Edges(wRelations) \cup S
        <5>1. /\ Edges(wRelations) \subseteq F
              /\ F \subseteq Edges(wRelations \cup refs' \cup {t})
          BY <3>1, <3>2 DEF Edges
        <5>2. Exact(wClosure, F)
          BY <3>1, <3>2 DEF Represents
        <5>3. UpdateClosureOnDelete(wRelations, t.entity, t.subject)
          BY <2>6, <4>1 DEF CleanupRef
        <5>4. /\ readd' \subseteq Edges(wRelations)
              /\ \E S2 \in SUBSET Edges(wRelations \cup refs') :
                    Exact(wClosure', (Edges(wRelations) \ readd') \cup S2)
          <6> HIDE DEF F
          <6>1. QED  BY <3>1, <4>1, <5>1, <5>2, <5>3, DeleteStepExact
        <5>5. QED  BY <3>1, <5>4 DEF Represents
      <4>2. CASE ~Tracked(t)
        <5>1. Edges(wRelations \cup refs') = Edges(wRelations \cup refs)
          BY <3>1, <4>2 DEF Edges
        <5>2. wClosure' = wClosure /\ readd' = {}
          BY <2>6, <3>1, <4>2 DEF CleanupRef
        <5>3. Represents(S)' = Represents(S)
          BY <3>1, <5>2 DEF Represents
        <5>4. QED  BY <3>1, <3>2, <5>1, <5>2, <5>3
      <4>3. QED  BY <4>1, <4>2
    <3>4. QED
      BY <2>0, <2>6, <3>1, <3>3 DEF CleanupRef, ExactInv, CommittedPaths, WorkingExact, Idle
  <2>7. ASSUME NEW d \in readd, ReaddEdge(d)
        PROVE  ExactInv'
    <3>1. /\ d[1] \in Node /\ d[2] \in Node /\ d = <<d[1], d[2]>>
          /\ d \in Edges(wRelations)
      BY <2>0 DEF TypeOK, WorkingExact
    <3>2. PICK S \in SUBSET Edges(wRelations \cup refs) :
                  Exact(wClosure, Represents(S))
      BY <2>0 DEF WorkingExact
    <3>3. Exact(wClosure', Represents(S) \cup {d})
      BY <2>0, <2>7, <3>1, <3>2, AddExact DEF ReaddEdge
    <3>4. Represents(S)' = Represents(S) \cup {d}
      BY <2>7, <3>1 DEF ReaddEdge, Represents
    <3>5. QED
      BY <2>0, <2>7, <3>2, <3>3, <3>4 DEF ReaddEdge, ExactInv, CommittedPaths, WorkingExact
  <2>8. CASE BeginRebuildClosure
    <3>1. refs = {} /\ refs' = {}
      BY <2>0, <2>8 DEF BeginRebuildClosure, WorkingExact, Idle
    <3>2. Represents({})' = {}
      BY <2>8 DEF BeginRebuildClosure, Represents
    <3>3. Exact(wClosure', Represents({})')
      BY <2>8, <3>2, EmptyExact DEF BeginRebuildClosure
    <3>4. QED
      BY <2>0, <2>8, <3>1, <3>3 DEF BeginRebuildClosure, ExactInv, CommittedPaths,
         WorkingExact, Idle
  <2>9. CASE NextPass
    <3>1. readd = {} /\ refs = {}
      BY <2>0, <2>9 DEF NextPass, WorkingExact
    <3>2. Exact(wClosure, Edges(wRelations))
      BY <2>0, <3>1, NothingDue
    <3>3. /\ Represents(Edges(wRelations))' = Edges(wRelations)
          /\ Edges(wRelations)' = Edges(wRelations' \cup refs')
      BY <2>9, <3>1 DEF NextPass, Represents
    <3>4. QED
      BY <2>0, <2>9, <3>1, <3>2, <3>3 DEF NextPass, ExactInv, CommittedPaths,
         WorkingExact, Idle
  <2>10. ASSUME EndTx
         PROVE  WorkingExact'
    <3>1. Exact(wClosure', Represents({})')
      BY <2>10, EmptyExact, NoEdges DEF EndTx, Represents
    <3>2. QED  BY <2>10, <3>1 DEF EndTx, WorkingExact
  <2>11. CASE Commit
    <3>1. Exact(wClosure, Edges(wRelations))
      BY <2>0, <2>11, NothingDue DEF Commit
    <3>2. QED  BY <2>10, <2>11, <3>1 DEF Commit, ExactInv, CommittedPaths
  <2>12. CASE Rollback
    BY <2>0, <2>10, <2>12 DEF Rollback, ExactInv, CommittedPaths
  <2>13. CASE UNCHANGED vars
    BY <2>0, <2>13 DEF vars, ExactInv, CommittedPaths, WorkingExact, Represents
  <2>14. QED
    BY <2>2, <2>3, <2>4, <2>5, <2>6, <2>7, <2>8, <2>9, <2>11, <2>12, <2>13 DEF Next
<1>3. QED
  BY <1>1, <1>2, VocabularyFixed, TypeCorrect, PTL DEF Spec

\* With well-keyed tuples the committed table always holds exactly the pairs
\* joined by a path of tracked relations.
THEOREM ExactClosure == Spec => []ClosureExact
<1>1. (WellKeyed => ExactInv) => ClosureExact
  BY DEF ExactInv, ClosureExact, CommittedPaths, CommittedExact, Exact
<1>2. QED  BY <1>1, PathsKept, PTL

\* With well-keyed tuples the depth of a committed row is the length of a shortest path.
THEOREM ShortestDepths == Spec => []DepthsShortest
<1>1. TypeOK /\ (WellKeyed => ExactInv) => DepthsShortest
  BY ExactEdges, LengthsShortest DEF TypeOK, ExactInv, DepthsShortest, CommittedPaths
<1>2. QED  BY <1>1, TypeCorrect, PathsKept, PTL

-----------------------------------------------------------------------------
(***************************************************************************)
(* A rebuild repairs any table.                                             *)
(***************************************************************************)
RebuildInv ==
    op = "rebuild" =>
        /\ readd \subseteq Edges(wRelations)
        /\ \E S \in SUBSET Edges(wRelations) :
              Exact(wClosure, Represents(S))

\* Whatever the committed table holds and whatever tuples are in use, the table of a
\* rebuild is exact up to the edges still to be added.
LEMMA RebuildKept == Spec => []RebuildInv
<1>1. Init => RebuildInv
  BY DEF Init, RebuildInv, Idle
<1>2. TypeOK /\ RebuildInv /\ [Next]_vars => RebuildInv'
  <2> SUFFICES ASSUME TypeOK, RebuildInv, [Next]_vars, op' = "rebuild"
               PROVE  /\ readd' \subseteq Edges(wRelations')
                      /\ \E S \in SUBSET Edges(wRelations') :
                            Exact(wClosure', Represents(S)')
    BY DEF RebuildInv
  <2>1. CASE BeginRebuildClosure
    <3>1. Represents({})' = {}
      BY <2>1 DEF BeginRebuildClosure, Represents
    <3>2. QED  BY <2>1, <3>1, EmptyExact DEF BeginRebuildClosure
  <2>2. ASSUME NEW d \in readd, ReaddEdge(d)
        PROVE  /\ readd' \subseteq Edges(wRelations')
               /\ \E S \in SUBSET Edges(wRelations') :
                     Exact(wClosure', Represents(S)')
    <3>1. op = "rebuild" /\ wRelations' = wRelations /\ readd' = readd \ {d}
      BY <2>2 DEF ReaddEdge
    <3>2. PICK S \in SUBSET Edges(wRelations) :
                  Exact(wClosure, Represents(S))
      BY <3>1 DEF RebuildInv
    <3>3. /\ d[1] \in Node /\ d[2] \in Node /\ d = <<d[1], d[2]>>
          /\ d \in Edges(wRelations)
          /\ IsClosureTable(wClosure)
      BY <3>1 DEF TypeOK, RebuildInv
    <3>4. Exact(wClosure', Represents(S) \cup {d})
      BY <2>2, <3>2, <3>3, AddExact DEF ReaddEdge
    <3>5. Represents(S)' = Represents(S) \cup {d}
      BY <3>1, <3>3 DEF Represents
    <3>6. QED  BY <3>1, <3>2, <3>4, <3>5 DEF RebuildInv
  <2>3. CASE NextPass
    <3>1. PICK S \in SUBSET Edges(wRelations) :
                  Exact(wClosure, Represents(S))
      BY <2>3 DEF NextPass, RebuildInv
    <3>2. Represents(S) = Edges(wRelations) /\ Represents(Edges(wRelations))' = Edges(wRelations)
      BY <2>3, <3>1 DEF NextPass, Represents
    <3>3. QED  BY <2>3, <3>1, <3>2 DEF NextPass
  <2>4. ASSUME UNCHANGED <<op, wRelations, wClosure, readd>>
        PROVE  /\ readd' \subseteq Edges(wRelations')
               /\ \E S \in SUBSET Edges(wRelations') :
                     Exact(wClosure', Represents(S)')
    BY <2>4 DEF RebuildInv, Represents
  <2>5. QED
    BY <2>1, <2>2, <2>3, <2>4 DEF Next, BeginWrite, BeginBatchWrite, BeginDelete,
       BeginBatchDelete, Begin, InsertTuple, DeleteTuple, BeginDeleteByFilter,
       CleanupRef, Commit, Rollback, EndTx, Idle, vars
<1>3. QED
  BY <1>1, <1>2, TypeCorrect, PTL DEF Spec

\* Between two passes nothing is left to be added.
LEMMA PassDone ==
    ASSUME RebuildInv, op = "rebuild", readd = {}
    PROVE  Exact(wClosure, Edges(wRelations))
<1>1. PICK S \in SUBSET Edges(wRelations) : Exact(wClosure, Represents(S))
  BY DEF RebuildInv
<1>2. Represents(S) = Edges(wRelations)
  BY DEF Represents
<1>3. QED  BY <1>1, <1>2

\* Whatever the committed table holds and whatever tuples are in use, the table
\* a rebuild is about to commit is the exact closure.
THEOREM RebuildExact == Spec => []RebuildRepairs
<1>1. RebuildInv => RebuildRepairs
  BY PassDone DEF RebuildRepairs, Exact
<1>2. QED  BY <1>1, RebuildKept, PTL

\* Its depths are the shortest ones after the first pass and after every other.
THEOREM RebuiltDepths == Spec => []RebuildShortest
<1>1. TypeOK /\ RebuildInv => RebuildShortest
  BY PassDone, ExactEdges, LengthsShortest DEF RebuildShortest, TypeOK
<1>2. QED  BY <1>1, TypeCorrect, RebuildKept, PTL

-----------------------------------------------------------------------------
(***************************************************************************)
(* No row outlives its relations, parallel relations or not.                *)
(***************************************************************************)
SoundInv ==
    /\ readd \subseteq Edges(wRelations)
    /\ op # "filter" => refs = {}
    /\ op = Idle => readd = {}
    /\ \E F \in SUBSET Edges(wRelations \cup refs) : IsLeastClosure(DOMAIN wClosure, F)
    /\ CommittedSound

\* What a delete leaves and adds again comes from relations that are still stored or
\* whose cleanup is still due.
LEMMA DeleteStepSound ==
    ASSUME TypeOK, NoExcludedEdge, NEW T \in SUBSET tuples, NEW U \in SUBSET tuples,
           NEW t \in tuples, NEW F, F \subseteq Edges(T \cup U \cup {t}),
           IsLeastClosure(DOMAIN wClosure, F),
           UpdateClosureOnDelete(T, t.entity, t.subject)
    PROVE  /\ readd' \subseteq Edges(T)
           /\ \E G \in SUBSET Edges(T \cup U) : IsLeastClosure(DOMAIN wClosure', G)
<1> DEFINE A == Affected(wClosure, t.entity)
           G == {d \in F : d[1] \notin A}
<1>1. /\ wClosure' = DropDescendants(wClosure, A)
      /\ readd' = EdgesToReadd(T, A, Edge(t))
  BY DEF UpdateClosureOnDelete, Edge
<1>2. readd' \subseteq Edges(T)
  BY <1>1 DEF EdgesToReadd, Edges, NoExcludedEdge
<1>3. IsLeastClosure(DOMAIN wClosure', G)
  <2>1. DOMAIN wClosure \subseteq Node \X Node /\ t.entity \in Node
    BY EdgeType DEF TypeOK, IsClosureTable
  <2>2. QED  BY <1>1, <2>1, DropLeast
<1>4. G \subseteq Edges(T \cup U)
  <2>1. Edge(t)[1] \in A
    BY EdgeType DEF Affected
  <2>2. Edges(T \cup U \cup {t}) \subseteq Edges(T \cup U) \cup {Edge(t)}
    BY DEF Edges
  <2>3. QED  BY <2>1, <2>2
<1>5. QED  BY <1>2, <1>3, <1>4

\* Without plain tuples of excluded relations no row stays behind when the
\* relations it came from are deleted, by whatever operation.
THEOREM SoundClosure == Spec => []ClosureSound
<1>1. Init /\ NoExcludedEdge => SoundInv
  BY EmptyExact, NoEdges DEF Init, SoundInv, CommittedSound, Idle
<1>2. TypeOK /\ NoExcludedEdge /\ SoundInv /\ [Next]_vars => SoundInv'
  <2> SUFFICES ASSUME TypeOK, NoExcludedEdge, SoundInv, [Next]_vars
               PROVE  SoundInv'
    OBVIOUS
  <2>0. PICK F \in SUBSET Edges(wRelations \cup refs) : IsLeastClosure(DOMAIN wClosure, F)
    BY DEF SoundInv
  <2>1. ASSUME op = Idle PROVE refs = {}
    BY <2>1 DEF SoundInv, Idle
  <2>2. ASSUME NEW kind \in {"write", "delete"}, NEW n, Begin(kind, n)
        PROVE  SoundInv'
    BY <2>1, <2>2 DEF Begin, SoundInv, CommittedSound, Idle
  <2>3. CASE BeginWrite \/ BeginBatchWrite \/ BeginDelete \/ BeginBatchDelete
    BY <2>2, <2>3 DEF BeginWrite, BeginBatchWrite, BeginDelete, BeginBatchDelete
  <2>4. ASSUME NEW t \in tuples, InsertTuple(t)
        PROVE  SoundInv'
    <3>1. Edges(wRelations) \subseteq Edges(wRelations \cup {t})
          /\ Edges(wRelations \cup refs) \subseteq Edges(wRelations \cup {t} \cup refs)
      BY DEF Edges
    <3>2. \E G \in SUBSET Edges(wRelations' \cup refs') : IsLeastClosure(DOMAIN wClosure', G)
      <4>1. CASE Tracked(t)
        <5>1. IsLeastClosure(DOMAIN UpdateClosureOnAdd(wClosure, t.entity, t.subject),
                             F \cup {<<t.entity, t.subject>>})
          BY <2>0, AddLeast, EdgeType DEF TypeOK, IsClosureTable
        <5>2. <<t.entity, t.subject>> \in Edges(wRelations \cup {t} \cup refs)
          BY <4>1 DEF Edges, Edge
        <5>3. QED  BY <2>0, <2>4, <3>1, <4>1, <5>1, <5>2 DEF InsertTuple
      <4>2. CASE ~Tracked(t)
        BY <2>0, <2>4, <3>1, <4>2 DEF InsertTuple
      <4>3. QED  BY <4>1, <4>2
    <3>3. QED  BY <2>4, <3>1, <3>2 DEF InsertTuple, SoundInv, CommittedSound, Idle
  <2>5. ASSUME NEW t \in tuples, DeleteTuple(t)
        PROVE  SoundInv'
    <3> DEFINE T == wRelations \ {t}
    <3>1. /\ T \in SUBSET tuples /\ wRelations' = T /\ refs' = refs
          /\ refs = {} /\ readd = {} /\ op = "delete" /\ op' = op
      BY <2>5 DEF DeleteTuple, TypeOK, SoundInv
    <3>2. /\ readd' \subseteq Edges(T)
          /\ \E G \in SUBSET Edges(T \cup refs') : IsLeastClosure(DOMAIN wClosure', G)
      <4>1. CASE Tracked(t)
        <5>1. F \subseteq Edges(T \cup {} \cup {t})
          BY <2>0, <3>1 DEF Edges
        <5>2. UpdateClosureOnDelete(T, t.entity, t.subject)
          BY <2>5, <4>1 DEF DeleteTuple
        <5> HIDE DEF T
        <5>3. /\ readd' \subseteq Edges(T)
              /\ \E G \in SUBSET Edges(T \cup {}) : IsLeastClosure(DOMAIN wClosure', G)
          BY <2>0, <3>1, <5>1, <5>2, DeleteStepSound
        <5>4. QED  BY <3>1, <5>3
      <4>2. CASE ~Tracked(t)
        <5>1. Edges(T \cup refs') = Edges(wRelations \cup refs)
          BY <3>1, <4>2 DEF Edges
        <5>2. wClosure' = wClosure /\ readd' = {}
          BY <2>5, <3>1, <4>2 DEF DeleteTuple
        <5>3. QED  BY <2>0, <5>1, <5>2
      <4>3. QED  BY <4>1, <4>2
    <3>3. QED  BY <2>5, <3>1, <3>2 DEF DeleteTuple, SoundInv, CommittedSound, Idle
  <2>6. ASSUME NEW f \in Filter, BeginDeleteByFilter(f)
        PROVE  SoundInv'
    <3>1. relations = wRelations' \cup refs' /\ readd' = {} /\ wClosure' = closure
      BY <2>1, <2>6 DEF BeginDeleteByFilter, SoundInv, Idle, TypeOK
    <3>2. QED
      BY <2>6, <3>1 DEF BeginDeleteByFilter, SoundInv, CommittedSound, Idle
  <2>7. ASSUME NEW t \in refs, CleanupRef(t)
        PROVE  SoundInv'
    <3>1. /\ t \in tuples /\ wRelations \in SUBSET tuples /\ refs' \in SUBSET tuples
          /\ wRelations' = wRelations /\ refs' = refs \ {t} /\ readd = {}
          /\ op = "filter" /\ op' = op
      BY <2>7 DEF CleanupRef, TypeOK
    <3>2. /\ readd' \subseteq Edges(wRelations)
          /\ \E G \in SUBSET Edges(wRelations \cup refs') : IsLeastClosure(DOMAIN wClosure', G)
      <4>1. CASE Tracked(t)
        <5>1. F \subseteq Edges(wRelations \cup refs' \cup {t})
          BY <2>0, <3>1 DEF Edges
        <5>2. UpdateClosureOnDelete(wRelations, t.entity, t.subject)
          BY <2>7, <4>1 DEF CleanupRef
        <5>3. QED  BY <2>0, <3>1, <5>1, <5>2, DeleteStepSound
      <4>2. CASE ~Tracked(t)
        <5>1. Edges(wRelations \cup refs') = Edges(wRelations \cup refs)
          BY <3>1, <4>2 DEF Edges
        <5>2. wClosure' = wClosure /\ readd' = {}
          BY <2>7, <3>1, <4>2 DEF CleanupRef
        <5>3. QED  BY <2>0, <5>1, <5>2
      <4>3. QED  BY <4>1, <4>2
    <3>3. QED  BY <2>7, <3>1, <3>2 DEF CleanupRef, SoundInv, CommittedSound, Idle
  <2>8. ASSUME NEW d \in readd, ReaddEdge(d)
        PROVE  SoundInv'
    <3>1. /\ d[1] \in Node /\ d[2] \in Node /\ d = <<d[1], d[2]>>
          /\ d \in Edges(wRelations \cup refs)
      <4>1. d \in Edges(wRelations)
        BY DEF SoundInv
      <4>2. QED  BY <4>1, EdgesUnion DEF TypeOK
    <3>2. IsLeastClosure(DOMAIN wClosure', F \cup {d})
      BY <2>0, <2>8, <3>1, AddLeast DEF ReaddEdge, TypeOK, IsClosureTable
    <3>3. QED  BY <2>0, <2>8, <3>1, <3>2 DEF ReaddEdge, SoundInv, CommittedSound, Idle
  <2>9. CASE BeginRebuildClosure
    <3>1. IsLeastClosure(DOMAIN wClosure', {})
      BY <2>9, EmptyExact DEF BeginRebuildClosure
    <3>2. QED
      BY <2>1, <2>9, <3>1 DEF BeginRebuildClosure, SoundInv, CommittedSound, Idle
  <2>10. CASE NextPass
    BY <2>10 DEF NextPass, SoundInv, CommittedSound, Idle
  <2>11. ASSUME EndTx
         PROVE  /\ readd' = {} /\ refs' = {}
                /\ \E G \in SUBSET Edges(wRelations' \cup refs') :
                      IsLeastClosure(DOMAIN wClosure', G)
    BY <2>11, EmptyExact DEF EndTx
  <2>12. CASE Commit
    <3>1. wRelations \cup refs = wRelations
      BY <2>12 DEF Commit
    <3>2. CommittedSound'
      BY <2>0, <2>12, <3>1 DEF Commit, CommittedSound
    <3>3. QED  BY <2>11, <2>12, <3>2 DEF Commit, SoundInv
  <2>13. CASE Rollback
    BY <2>11, <2>13 DEF Rollback, SoundInv, CommittedSound
  <2>14. CASE UNCHANGED vars
    BY <2>14 DEF vars, SoundInv, CommittedSound
  <2>15. QED
    BY <2>3, <2>4, <2>5, <2>6, <2>7, <2>8, <2>9, <2>10, <2>12, <2>13, <2>14 DEF Next
<1>3. (NoExcludedEdge => SoundInv) => ClosureSound
  BY DEF SoundInv, ClosureSound
<1>4. QED
  BY <1>1, <1>2, <1>3, VocabularyFixed, TypeCorrect, PTL DEF Spec

=============================================================================
