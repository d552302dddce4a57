---------------------------- MODULE MCClosureTable ----------------------------
(***************************************************************************)
(* Small instances of ClosureTable: four nodes, tuples that can form a      *)
(* chain of three, two paths of different lengths and a cycle, tracked and  *)
(* excluded relations, and a tuple with a subject relation.                 *)
(***************************************************************************)
EXTENDS ClosureTable

CONSTANTS a, b, c, d

Plainly(e, r, s) == [entity |-> e, relation |-> r, subject |-> s,
                     subjectRelation |-> NoSubjectRelation]

UsersetTuple == [entity |-> a, relation |-> "editor", subject |-> c,
                 subjectRelation |-> "member"]

MCRelation == {"parent", "editor", "viewer"}

\* One tracked relation per pair of nodes.
KeyedTuples ==
    {Plainly(a, "parent", b), Plainly(b, "parent", c), Plainly(a, "editor", c),
     Plainly(c, "parent", d), Plainly(c, "editor", b), UsersetTuple}

\* Two tracked relations join a and b.
ParallelTuples ==
    {Plainly(a, "parent", b), Plainly(a, "editor", b), Plainly(b, "parent", c),
     Plainly(c, "editor", b), UsersetTuple}

\* Parallel relations, and "viewer", which is excluded from the table and joins
\* a to c.
AnyTuples ==
    {Plainly(a, "parent", b), Plainly(a, "editor", b), Plainly(a, "viewer", c),
     Plainly(b, "parent", c), Plainly(b, "editor", d), Plainly(c, "parent", d),
     Plainly(c, "editor", b)}

KeyedOrAny == {KeyedTuples, AnyTuples}

OnlyParallel == {ParallelTuples}

AnyRow == [entity |-> {}, relation |-> {}, subject |-> {}, subjectRelation |-> {}]

\* Filters by entity, by several entities, by relation, by subject, by subject
\* relation.
MCFilter ==
    {[AnyRow EXCEPT !.entity = {a}], [AnyRow EXCEPT !.entity = {a, b}],
     [AnyRow EXCEPT !.relation = {"parent"}],
     [AnyRow EXCEPT !.entity = {b}, !.subject = {c}],
     [AnyRow EXCEPT !.subjectRelation = {"member"}]}
=============================================================================
