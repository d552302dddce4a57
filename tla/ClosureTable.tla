----------------------------- MODULE ClosureTable -----------------------------
(***************************************************************************)
(* The tables relations and entity_closure of one tenant and the write      *)
(* methods of PostgresRelationRepository that keep the second in step with  *)
(* the first.  One transaction runs at a time here; module                  *)
(* ClosureConcurrent interleaves them.                                      *)
(*                                                                         *)
(* A transaction works on private copies (wRelations, wClosure) that Commit *)
(* publishes and Rollback drops.  A batch is a sequence of InsertTuple or   *)
(* DeleteTuple steps; rebuilding the rows of the affected entities after a  *)
(* delete is one ReaddEdge step per remaining relation, in any order, since *)
(* the SELECTs of the code have no ORDER BY.                                *)
(***************************************************************************)
EXTENDS ClosureOps, FiniteSets

CONSTANTS
    Node,              \* entities and subjects, (type, id) pairs
    Relation,          \* relation names
    Excluded,          \* closureExcludedRelations
    SubjectRelation,   \* non-empty values of subject_relation
    NoSubjectRelation, \* the empty subject_relation
    Vocabulary,        \* the sets of relation tuples a tenant's clients may be using
    Filter,            \* the filters clients pass to DeleteByFilter
    MaxBatch,          \* bound: tuples in one batch
    MaxIterations      \* maxIterations of RebuildClosure

TupleType == [entity : Node, relation : Relation, subject : Node,
              subjectRelation : SubjectRelation \cup {NoSubjectRelation}]

\* An empty set in a field leaves that column unconstrained.
FilterType == [entity : SUBSET Node, relation : SUBSET Relation,
               subject : SUBSET Node, subjectRelation : SUBSET SubjectRelation]

ASSUME ConstantsAssumption ==
    /\ IsFiniteSet(Node)
    /\ Excluded \subseteq Relation
    /\ NoSubjectRelation \notin SubjectRelation
    /\ Vocabulary \subseteq SUBSET TupleType
    /\ Filter \subseteq FilterType
    /\ MaxBatch \in Nat \ {0}
    /\ MaxIterations \in Nat \ {0}

VARIABLES
    tuples,       \* the relation tuples the tenant's clients write and delete
    relations,    \* committed rows of the table relations
    closure,      \* committed rows of the table entity_closure
    op,           \* kind of the running transaction, or "idle"
    wRelations,   \* relations as the transaction sees them
    wClosure,     \* entity_closure as the transaction sees it
    left,         \* tuples of the batch still to come
    refs,         \* DeleteByFilter: deleted tuples whose cleanup is due
    readd,        \* edges the running rebuild still has to add
    pass,         \* RebuildClosure: finished passes
    countBefore   \* RebuildClosure: rows at the start of the pass

vars == <<tuples, relations, closure, op, wRelations, wClosure, left, refs, readd,
          pass, countBefore>>

Idle == "idle"

-----------------------------------------------------------------------------
Edge(t) == <<t.entity, t.subject>>

Plain(t) == t.subjectRelation = NoSubjectRelation

\* The tuples whose writes and deletes touch the closure table.
Tracked(t) == t.relation \notin Excluded /\ Plain(t)

Edges(T) == {Edge(t) : t \in {u \in T : Tracked(u)}}

\* The edges step 3 of updateClosureOnDelete adds again for the edge d: every
\* relation without a subject relation of an affected entity, whatever its
\* name, except those between the two ends of d.
EdgesToReadd(T, A, d) ==
    {Edge(t) : t \in {u \in T : Plain(u) /\ u.entity \in A}} \ {d}

Admits(allowed, value) == allowed = {} \/ value \in allowed

Matches(f, t) ==
    /\ Admits(f.entity, t.entity)
    /\ Admits(f.relation, t.relation)
    /\ Admits(f.subject, t.subject)
    /\ Admits(f.subjectRelation, t.subjectRelation)

-----------------------------------------------------------------------------
Init ==
    /\ tuples \in Vocabulary
    /\ relations = {}
    /\ closure = [p \in {} |-> 0]
    /\ op = Idle
    /\ wRelations = {}
    /\ wClosure = [p \in {} |-> 0]
    /\ left = 0
    /\ refs = {}
    /\ readd = {}
    /\ pass = 0
    /\ countBefore = 0

\* BeginTx: the transaction sees the committed tables.
Begin(kind, size) ==
    /\ op = Idle
    /\ op' = kind
    /\ left' = size
    /\ wRelations' = relations
    /\ wClosure' = closure
    /\ UNCHANGED <<tuples, relations, closure, refs, readd, pass, countBefore>>

BeginWrite == Begin("write", 1)

BeginBatchWrite == \E n \in 1..MaxBatch : Begin("write", n)

BeginDelete == Begin("delete", 1)

BeginBatchDelete == \E n \in 1..MaxBatch : Begin("delete", n)

\* INSERT ... ON CONFLICT DO NOTHING, then updateClosureOnAdd, also when the
\* tuple was there already.
InsertTuple(t) ==
    /\ op = "write"
    /\ left > 0
    /\ left' = left - 1
    /\ wRelations' = wRelations \cup {t}
    /\ wClosure' = IF Tracked(t)
                   THEN UpdateClosureOnAdd(wClosure, t.entity, t.subject)
                   ELSE wClosure
    /\ UNCHANGED <<tuples, relations, closure, op, refs, readd, pass, countBefore>>

\* updateClosureOnDelete for an edge whose tuple is no longer in T, up to the
\* re-adding of edges, which ReaddEdge performs.
UpdateClosureOnDelete(T, e, s) ==
    LET A == Affected(wClosure, e)
    IN  /\ wClosure' = DropDescendants(wClosure, A)
        /\ readd' = EdgesToReadd(T, A, <<e, s>>)

DeleteTuple(t) ==
    /\ op = "delete"
    /\ readd = {}
    /\ left > 0
    /\ left' = left - 1
    /\ wRelations' = wRelations \ {t}
    /\ IF Tracked(t)
       THEN UpdateClosureOnDelete(wRelations \ {t}, t.entity, t.subject)
       ELSE UNCHANGED <<wClosure, readd>>
    /\ UNCHANGED <<tuples, relations, closure, op, refs, pass, countBefore>>

\* DeleteByFilter selects the matching tuples and deletes them all before it
\* touches the closure.
BeginDeleteByFilter(f) ==
    /\ op = Idle
    /\ op' = "filter"
    /\ refs' = {t \in relations : Matches(f, t)}
    /\ wRelations' = {t \in relations : ~Matches(f, t)}
    /\ wClosure' = closure
    /\ UNCHANGED <<tuples, relations, closure, left, readd, pass, countBefore>>

CleanupRef(t) ==
    /\ op = "filter"
    /\ readd = {}
    /\ t \in refs
    /\ refs' = refs \ {t}
    /\ IF Tracked(t)
       THEN UpdateClosureOnDelete(wRelations, t.entity, t.subject)
       ELSE UNCHANGED <<wClosure, readd>>
    /\ UNCHANGED <<tuples, relations, closure, op, wRelations, left, pass, countBefore>>

\* One call of updateClosureOnAdd in the loops of updateClosureOnDelete and
\* RebuildClosure.
ReaddEdge(d) ==
    /\ d \in readd
    /\ readd' = readd \ {d}
    /\ wClosure' = UpdateClosureOnAdd(wClosure, d[1], d[2])
    /\ UNCHANGED <<tuples, relations, closure, op, wRelations, left, refs, pass, countBefore>>

\* Mutant: the table is not emptied first.
BeginRebuildOnTop ==
    /\ op = Idle
    /\ op' = "rebuild"
    /\ wRelations' = relations
    /\ wClosure' = closure
    /\ readd' = Edges(relations)
    /\ pass' = 0
    /\ countBefore' = 0
    /\ UNCHANGED <<tuples, relations, closure, left, refs>>

\* RebuildClosure empties the table and starts the first pass.
BeginRebuildClosure ==
    /\ op = Idle
    /\ op' = "rebuild"
    /\ wRelations' = relations
    /\ wClosure' = [p \in {} |-> 0]
    /\ readd' = Edges(relations)
    /\ pass' = 0
    /\ countBefore' = 0
    /\ UNCHANGED <<tuples, relations, closure, left, refs>>

\* The end of a pass that changed the number of rows: run another.
NextPass ==
    /\ op = "rebuild"
    /\ readd = {}
    /\ Cardinality(DOMAIN wClosure) # countBefore
    /\ pass + 1 < MaxIterations
    /\ pass' = pass + 1
    /\ countBefore' = Cardinality(DOMAIN wClosure)
    /\ readd' = Edges(wRelations)
    /\ UNCHANGED <<tuples, relations, closure, op, wRelations, wClosure, left, refs>>

RebuildDone ==
    \/ Cardinality(DOMAIN wClosure) = countBefore
    \/ pass + 1 >= MaxIterations

EndTx ==
    /\ tuples' = tuples
    /\ op' = Idle
    /\ left' = 0
    /\ refs' = {}
    /\ readd' = {}
    /\ pass' = 0
    /\ countBefore' = 0
    /\ wRelations' = {}
    /\ wClosure' = [p \in {} |-> 0]

Commit ==
    /\ op # Idle
    /\ left = 0
    /\ readd = {}
    /\ refs = {}
    /\ op = "rebuild" => RebuildDone
    /\ relations' = wRelations
    /\ closure' = wClosure
    /\ EndTx

\* An error of any statement, a cancelled context or a crash: the deferred
\* tx.Rollback or the server drops the transaction.
Rollback ==
    /\ op # Idle
    /\ EndTx
    /\ UNCHANGED <<relations, closure>>

Next ==
    \/ BeginWrite
    \/ BeginBatchWrite
    \/ BeginDelete
    \/ BeginBatchDelete
    \/ \E t \in tuples : InsertTuple(t) \/ DeleteTuple(t)
    \/ \E f \in Filter : BeginDeleteByFilter(f)
    \/ \E t \in refs : CleanupRef(t)
    \/ \E d \in readd : ReaddEdge(d)
    \/ BeginRebuildClosure
    \/ NextPass
    \/ Commit
    \/ Rollback

Spec == Init /\ [][Next]_vars

-----------------------------------------------------------------------------
IsClosureTable(C) ==
    /\ DOMAIN C \subseteq Node \X Node
    /\ \A p \in DOMAIN C : C[p] \in Nat \ {0}

TypeOK ==
    /\ tuples \subseteq TupleType
    /\ relations \subseteq tuples
    /\ wRelations \subseteq tuples
    /\ refs \subseteq tuples
    /\ readd \subseteq Node \X Node
    /\ IsClosureTable(closure)
    /\ IsClosureTable(wClosure)
    /\ op \in {Idle, "write", "delete", "filter", "rebuild"}
    /\ left \in 0..MaxBatch
    /\ pass \in Nat
    /\ countBefore \in Nat

(***************************************************************************)
(* What the tuples clients use must satisfy for the table to be exact: no   *)
(* two tracked tuples join the same pair of nodes, and no excluded relation *)
(* is used without a subject relation.                                      *)
(***************************************************************************)
NoExcludedEdge == \A t \in tuples : Plain(t) => Tracked(t)

NoParallelEdge ==
    \A t, u \in tuples : Tracked(t) /\ Tracked(u) /\ Edge(t) = Edge(u) => t = u

WellKeyed == NoExcludedEdge /\ NoParallelEdge

\* The committed table never holds a and b above it, and c above b, without c
\* above a: what updateClosureOnAdd reads is closed under composition after
\* every write, whatever relations were excluded or doubled.
ClosureTransitive == IsTransitiveSet(DOMAIN closure)

CommittedExact == IsLeastClosure(DOMAIN closure, Edges(relations))

\* With well-keyed tuples the committed table holds exactly the pairs joined by a
\* path of tracked relations (updateClosureOnAdd, updateClosureOnDelete), cycles
\* included.
ClosureExact == WellKeyed => CommittedExact

\* With well-keyed tuples the depth column is the length of a shortest path, so
\* LookupAncestors with a maxDepth cuts at the right rows.
DepthsShortest == WellKeyed => IsShortest(closure, Edges(relations))

CommittedSound ==
    \E E \in SUBSET Edges(relations) : IsLeastClosure(DOMAIN closure, E)

\* Without plain tuples of excluded relations no row outlives the relations it
\* came from: the table is the closure of some of the tracked relations stored.
ClosureSound == NoExcludedEdge => CommittedSound

\* Every stored relation that is tracked has its row.
ClosureComplete == Edges(relations) \subseteq DOMAIN closure

\* A rebuild that is about to commit holds the exact closure, whatever the table
\* held before, whatever tuples are in use and in whatever order the relations
\* were processed (the comment on RebuildClosure).
RebuildRepairs ==
    op = "rebuild" /\ readd = {} => IsLeastClosure(DOMAIN wClosure, Edges(wRelations))

\* The fixed point test of RebuildClosure counts rows and never looks at depths: they
\* are the shortest ones all the same, after the first pass already.
RebuildShortest ==
    op = "rebuild" /\ readd = {} => IsShortest(wClosure, Edges(wRelations))

=============================================================================
