----------------------------- MODULE LookupQueries -----------------------------
(***************************************************************************)
(* What the lookups ask: the queries that propose candidates, from what     *)
(* lookup.go reads off a permission rule to the SQL that                    *)
(* relation_repository.go builds from it, and the check that verifies one.  *)
(* Results are sets of ids; order, limits and pages are for Lookup.         *)
(***************************************************************************)
EXTENDS Permissions, Integers, FiniteSets

CONSTANTS
    IdOf,            \* per object: its id, a positive number
    TargetsOf,       \* the types that a relation may lead to, by <<type, relation>>
    MaxDepth,        \* MaxDepth
    maxUsersetDepth  \* maxUsersetDepth

ASSUME IdAssumption == \A o \in Object : IdOf[o] \in Nat \ {0}

\* relations: of the entity; parents: pairs <<relation to the parent, relation of
\* the parent>>; unresolvable: the SQL cannot stand in for the rule.
Extraction(rels, pars, unresolvable) ==
    [relations |-> rels, parents |-> pars, unresolvable |-> unresolvable]

Unresolvable == Extraction({}, {}, TRUE)

Combine(x, y) ==
    Extraction(x.relations \cup y.relations, x.parents \cup y.parents,
               x.unresolvable \/ y.unresolvable)

RECURSIVE Extract(_, _, _)
Extract(type, rule, visited) ==
    CASE rule.kind = "relation" ->
            IF rule.relation \notin RelationsOf[type]
               /\ rule.relation \in DOMAIN PermissionsOf[type]
            THEN Extract(type, PermissionsOf[type][rule.relation], visited)
            ELSE Extraction({rule.relation}, {}, FALSE)
      [] rule.kind = "or" ->
            Combine(Extract(type, rule.left, visited), Extract(type, rule.right, visited))
      [] rule.kind = "hierarchical" /\ rule.relation \in RelationsOf[type] ->
            LET targets == TargetsOf[<<type, rule.relation>>]
                key(t) == <<t, rule.permission>>
                named == <<rule.relation, rule.permission>>
                permits(t) == rule.permission \in DOMAIN PermissionsOf[t]
                below(t) == Extract(t, PermissionsOf[t][rule.permission], visited \cup {key(t)})
                direct == {t \in targets : \/ key(t) \in visited
                                           \/ ~permits(t) /\ rule.permission \in RelationsOf[t]}
                expanded == {t \in targets : key(t) \notin visited /\ permits(t)}
            IN  Extraction({},
                           {named : t \in direct}
                           \cup UNION {{rule.relation} \X below(t).relations : t \in expanded},
                           \/ direct \cup expanded = {}
                           \/ \E t \in expanded : below(t).parents # {} \/ below(t).unresolvable)
      [] OTHER -> Unresolvable

-----------------------------------------------------------------------------
Plain(t) == t.subjectRelation = ""

\* What the recursive query userset_chain finds in d rounds: the usersets, as pairs
\* <<object, relation>>, that rows of the pairs P name.
RECURSIVE UsersetChain(_, _, _)
UsersetChain(T, P, d) ==
    LET next == {<<t.subject, t.subjectRelation>> :
                    t \in {u \in T : ~Plain(u) /\ <<u.entity, u.relation>> \in P}}
    IN  IF d = 0 THEN {} ELSE next \cup UsersetChain(T, next, d - 1)

\* Mutant: the chain is followed one userset short of the limit.
MembersShort(T, P) ==
    LET reached == P \cup UsersetChain(T, P, maxUsersetDepth - 1)
    IN  {t.subject : t \in {u \in T : Plain(u) /\ <<u.entity, u.relation>> \in reached}}

\* The subjects without a relation that the rows of the pairs P name, directly or
\* through usersets.
Members(T, P) ==
    LET reached == P \cup UsersetChain(T, P, maxUsersetDepth)
    IN  {t.subject : t \in {u \in T : Plain(u) /\ <<u.entity, u.relation>> \in reached}}

\* The recursive query hier_walk, d rounds of it: the objects above those in S
\* through these relations.
RECURSIVE HierWalk(_, _, _, _)
HierWalk(T, S, rels, d) ==
    LET next == {t.subject : t \in {u \in T : /\ Plain(u)
                                             /\ u.entity \in S
                                             /\ u.relation \in rels}}
    IN  IF d = 0 THEN {} ELSE next \cup HierWalk(T, next, rels, d - 1)

\* Where the sub-queries begin: the relations of the entity and those of its parents.
\* Any relation of the pairs may lead up, any may be the one at the parent.
Starts(T, o, e) ==
    LET hierRelations == {p[1] : p \in e.parents}
        targetRelations == {p[2] : p \in e.parents}
    IN  ({o} \X e.relations)
        \cup (HierWalk(T, {o}, hierRelations, MaxDepth) \X targetRelations)

\* The union of the four sub-queries, before the filter by type.
Accessible(T, o, e) == Members(T, Starts(T, o, e))

LookupAccessibleEntitiesComplex(T, type, e, subject) ==
    {o \in Object : TypeOf[o] = type /\ subject \in Accessible(T, o, e)}

LookupAccessibleSubjectsComplex(T, o, e, subjectType) ==
    {s \in Accessible(T, o, e) : TypeOf[s] = subjectType}

\* GetSortedEntityIDs and GetSortedSubjectIDs of the relations.
EntitiesInRelations(T, type) == {o \in {t.entity : t \in T} : TypeOf[o] = type}

SubjectsInRelations(T, type) == {s \in {t.subject : t \in T} : TypeOf[s] = type}

-----------------------------------------------------------------------------
(***************************************************************************)
(* The same for a request q: entities of a type that a subject reaches, or  *)
(* subjects of a type that reach an entity.                                 *)
(***************************************************************************)
LooksUpEntities(q) == q.api = "LookupEntity"

Extracted(q) == Extract(q.entityType, RuleNamed(q.entityType, q.name), {})

UseOptimized(q) ==
    LET e == Extracted(q)
    IN  /\ ~e.unresolvable
        /\ e.relations # {} \/ e.parents # {}
        /\ q.context = {} \/ e.parents = {}
        /\ LooksUpEntities(q) \/ q.subjectRelation = ""

Ids(S) == {IdOf[o] : o \in S}

ListedIds(q) == Ids({o \in Object : TypeOf[o] = q.listedType})

\* The ids that the query of the optimized path selects.
AccessibleIds(q, T) ==
    IF LooksUpEntities(q)
    THEN Ids(LookupAccessibleEntitiesComplex(T, q.entityType, Extracted(q), q.subject))
    ELSE Ids(LookupAccessibleSubjectsComplex(T, q.entity, Extracted(q), q.listedType))

RelationIds(q, T) ==
    IF LooksUpEntities(q) THEN Ids(EntitiesInRelations(T, q.listedType))
    ELSE Ids(SubjectsInRelations(T, q.listedType))

AttributeIds(q) ==
    Ids({o \in Object : TypeOf[o] = q.listedType /\ q.attrs[o] # "absent"})

\* extractEntityIDsFromContextualTuples, extractSubjectIDsFromContextualTuples
ContextIds(q) ==
    IF LooksUpEntities(q) THEN Ids(EntitiesInRelations(q.context, q.entityType))
    ELSE Ids(SubjectsInRelations({t \in q.context : t.entity = q.entity}, q.listedType))

-----------------------------------------------------------------------------
\* The question that verifies the candidate i.
CheckRequest(q, i) ==
    LET candidate == CHOOSE o \in Object : TypeOf[o] = q.listedType /\ IdOf[o] = i
    IN  [entity |-> IF LooksUpEntities(q) THEN candidate ELSE q.entity,
         name |-> q.name,
         subject |-> IF LooksUpEntities(q) THEN q.subject ELSE candidate,
         subjectRelation |-> q.subjectRelation,
         context |-> q.context,
         attrs |-> q.attrs]

\* Premise of QueryCovers: from the candidate i the SQL follows what Check follows.  No
\* chain is longer than maxUsersetDepth usersets (one more finds nothing new), every
\* userset names a relation, and the parents are of types the schema names for them.
\* Nothing in the code ensures any of the three when tuples are written.
AllFollowed(q, i, T) ==
    LET o == CheckRequest(q, i).entity
        e == Extracted(q)
        chain == UsersetChain(T, Starts(T, o, e), maxUsersetDepth)
        up == {t \in T : t.entity = o /\ Plain(t) /\ t.relation \in {p[1] : p \in e.parents}}
    IN  /\ UsersetChain(T, Starts(T, o, e), maxUsersetDepth + 1) \subseteq chain
        /\ \A u \in chain : Has(u[1], u[2]) \/ ~Permits(u[1], u[2])
        /\ \A t \in up : TypeOf[t.subject] \in TargetsOf[<<TypeOf[o], t.relation>>]

Answer(holds) == IF holds THEN "allowed" ELSE "denied"

\* The answer from several rows, which come in no order: one that fails may come first.
AnyOf(answers) ==
    IF "failed" \in answers THEN "failed" ELSE Answer("allowed" \in answers)

\* What Check answers when nothing changes meanwhile: T decides what must hold, U what
\* a negation excludes, and depth levels of calls are left.  Without a level, or an
\* attribute, it fails, and so does every rule that needs the answer.  The shortcut for
\* rules like parent.parent is left out.
RECURSIVE Check(_, _, _, _, _, _)
Check(q, rule, o, T, U, depth) ==
    LET rows == {t \in T \cup q.context : t.entity = o /\ t.relation = rule.relation}
        left == Check(q, rule.left, o, T, U, depth)
        right == Check(q, rule.right, o, T, U, depth)
        parents == {t.subject : t \in {u \in rows : Plain(u)}}
        called(object, name) == Check(q, Asked(object, name), object, T, U, depth - 1)
        member(t) == Check(q, Relation(t.subjectRelation), t.subject, T, U, depth - 1)
    IN  IF depth = 0 THEN "failed" ELSE
        CASE rule.kind = "or" -> IF left = "denied" THEN right ELSE left
          [] rule.kind = "and" -> IF left = "allowed" THEN right ELSE left
          [] rule.kind = "not" ->
                LET result == Check(q, rule.left, o, U, T, depth)
                IN  IF result = "failed" THEN "failed" ELSE Answer(result = "denied")
          [] rule.kind = "abac" ->
                IF q.attrs[o] = "absent" THEN "failed" ELSE Answer(q.attrs[o] = "true")
          [] rule.kind = "hierarchical" ->
                AnyOf({called(p, rule.permission) :
                          p \in {x \in parents : \/ Permits(x, rule.permission)
                                                \/ Has(x, rule.permission)}})
          [] rule.kind = "relation" /\ ~Has(o, rule.relation) /\ Permits(o, rule.relation) ->
                called(o, rule.relation)
          [] OTHER ->
                IF \E t \in rows : /\ t.subject = q.subject
                                   /\ t.subjectRelation = q.subjectRelation
                THEN "allowed"
                ELSE AnyOf({member(t) : t \in {u \in rows : /\ q.subjectRelation = ""
                                                           /\ ~Plain(u)}})

\* The candidate is listed only if its check succeeds.
Allowed(q, i, T, U) ==
    LET asked == CheckRequest(q, i)
    IN  Check(asked, Asked(asked.entity, asked.name), asked.entity, T, U, MaxDepth)
            = "allowed"
=============================================================================
