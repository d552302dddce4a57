------------------------------- MODULE Expander -------------------------------
(***************************************************************************)
(* The tree expander.go builds for the question of a check, in one state of *)
(* the database: who is granted it, and why.  Children are a set, as no     *)
(* query has an ORDER BY.                                                   *)
(***************************************************************************)
EXTENDS Evaluator

\* A node of a tree; the leaves of usersets, attributes and rules keep what they
\* stand for.
SubjectLeaf(t) ==
    [type |-> "leaf", subject |-> t.subject, subjectRelation |-> t.subjectRelation]

RuleLeaf(o, rule) == [type |-> "rule", entity |-> o, rule |-> rule]

TooDeep == [type |-> "error"]

\* An error below a node is handed on.
Node(type, children) ==
    IF TooDeep \in children THEN TooDeep ELSE [type |-> type, children |-> children]

NodeType(operator) ==
    CASE operator = "or"  -> "union"
      [] operator = "and" -> "intersection"
      [] operator = "not" -> "exclusion"

\* Mutant: the contextual tuples are forgotten.
ReadStored(o, r) == {t \in stored : t.entity = o /\ t.relation = r}

\* The query without a limit, and the contextual tuples.
Read(o, r) == {t \in stored \cup req.context : t.entity = o /\ t.relation = r}

Subjects(o, r) == Node("union", {SubjectLeaf(t) : t \in Read(o, r)})

\* The tree of a question, from the trees of the questions it leads to.
ExpandRule(x, trees) ==
    LET rule == x[1]
        o == x[2]
        parents == Parents(Read(o, rule.relation))
        permitted == {t \in parents : Permits(t.subject, rule.permission)}
        related == {t \in parents \ permitted : Has(t.subject, rule.permission)}
    IN  CASE Refers(o, rule) -> trees[Referred(o, rule)]
          [] rule.kind = "relation" /\ ~Refers(o, rule) -> Subjects(o, rule.relation)
          [] rule.kind \in {"or", "and", "not"} ->
                Node(NodeType(rule.kind), {trees[y] : y \in Operands(x)})
          [] rule.kind = "hierarchical" ->
                Node("union", {trees[Parent(t, rule)] : t \in permitted}
                              \cup {Subjects(t.subject, rule.permission) : t \in related})
          [] rule.kind \in {"abac", "call", "parentCall"} -> RuleLeaf(o, rule)

\* The trees when so many levels are left.  Operands count as a level, unlike in a
\* check, and so do parents.
Trees[left \in 0..MaxDepth] ==
    IF left = 0 THEN [x \in Question(req) |-> TooDeep]
    ELSE [x \in Question(req) |-> ExpandRule(x, Trees[left - 1])]

Expand == Trees[MaxDepth][Goal(req)]

-----------------------------------------------------------------------------
(***************************************************************************)
(* Who a tree says is granted it, usersets and rules answered as a check    *)
(* would.                                                                   *)
(***************************************************************************)
RuleGrants(o, rule) ==
    Holds(req, <<rule, o>>, Knowledge(req, stored, {}), Knowledge(req, stored, {}))

\* granting: the nodes one level down that grant it.
NodeGrants(node, granting) ==
    CASE node.type = "leaf" ->
            IF node.subjectRelation = ""
            THEN node.subject = req.subject
            ELSE Member(node) \in Meaning(req, stored, stored).may
      [] node.type = "rule" -> RuleGrants(node.entity, node.rule)
      [] node.type = "union" -> node.children \cap granting # {}
      [] node.type = "intersection" -> node.children \subseteq granting
      [] node.type = "exclusion" -> node.children \cap granting = {}

\* Subjects of a parent are two levels below the last node there is room for.
Height == MaxDepth + 1

Children(node) ==
    IF node.type \in {"union", "intersection", "exclusion"} THEN node.children ELSE {}

\* The nodes so many levels below the root.
Below(tree) ==
    LET below[k \in 0..Height] ==
            IF k = 0 THEN {tree} ELSE UNION {Children(node) : node \in below[k - 1]}
    IN  below

\* Those of them that grant it, found from the leaves up.
Granting(tree) ==
    LET below == Below(tree)
        granting[up \in 0..Height] ==
            LET children == IF up = 0 THEN {} ELSE granting[up - 1]
            IN  {node \in below[Height - up] : NodeGrants(node, children)}
    IN  granting

TreeGrants(tree) == tree \in Granting(tree)[Height]

\* Tuples are rows of four columns, and when nothing is written no question may be
\* granted as well as denied.
ASSUME ExpanderAssumption ==
    /\ \A s \in Scenario : \A t \in Tuple \cup s.req.context :
          t = [entity |-> t.entity, relation |-> t.relation, subject |-> t.subject,
               subjectRelation |-> t.subjectRelation]
    /\ \A s \in Scenario :
          LET meaning == Meaning(s.req, s.stored, s.stored) IN meaning.may \subseteq meaning.must

\* Expand explains Check: when nothing was written meanwhile, a tree that is built
\* grants the permission to exactly the subjects Check allows, through
\* permissions of permissions, parents, usersets, negation, rules and contextual
\* tuples (expander.go and evaluator.go decide these apart from each other;
\* answers of the hierarchical shortcut and of queries that were cut off are left
\* out).
ExpandAgrees ==
    LET tree == Expand
    IN  (/\ Done
         /\ ever = always
         /\ ~shortcut
         /\ Whole(ever)
         /\ req.subjectRelation = ""
         /\ result \in {"true", "false"}
         /\ tree # TooDeep)
        => (TreeGrants(tree) <=> result = "true")
=============================================================================
