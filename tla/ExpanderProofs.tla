---------------------------- MODULE ExpanderProofs ----------------------------
(***************************************************************************)
(* Proofs about Expander: a tree grants what a check allows.  What a node    *)
(* grants lies between the two answers its question may have: granted when  *)
(* the question may be granted, and only when it must be.                   *)
(***************************************************************************)
EXTENDS Expander, EvaluatorProofs

-----------------------------------------------------------------------------
(***************************************************************************)
(* The three recursive functions satisfy their equations.                   *)
(***************************************************************************)
LEMMA TreeLevels ==
    /\ Trees[0] = [x \in Question(req) |-> TooDeep]
    /\ \A i \in 1..MaxDepth :
          Trees[i] = [x \in Question(req) |-> ExpandRule(x, Trees[i - 1])]
<1> DEFINE First == [x \in Question(req) |-> TooDeep]
           Above(trees) == [x \in Question(req) |-> ExpandRule(x, trees)]
           Solves(g, n) == g = [i \in 0..n |-> IF i = 0 THEN First ELSE Above(g[i - 1])]
           Bad == {n \in 0..MaxDepth : ~ \E g : Solves(g, n)}
<1>1. MaxDepth \in Nat
  BY EvaluatorAssumption DEF EvaluatorAssumption
<1>2. ASSUME Bad # {} PROVE FALSE
  <2> HIDE DEF First, Above
  <2>1. PICK m \in Bad : \A o \in Bad : ~ (<<o, m>> \in OpToRel(<, Nat))
    <3>1. Bad \subseteq Nat
      OBVIOUS
    <3> HIDE DEF Bad
    <3> QED BY <1>2, <3>1, NatLessThanWellFounded, WFMin
  <2>2. CASE m = 0
    <3> DEFINE g == [i \in 0..0 |-> First]
    <3>1. Solves(g, 0)
      OBVIOUS
    <3> HIDE DEF g, Solves
    <3> QED BY <2>2, <3>1
  <2>3. CASE m # 0
    <3>1. m \in Nat /\ m - 1 \in Nat /\ m - 1 \in 0..MaxDepth /\ m - 1 < m
      BY <1>1, <2>3
    <3>2. m - 1 \notin Bad
      BY <2>1, <3>1 DEF OpToRel
    <3>3. PICK h : Solves(h, m - 1)
      BY <3>1, <3>2
    <3> DEFINE g == [i \in 0..m |-> IF i \in 0..m - 1 THEN h[i] ELSE Above(h[m - 1])]
    <3>4. ASSUME NEW i \in 0..m
          PROVE  g[i] = IF i = 0 THEN First ELSE Above(g[i - 1])
      <4>1. CASE i = 0
        BY <3>1, <3>3, <4>1
      <4>2. CASE i # 0 /\ i # m
        <5>1. i \in 0..m - 1 /\ i - 1 \in 0..m - 1 /\ i - 1 \in 0..m
          BY <3>1, <4>2
        <5> QED BY <3>3, <4>2, <5>1
      <4>3. CASE i = m
        <5>1. i \notin 0..m - 1 /\ i - 1 \in 0..m - 1 /\ i - 1 \in 0..m /\ i # 0
          BY <3>1, <4>3
        <5> QED BY <4>3, <5>1
      <4> QED BY <4>1, <4>2, <4>3
    <3>5. Solves(g, m)
      <4>1. g = [i \in 0..m |-> g[i]]
        OBVIOUS
      <4> HIDE DEF g
      <4> QED BY <3>4, <4>1
    <3> HIDE DEF g, Solves
    <3> QED BY <3>5
  <2> QED BY <2>2, <2>3
<1>3. \E g : Solves(g, MaxDepth)
  <2>1. MaxDepth \in 0..MaxDepth
    BY <1>1
  <2>2. Bad = {}
    <3> HIDE DEF Bad
    <3> QED BY <1>2
  <2> HIDE DEF Solves
  <2> QED BY <2>1, <2>2
<1>4. Solves(Trees, MaxDepth)
  BY <1>3 DEF Trees
<1> HIDE DEF First, Above
<1>5. Trees[0] = First
  BY <1>1, <1>4
<1>6. ASSUME NEW i \in 1..MaxDepth
      PROVE  Trees[i] = Above(Trees[i - 1])
  <2>1. i \in 0..MaxDepth /\ i # 0
    BY <1>1
  <2> QED BY <1>4, <2>1
<1> QED BY <1>5, <1>6 DEF First, Above

LEMMA BelowLevels ==
    ASSUME NEW tree
    PROVE  /\ Below(tree)[0] = {tree}
           /\ \A k \in 1..Height :
                 Below(tree)[k] = UNION {Children(node) : node \in Below(tree)[k - 1]}
<1> DEFINE First == {tree}
           Above(i, S) == UNION {Children(node) : node \in S}
           Solves(g, n) == g = [i \in 0..n |-> IF i = 0 THEN First ELSE Above(i, g[i - 1])]
           Bad == {n \in 0..Height : ~ \E g : Solves(g, n)}
<1>1. Height \in Nat
  BY EvaluatorAssumption DEF EvaluatorAssumption, Height
<1>2. ASSUME Bad # {} PROVE FALSE
  <2> HIDE DEF First, Above
  <2>1. PICK m \in Bad : \A o \in Bad : ~ (<<o, m>> \in OpToRel(<, Nat))
    <3>1. Bad \subseteq Nat
      OBVIOUS
    <3> HIDE DEF Bad
    <3> QED BY <1>2, <3>1, NatLessThanWellFounded, WFMin
  <2>2. CASE m = 0
    <3> DEFINE g == [i \in 0..0 |-> First]
    <3>1. Solves(g, 0)
      OBVIOUS
    <3> HIDE DEF g, Solves
    <3> QED BY <2>2, <3>1
  <2>3. CASE m # 0
    <3>1. m \in Nat /\ m - 1 \in Nat /\ m - 1 \in 0..Height /\ m - 1 < m
      BY <1>1, <2>3
    <3>2. m - 1 \notin Bad
      BY <2>1, <3>1 DEF OpToRel
    <3>3. PICK h : Solves(h, m - 1)
      BY <3>1, <3>2
    <3> DEFINE g == [i \in 0..m |-> IF i \in 0..m - 1 THEN h[i] ELSE Above(m, h[m - 1])]
    <3>4. ASSUME NEW i \in 0..m
          PROVE  g[i] = IF i = 0 THEN First ELSE Above(i, g[i - 1])
      <4>1. CASE i = 0
        BY <3>1, <3>3, <4>1
      <4>2. CASE i # 0 /\ i # m
        <5>1. i \in 0..m - 1 /\ i - 1 \in 0..m - 1 /\ i - 1 \in 0..m
          BY <3>1, <4>2
        <5> QED BY <3>3, <4>2, <5>1
      <4>3. CASE i = m
        <5>1. i \notin 0..m - 1 /\ i - 1 \in 0..m - 1 /\ i - 1 \in 0..m /\ i # 0
          BY <3>1, <4>3
        <5> QED BY <4>3, <5>1
      <4> QED BY <4>1, <4>2, <4>3
    <3>5. Solves(g, m)
      <4>1. g = [i \in 0..m |-> g[i]]
        OBVIOUS
      <4> HIDE DEF g
      <4> QED BY <3>4, <4>1
    <3> HIDE DEF g, Solves
    <3> QED BY <3>5
  <2> QED BY <2>2, <2>3
<1>3. \E g : Solves(g, Height)
  <2>1. Height \in 0..Height
    BY <1>1
  <2>2. Bad = {}
    <3> HIDE DEF Bad
    <3> QED BY <1>2
  <2> HIDE DEF Solves
  <2> QED BY <2>1, <2>2
<1>4. Solves(Below(tree), Height)
  BY <1>3 DEF Below
<1> HIDE DEF First, Above
<1>5. Below(tree)[0] = First
  BY <1>1, <1>4
<1>6. ASSUME NEW i \in 1..Height
      PROVE  Below(tree)[i] = Above(i, Below(tree)[i - 1])
  <2>1. i \in 0..Height /\ i # 0
    BY <1>1
  <2> QED BY <1>4, <2>1
<1> QED BY <1>5, <1>6 DEF First, Above

LEMMA GrantingLevels ==
    ASSUME NEW tree
    PROVE  /\ Granting(tree)[0] = {node \in Below(tree)[Height] : NodeGrants(node, {})}
           /\ \A i \in 1..Height :
                 Granting(tree)[i] =
                    {node \in Below(tree)[Height - i] : NodeGrants(node, Granting(tree)[i - 1])}
<1> DEFINE First == {node \in Below(tree)[Height] : NodeGrants(node, {})}
           Above(i, G) == {node \in Below(tree)[Height - i] : NodeGrants(node, G)}
           Solves(g, n) == g = [i \in 0..n |-> IF i = 0 THEN First ELSE Above(i, g[i - 1])]
           Bad == {n \in 0..Height : ~ \E g : Solves(g, n)}
<1>1. Height \in Nat
  BY EvaluatorAssumption DEF EvaluatorAssumption, Height
<1>2. ASSUME Bad # {} PROVE FALSE
  <2> HIDE DEF First, Above
  <2>1. PICK m \in Bad : \A o \in Bad : ~ (<<o, m>> \in OpToRel(<, Nat))
    <3>1. Bad \subseteq Nat
      OBVIOUS
    <3> HIDE DEF Bad
    <3> QED BY <1>2, <3>1, NatLessThanWellFounded, WFMin
  <2>2. CASE m = 0
    <3> DEFINE g == [i \in 0..0 |-> First]
    <3>1. Solves(g, 0)
      OBVIOUS
    <3> HIDE DEF g, Solves
    <3> QED BY <2>2, <3>1
  <2>3. CASE m # 0
    <3>1. m \in Nat /\ m - 1 \in Nat /\ m - 1 \in 0..Height /\ m - 1 < m
      BY <1>1, <2>3
    <3>2. m - 1 \notin Bad
      BY <2>1, <3>1 DEF OpToRel
    <3>3. PICK h : Solves(h, m - 1)
      BY <3>1, <3>2
    <3> DEFINE g == [i \in 0..m |-> IF i \in 0..m - 1 THEN h[i] ELSE Above(m, h[m - 1])]
    <3>4. ASSUME NEW i \in 0..m
          PROVE  g[i] = IF i = 0 THEN First ELSE Above(i, g[i - 1])
      <4>1. CASE i = 0
        BY <3>1, <3>3, <4>1
      <4>2. CASE i # 0 /\ i # m
        <5>1. i \in 0..m - 1 /\ i - 1 \in 0..m - 1 /\ i - 1 \in 0..m
          BY <3>1, <4>2
        <5> QED BY <3>3, <4>2, <5>1
      <4>3. CASE i = m
        <5>1. i \notin 0..m - 1 /\ i - 1 \in 0..m - 1 /\ i - 1 \in 0..m /\ i # 0
          BY <3>1, <4>3
        <5> QED BY <4>3, <5>1
      <4> QED BY <4>1, <4>2, <4>3
    <3>5. Solves(g, m)
      <4>1. g = [i \in 0..m |-> g[i]]
        OBVIOUS
      <4> HIDE DEF g
      <4> QED BY <3>4, <4>1
    <3> HIDE DEF g, Solves
    <3> QED BY <3>5
  <2> QED BY <2>2, <2>3
<1>3. \E g : Solves(g, Height)
  <2>1. Height \in 0..Height
    BY <1>1
  <2>2. Bad = {}
    <3> HIDE DEF Bad
    <3> QED BY <1>2
  <2> HIDE DEF Solves
  <2> QED BY <2>1, <2>2
<1>4. Solves(Granting(tree), Height)
  <2> DEFINE Body(g, i) == {node \in Below(tree)[Height - i] :
                               NodeGrants(node, IF i = 0 THEN {} ELSE g[i - 1])}
  <2>1. PICK g : Solves(g, Height)
    BY <1>3
  <2>2. ASSUME NEW f, NEW i \in 0..Height
        PROVE  Body(f, i) = IF i = 0 THEN First ELSE Above(i, f[i - 1])
    <3>1. Height - 0 = Height
      BY <1>1
    <3>2. CASE i = 0
      BY <3>1, <3>2
    <3>3. CASE i # 0
      BY <3>3
    <3> QED BY <3>2, <3>3
  <2> HIDE DEF Body, First, Above
  <2>3. ASSUME NEW f PROVE Solves(f, Height) <=> f = [i \in 0..Height |-> Body(f, i)]
    BY <2>2
  <2> HIDE DEF Solves
  <2>4. Granting(tree) = CHOOSE f : f = [i \in 0..Height |-> Body(f, i)]
    BY DEF Granting, Body
  <2> QED BY <2>1, <2>3, <2>4
<1> HIDE DEF First, Above
<1>5. Granting(tree)[0] = First
  BY <1>1, <1>4
<1>6. ASSUME NEW i \in 1..Height
      PROVE  Granting(tree)[i] = Above(i, Granting(tree)[i - 1])
  <2>1. i \in 0..Height /\ i # 0
    BY <1>1
  <2> QED BY <1>4, <2>1
<1> QED BY <1>5, <1>6 DEF First, Above

-----------------------------------------------------------------------------
(***************************************************************************)
(* Nodes of a tree.                                                         *)
(***************************************************************************)
\* The nodes k levels below the root that grant it.
Grant(tree, k) == Granting(tree)[Height - k]

LEMMA NodeFacts ==
    ASSUME NEW tree, NEW k \in 0..MaxDepth, NEW node \in Below(tree)[k]
    PROVE  /\ Children(node) \subseteq Below(tree)[k + 1]
           /\ node \in Grant(tree, k) <=> NodeGrants(node, Grant(tree, k + 1))
<1>1. /\ MaxDepth \in Nat
      /\ k + 1 \in 1..Height /\ (k + 1) - 1 = k
      /\ Height - k \in 1..Height /\ Height - (Height - k) = k
      /\ (Height - k) - 1 = Height - (k + 1)
  BY EvaluatorAssumption DEF EvaluatorAssumption, Height
<1>2. Below(tree)[k + 1] = UNION {Children(m) : m \in Below(tree)[k]}
  BY <1>1, BelowLevels
<1>3. Granting(tree)[Height - k] =
        {m \in Below(tree)[k] : NodeGrants(m, Granting(tree)[Height - (k + 1)])}
  BY <1>1, GrantingLevels
<1> QED BY <1>2, <1>3 DEF Grant

LEMMA LeafFacts ==
    ASSUME NEW tree, NEW k \in 0..Height, NEW node \in Below(tree)[k],
           node.type \in {"leaf", "rule"}
    PROVE  node \in Grant(tree, k) <=> NodeGrants(node, {})
<1>1. MaxDepth \in Nat /\ Height \in Nat
  BY EvaluatorAssumption DEF EvaluatorAssumption, Height
<1>2. ASSUME NEW G, NEW F PROVE NodeGrants(node, G) <=> NodeGrants(node, F)
  BY DEF NodeGrants
<1>3. CASE k = Height
  <2>1. Height - k = 0
    BY <1>1, <1>3
  <2> QED BY <2>1, <1>3, GrantingLevels DEF Grant
<1>4. CASE k # Height
  <2>1. k \in 0..MaxDepth
    BY <1>1, <1>4 DEF Height
  <2> QED BY <2>1, <1>2, NodeFacts
<1> QED BY <1>3, <1>4

\* Of a node of children that has been built.
LEMMA BuiltNode ==
    ASSUME NEW type \in {"union", "intersection", "exclusion"}, NEW children,
           Node(type, children) # TooDeep
    PROVE  LET node == Node(type, children) IN
           /\ TooDeep \notin children
           /\ Children(node) = children
           /\ \A G : NodeGrants(node, G) <=>
                 CASE type = "union" -> \E c \in children : c \in G
                   [] type = "intersection" -> \A c \in children : c \in G
                   [] type = "exclusion" -> \A c \in children : c \notin G
<1>1. TooDeep \notin children /\ Node(type, children) = [type |-> type, children |-> children]
  BY DEF Node
<1> DEFINE node == Node(type, children)
<1>2. node.type = type /\ node.children = children
  BY <1>1
<1> HIDE DEF node
<1>3. Children(node) = children
  BY <1>2 DEF Children
<1>4. ASSUME NEW G
      PROVE  NodeGrants(node, G) <=>
                CASE type = "union" -> \E c \in children : c \in G
                  [] type = "intersection" -> \A c \in children : c \in G
                  [] type = "exclusion" -> \A c \in children : c \notin G
  BY <1>2 DEF NodeGrants
<1> QED BY <1>1, <1>3, <1>4 DEF node

-----------------------------------------------------------------------------
(***************************************************************************)
(* A state in which nothing has been written meanwhile.                     *)
(***************************************************************************)
Still(b) ==
    /\ b \in Bounds /\ b = <<req, stored, stored>>
    /\ May(b) \subseteq Must(b)
    /\ req.subjectRelation = ""
    /\ \A t \in stored \cup req.context :
          t = [entity |-> t.entity, relation |-> t.relation, subject |-> t.subject,
               subjectRelation |-> t.subjectRelation]

\* What a node grants lies between what the question may and must be answered.
Agrees(b, x, node, G) ==
    /\ x \in May(b) => node \in G
    /\ node \in G => x \in Must(b)

LEMMA StillFacts ==
    ASSUME NEW b, Still(b)
    PROVE  /\ b \in Bounds /\ b[1] = req
           /\ Lo(b) = stored \cup req.context /\ Hi(b) = stored \cup req.context
           /\ May(b) = Meaning(req, stored, stored).may
           /\ req \in {s.req : s \in Scenario}
BY BoundFacts DEF Still, Lo, Hi, May

LEMMA SubjectsAgree ==
    ASSUME NEW b, Still(b), NEW tree, NEW k \in 0..MaxDepth, NEW o, NEW rule,
           <<rule, o>> \in Question(req), rule.kind = "relation", ~Refers(o, rule),
           Subjects(o, rule.relation) \in Below(tree)[k]
    PROVE  Agrees(b, <<rule, o>>, Subjects(o, rule.relation), Grant(tree, k))
<1> DEFINE rows == stored \cup req.context
           x == <<rule, o>>
           children == {SubjectLeaf(t) : t \in Read(o, rule.relation)}
           node == Subjects(o, rule.relation)
           f == [rule |-> rule, entity |-> o]
           direct == DirectTuple(req, o, rule.relation)
<1>1. TooDeep \notin children /\ node # TooDeep
  BY DEF TooDeep, SubjectLeaf, Subjects, Node
<1>2. /\ Children(node) = children
      /\ \A G : NodeGrants(node, G) <=> \E c \in children : c \in G
  <2>1. node = Node("union", children)
    BY DEF Subjects
  <2> HIDE DEF node, children
  <2> QED BY <1>1, <2>1, BuiltNode
<1>3. node \in Grant(tree, k) <=> \E c \in children : c \in Grant(tree, k + 1)
  <2> HIDE DEF children
  <2> QED BY <1>2, NodeFacts
<1>4. ASSUME NEW t \in Read(o, rule.relation)
      PROVE  SubjectLeaf(t) \in Grant(tree, k + 1) <=>
                IF t.subjectRelation = "" THEN t.subject = req.subject
                                          ELSE Member(t) \in May(b)
  <2> DEFINE leaf == SubjectLeaf(t)
  <2>1. /\ leaf.type = "leaf" /\ leaf.subject = t.subject
        /\ leaf.subjectRelation = t.subjectRelation
    BY DEF SubjectLeaf
  <2>2. leaf \in Below(tree)[k + 1]
    <3>1. leaf \in children
      OBVIOUS
    <3> HIDE DEF leaf, children, node
    <3> QED BY <1>2, <3>1, NodeFacts DEF node
  <2>3. k + 1 \in 0..Height
    BY EvaluatorAssumption DEF EvaluatorAssumption, Height
  <2>4. leaf \in Grant(tree, k + 1) <=> NodeGrants(leaf, {})
    <3> HIDE DEF leaf
    <3> QED BY <2>1, <2>2, <2>3, LeafFacts
  <2>5. Member(leaf) = Member(t)
    BY <2>1 DEF Member
  <2> HIDE DEF leaf
  <2> QED BY <2>1, <2>4, <2>5, StillFacts DEF NodeGrants, leaf
<1>5. Read(o, rule.relation) = About(o, rule, rows)
  BY DEF Read, About
<1>6. /\ x \in May(b) <=> direct \in rows \/ \E t \in Usersets(About(o, rule, rows)) : Member(t) \in May(b)
      /\ x \in Must(b) <=> direct \in rows \/ \E t \in Usersets(About(o, rule, rows)) : Member(t) \in Must(b)
  <2>1. f.rule = rule /\ f.entity = o /\ Asks(f) = x
    BY DEF Asks
  <2>2. Sought(f, rows) = Usersets(About(o, rule, rows))
    BY <2>1 DEF Sought
  <2> HIDE DEF f, x
  <2>3. Asks(f) \in Question(b[1])
    BY <2>1, StillFacts DEF x
  <2>4. /\ f.rule.kind = "relation" /\ ~Refers(f.entity, f.rule)
        /\ b[1] = req /\ req.subjectRelation = "" /\ b \in Bounds
        /\ Lo(b) = rows /\ Hi(b) = rows
    BY <2>1, StillFacts DEF Still
  <2> HIDE DEF rows
  <2>5. /\ Asks(f) \in May(b) <=>
              \/ DirectTuple(b[1], f.entity, f.rule.relation) \in Hi(b)
              \/ b[1].subjectRelation = "" /\ \E t \in Sought(f, Hi(b)) : Member(t) \in May(b)
        /\ Asks(f) \in Must(b) <=>
              \/ DirectTuple(b[1], f.entity, f.rule.relation) \in Lo(b)
              \/ b[1].subjectRelation = "" /\ \E t \in Sought(f, Lo(b)) : Member(t) \in Must(b)
    BY <2>3, <2>4, Meanings
  <2> QED BY <2>1, <2>2, <2>4, <2>5
<1>7. ASSUME NEW t \in Read(o, rule.relation), t.subjectRelation = ""
      PROVE  t.subject = req.subject => t = direct
  BY <1>7 DEF Still, Read, DirectTuple
<1>8. direct \in rows => direct \in Read(o, rule.relation)
  BY DEF Read, DirectTuple
<1>9. direct.subjectRelation = "" /\ direct.subject = req.subject
  BY DEF Still, DirectTuple
<1>10. node \in Grant(tree, k) <=>
         \E t \in Read(o, rule.relation) : IF t.subjectRelation = "" THEN t.subject = req.subject
                                                                    ELSE Member(t) \in May(b)
  <2> HIDE DEF node
  <2> QED BY <1>3, <1>4
<1>11. ASSUME x \in May(b) PROVE node \in Grant(tree, k)
  <2> HIDE DEF node, x, direct
  <2> QED BY <1>5, <1>6, <1>8, <1>9, <1>10, <1>11 DEF Usersets
<1>12. ASSUME node \in Grant(tree, k) PROVE x \in Must(b)
  <2>1. PICK t \in Read(o, rule.relation) :
          IF t.subjectRelation = "" THEN t.subject = req.subject ELSE Member(t) \in May(b)
    <3> HIDE DEF node
    <3> QED BY <1>10, <1>12
  <2> HIDE DEF node, x, direct
  <2>2. CASE t.subjectRelation = ""
    BY <1>6, <1>7, <2>1, <2>2 DEF Read
  <2>3. CASE t.subjectRelation # ""
    BY <1>5, <1>6, <2>1, <2>3 DEF Usersets, Still
  <2> QED BY <2>2, <2>3
<1> QED BY <1>11, <1>12 DEF Agrees

LEMMA RuleLeafAgrees ==
    ASSUME NEW b, Still(b), NEW tree, NEW k \in 0..MaxDepth, NEW o, NEW rule,
           <<rule, o>> \in Question(req), rule.kind \in {"abac", "call", "parentCall"},
           RuleLeaf(o, rule) \in Below(tree)[k]
    PROVE  Agrees(b, <<rule, o>>, RuleLeaf(o, rule), Grant(tree, k))
<1> DEFINE x == <<rule, o>>
           node == RuleLeaf(o, rule)
           rows == Knowledge(req, stored, {})
<1>1. node.type = "rule" /\ node.entity = o /\ node.rule = rule
  BY DEF RuleLeaf
<1>2. k \in 0..Height
  BY EvaluatorAssumption DEF EvaluatorAssumption, Height
<1>3. node \in Grant(tree, k) <=> RuleGrants(o, rule)
  <2>1. node \in Grant(tree, k) <=> NodeGrants(node, {})
    <3> HIDE DEF node
    <3> QED BY <1>1, <1>2, LeafFacts DEF node
  <2> HIDE DEF node
  <2> QED BY <1>1, <2>1 DEF NodeGrants
<1>4. x[1] = rule /\ x[2] = o /\ ~Refers(o, rule)
  BY DEF Refers
<1> DEFINE may == Knowledge(req, stored, May(b))
           must == Knowledge(req, stored, Must(b))
<1>5. /\ x \in May(b) <=> Holds(req, x, may, must)
      /\ x \in Must(b) <=> Holds(req, x, must, may)
  <2>1. b \in Bounds /\ b[1] = req /\ b[2] = stored /\ b[3] = stored
    BY DEF Still
  <2>2. x \in Question(b[1])
    BY <2>1
  <2> HIDE DEF x
  <2>3. /\ x \in May(b) <=> Holds(b[1], x, Knowledge(b[1], b[3], May(b)), Knowledge(b[1], b[2], Must(b)))
        /\ x \in Must(b) <=> Holds(b[1], x, Knowledge(b[1], b[2], Must(b)), Knowledge(b[1], b[3], May(b)))
    BY <2>1, <2>2, Equations
  <2> QED BY <2>1, <2>3
<1>6. /\ may.tuples = rows.tuples /\ must.tuples = rows.tuples
  BY DEF Knowledge
<1> HIDE DEF x, may, must, rows
<1>7. /\ Holds(req, x, may, must) <=> Holds(req, x, rows, rows)
      /\ Holds(req, x, must, may) <=> Holds(req, x, rows, rows)
  <2>1. CASE rule.kind = "abac"
    BY <1>4, <2>1 DEF Holds
  <2>2. CASE rule.kind = "call"
    BY <1>4, <2>2 DEF Holds
  <2>3. CASE rule.kind = "parentCall"
    BY <1>4, <1>6, <2>3 DEF Holds
  <2> QED BY <2>1, <2>2, <2>3
<1>8. RuleGrants(o, rule) <=> Holds(req, x, rows, rows)
  BY DEF RuleGrants, x, rows
<1> QED BY <1>3, <1>5, <1>7, <1>8 DEF Agrees, x

-----------------------------------------------------------------------------
(***************************************************************************)
(* Every tree of a question agrees with it, by induction over the levels.   *)
(***************************************************************************)
TreesAgree(b, tree, n) ==
    \A x \in Question(req) : \A k \in 0..MaxDepth - n :
        Trees[n][x] \in Below(tree)[k] /\ Trees[n][x] # TooDeep =>
            Agrees(b, x, Trees[n][x], Grant(tree, k))

LEMMA OperandsAgree ==
    ASSUME NEW b, Still(b), NEW tree, NEW n \in 1..MaxDepth, TreesAgree(b, tree, n - 1),
           NEW x \in Question(req), NEW k \in 0..MaxDepth - n,
           x[1].kind \in {"or", "and", "not"},
           ExpandRule(x, Trees[n - 1]) \in Below(tree)[k],
           ExpandRule(x, Trees[n - 1]) # TooDeep
    PROVE  Agrees(b, x, ExpandRule(x, Trees[n - 1]), Grant(tree, k))
<1> DEFINE rule == x[1]
           o == x[2]
           f == [rule |-> rule, entity |-> o]
           type == NodeType(rule.kind)
           children == {Trees[n - 1][y] : y \in Operands(x)}
           node == Node(type, children)
           G == Grant(tree, k + 1)
<1>1. ExpandRule(x, Trees[n - 1]) = node /\ type \in {"union", "intersection", "exclusion"}
  BY DEF ExpandRule, Refers, NodeType
<1>2. /\ TooDeep \notin children /\ Children(node) = children
      /\ \A F : NodeGrants(node, F) <=>
            CASE type = "union" -> \E c \in children : c \in F
              [] type = "intersection" -> \A c \in children : c \in F
              [] type = "exclusion" -> \A c \in children : c \notin F
  <2> HIDE DEF type, children
  <2> QED BY <1>1, BuiltNode
<1>3. /\ k \in 0..MaxDepth /\ k + 1 \in 0..MaxDepth - (n - 1)
  BY EvaluatorAssumption DEF EvaluatorAssumption
<1>4. /\ children \subseteq Below(tree)[k + 1]
      /\ node \in Grant(tree, k) <=> NodeGrants(node, G)
  <2> HIDE DEF node, children
  <2> QED BY <1>1, <1>2, <1>3, NodeFacts
<1>5. ASSUME NEW y \in Operands(x)
      PROVE  Agrees(b, y, Trees[n - 1][y], G)
  <2>1. y \in Question(req)
    BY StillFacts, QuestionFacts
  <2>2. Trees[n - 1][y] \in children
    OBVIOUS
  <2> HIDE DEF children, G
  <2> QED BY <1>2, <1>3, <1>4, <2>1, <2>2 DEF TreesAgree, G
<1>6. x = <<rule, o>> /\ Asks(f) = x /\ f.rule = rule /\ f.entity = o
  BY StillFacts, QuestionFacts DEF Asks
<1> DEFINE left == <<rule.left, o>>
           right == <<rule.right, o>>
<1>7. /\ rule.kind = "or" =>
            /\ x \in May(b) <=> left \in May(b) \/ right \in May(b)
            /\ x \in Must(b) <=> left \in Must(b) \/ right \in Must(b)
      /\ rule.kind = "and" =>
            /\ x \in May(b) <=> left \in May(b) /\ right \in May(b)
            /\ x \in Must(b) <=> left \in Must(b) /\ right \in Must(b)
      /\ rule.kind = "not" =>
            /\ x \in May(b) <=> left \notin Must(b)
            /\ x \in Must(b) <=> left \notin May(b)
  <2> HIDE DEF f
  <2>1. Asks(f) \in Question(b[1]) /\ b \in Bounds
    BY <1>6, StillFacts
  <2> HIDE DEF rule, o
  <2> QED BY <1>6, <2>1, Meanings
<1>8. node \in Grant(tree, k) <=>
        CASE type = "union" -> \E y \in Operands(x) : Trees[n - 1][y] \in G
          [] type = "intersection" -> \A y \in Operands(x) : Trees[n - 1][y] \in G
          [] type = "exclusion" -> \A y \in Operands(x) : Trees[n - 1][y] \notin G
  <2> HIDE DEF node, G
  <2>1. NodeGrants(node, G) <=>
          CASE type = "union" -> \E c \in children : c \in G
            [] type = "intersection" -> \A c \in children : c \in G
            [] type = "exclusion" -> \A c \in children : c \notin G
    <3> HIDE DEF type, children
    <3> QED BY <1>2
  <2> HIDE DEF type
  <2>2. CASE type = "union"
    BY <1>4, <2>1, <2>2
  <2>3. CASE type = "intersection"
    BY <1>4, <2>1, <2>3
  <2>4. CASE type = "exclusion"
    BY <1>4, <2>1, <2>4
  <2> QED BY <1>1, <2>2, <2>3, <2>4
<1>9. /\ rule.kind \in {"or", "and"} => Operands(x) = {left, right}
      /\ rule.kind = "not" => Operands(x) = {left}
  BY DEF Operands
<1>10. /\ rule.kind = "or" => type = "union"
       /\ rule.kind = "and" => type = "intersection"
       /\ rule.kind = "not" => type = "exclusion"
  BY DEF NodeType
<1> HIDE DEF node, type, G, left, right, rule
<1>11. CASE rule.kind = "or"
  BY <1>1, <1>5, <1>7, <1>8, <1>9, <1>10, <1>11 DEF Agrees
<1>12. CASE rule.kind = "and"
  BY <1>1, <1>5, <1>7, <1>8, <1>9, <1>10, <1>12 DEF Agrees
<1>13. CASE rule.kind = "not"
  BY <1>1, <1>5, <1>7, <1>8, <1>9, <1>10, <1>13 DEF Agrees
<1> QED BY <1>11, <1>12, <1>13 DEF rule

LEMMA ParentsAgree ==
    ASSUME NEW b, Still(b), NEW tree, NEW n \in 1..MaxDepth, TreesAgree(b, tree, n - 1),
           NEW x \in Question(req), NEW k \in 0..MaxDepth - n, x[1].kind = "hierarchical",
           ExpandRule(x, Trees[n - 1]) \in Below(tree)[k],
           ExpandRule(x, Trees[n - 1]) # TooDeep
    PROVE  Agrees(b, x, ExpandRule(x, Trees[n - 1]), Grant(tree, k))
<1> DEFINE rule == x[1]
           o == x[2]
           f == [rule |-> rule, entity |-> o]
           parents == Parents(Read(o, rule.relation))
           permitted == {t \in parents : Permits(t.subject, rule.permission)}
           related == {t \in parents \ permitted : Has(t.subject, rule.permission)}
           children == {Trees[n - 1][Parent(t, rule)] : t \in permitted}
                       \cup {Subjects(t.subject, rule.permission) : t \in related}
           node == Node("union", children)
           G == Grant(tree, k + 1)
           Child(t) == IF t \in permitted THEN Trees[n - 1][Parent(t, rule)]
                                          ELSE Subjects(t.subject, rule.permission)
<1>1. ExpandRule(x, Trees[n - 1]) = node
  BY DEF ExpandRule, Refers
<1>2. /\ TooDeep \notin children /\ Children(node) = children
      /\ \A F : NodeGrants(node, F) <=> \E c \in children : c \in F
  <2> HIDE DEF children
  <2> QED BY <1>1, BuiltNode
<1>3. /\ k \in 0..MaxDepth /\ k + 1 \in 0..MaxDepth - (n - 1) /\ k + 1 \in 0..MaxDepth
  BY EvaluatorAssumption DEF EvaluatorAssumption
<1>4. /\ children \subseteq Below(tree)[k + 1]
      /\ node \in Grant(tree, k) <=> NodeGrants(node, G)
  <2> HIDE DEF node, children
  <2> QED BY <1>1, <1>2, <1>3, NodeFacts
<1>5. children = {Child(t) : t \in permitted \cup related}
  BY DEF Child
<1>6. permitted \cup related = {t \in parents : rule.permission \in Names(t.subject)}
  BY DEF Names, Permits, Has
<1>7. x = <<rule, o>> /\ Asks(f) = x /\ f.rule = rule /\ f.entity = o
  BY StillFacts, QuestionFacts DEF Asks
<1>8. parents = Sought(f, stored \cup req.context)
  BY <1>7 DEF Sought, Read, About
<1>9. ASSUME NEW t \in permitted \cup related
      PROVE  Parent(t, rule) \in Question(req)
  <2>1. stored \cup req.context \subseteq Tuple \cup req.context
    BY BoundFacts DEF Still
  <2>2. Parent(t, rule) \in OwnCalls(x, Tuple \cup req.context)
    <3>1. t \in Parents(About(o, rule, Tuple \cup req.context))
      BY <2>1 DEF Parents, Read, About
    <3>2. rule.permission \in Names(t.subject)
      BY <1>6
    <3> QED BY <3>1, <3>2 DEF OwnCalls, Refers
  <2> QED BY <2>2, StillFacts, QuestionFacts
<1>10. ASSUME NEW t \in permitted \cup related
       PROVE  Agrees(b, Parent(t, rule), Child(t), G)
  <2>1. Child(t) \in Below(tree)[k + 1] /\ Child(t) # TooDeep
    <3> HIDE DEF children, permitted, related, Child
    <3> QED BY <1>2, <1>4, <1>5
  <2>2. CASE t \in permitted
    <3>1. Child(t) = Trees[n - 1][Parent(t, rule)]
      BY <2>2
    <3> HIDE DEF Child, permitted, related
    <3> QED BY <1>3, <1>9, <2>1, <3>1 DEF TreesAgree
  <2>3. CASE t \notin permitted
    <3> DEFINE p == t.subject
               own == Relation(rule.permission)
    <3>1. /\ Has(p, rule.permission) /\ ~Permits(p, rule.permission)
          /\ Child(t) = Subjects(p, rule.permission)
      BY <2>3
    <3>2. /\ own.kind = "relation" /\ own.relation = rule.permission
          /\ ~Refers(p, own) /\ Parent(t, rule) = <<own, p>>
      BY <3>1 DEF Relation, Refers, Parent, Asked, RuleNamed, Permits
    <3> HIDE DEF Child, permitted, related, own, p
    <3> QED BY <1>3, <1>9, <2>1, <3>1, <3>2, SubjectsAgree
  <2> QED BY <2>2, <2>3
<1>11. node \in Grant(tree, k) <=>
         \E t \in parents : rule.permission \in Names(t.subject) /\ Child(t) \in G
  <2> HIDE DEF node, children, permitted, related, parents, G, Child
  <2> QED BY <1>2, <1>4, <1>5, <1>6
<1>12. /\ x \in May(b) <=> \E t \in parents : /\ rule.permission \in Names(t.subject)
                                              /\ Parent(t, rule) \in May(b)
       /\ x \in Must(b) <=> \E t \in parents : /\ rule.permission \in Names(t.subject)
                                               /\ Parent(t, rule) \in Must(b)
  <2>1. /\ Asks(f) \in Question(b[1]) /\ b \in Bounds /\ f.rule.kind = "hierarchical"
        /\ Lo(b) = stored \cup req.context /\ Hi(b) = stored \cup req.context
    BY <1>7, StillFacts
  <2> HIDE DEF f, parents, rule
  <2>2. /\ Asks(f) \in May(b) <=>
              \E t \in Sought(f, Hi(b)) : /\ f.rule.permission \in Names(t.subject)
                                          /\ Parent(t, f.rule) \in May(b)
        /\ Asks(f) \in Must(b) <=>
              \E t \in Sought(f, Lo(b)) : /\ f.rule.permission \in Names(t.subject)
                                          /\ Parent(t, f.rule) \in Must(b)
    BY <2>1, Meanings
  <2> QED BY <1>7, <1>8, <2>1, <2>2
<1> HIDE DEF node, children, permitted, related, parents, G, Child, rule
<1> QED BY <1>1, <1>6, <1>10, <1>11, <1>12 DEF Agrees

LEMMA RuleAgrees ==
    ASSUME NEW b, Still(b), NEW tree, NEW n \in 1..MaxDepth, TreesAgree(b, tree, n - 1),
           NEW x \in Question(req), NEW k \in 0..MaxDepth - n,
           ExpandRule(x, Trees[n - 1]) \in Below(tree)[k],
           ExpandRule(x, Trees[n - 1]) # TooDeep
    PROVE  Agrees(b, x, ExpandRule(x, Trees[n - 1]), Grant(tree, k))
<1> DEFINE rule == x[1]
           o == x[2]
           f == [rule |-> rule, entity |-> o]
<1>1. /\ x = <<rule, o>> /\ rule.kind \in Kinds
      /\ OwnCalls(x, Tuple \cup req.context) \subseteq Question(req)
  BY StillFacts, QuestionFacts
<1>2. k \in 0..MaxDepth /\ k \in 0..MaxDepth - (n - 1)
  BY EvaluatorAssumption DEF EvaluatorAssumption
<1>3. CASE Refers(o, rule)
  <2> DEFINE y == Referred(o, rule)
  <2>1. ExpandRule(x, Trees[n - 1]) = Trees[n - 1][y]
    BY <1>3 DEF ExpandRule, Refers
  <2>2. y \in Question(req)
    <3>1. OwnCalls(x, Tuple \cup req.context) = {y}
      BY <1>3 DEF OwnCalls, Refers
    <3> QED BY <1>1, <3>1
  <2>3. Agrees(b, y, Trees[n - 1][y], Grant(tree, k))
    <3> HIDE DEF y
    <3> QED BY <1>2, <2>1, <2>2 DEF TreesAgree
  <2>4. /\ x \in May(b) <=> y \in May(b)
        /\ x \in Must(b) <=> y \in Must(b)
    <3>1. Asks(f) = x /\ f.rule = rule /\ f.entity = o
      BY <1>1 DEF Asks
    <3> HIDE DEF f, rule, o
    <3>2. Asks(f) \in Question(b[1]) /\ b \in Bounds
      BY <3>1, StillFacts
    <3> QED BY <1>3, <3>1, <3>2, Meanings
  <2> QED BY <2>1, <2>3, <2>4 DEF Agrees
<1>4. CASE rule.kind = "relation" /\ ~Refers(o, rule)
  <2>1. ExpandRule(x, Trees[n - 1]) = Subjects(o, rule.relation)
    BY <1>4 DEF ExpandRule
  <2> HIDE DEF rule, o
  <2> QED BY <1>1, <1>2, <1>4, <2>1, SubjectsAgree
<1>5. CASE rule.kind \in {"abac", "call", "parentCall"}
  <2>1. ExpandRule(x, Trees[n - 1]) = RuleLeaf(o, rule)
    BY <1>5 DEF ExpandRule, Refers
  <2> HIDE DEF rule, o
  <2> QED BY <1>1, <1>2, <1>5, <2>1, RuleLeafAgrees
<1>6. CASE rule.kind \in {"or", "and", "not"}
  BY <1>6, OperandsAgree
<1>7. CASE rule.kind = "hierarchical"
  BY <1>7, ParentsAgree
<1> QED BY <1>1, <1>3, <1>4, <1>5, <1>6, <1>7 DEF Kinds

LEMMA AllTreesAgree ==
    ASSUME NEW b, Still(b), NEW tree, NEW n \in 0..MaxDepth
    PROVE  TreesAgree(b, tree, n)
<1> DEFINE Bad == {m \in 0..MaxDepth : ~TreesAgree(b, tree, m)}
<1> SUFFICES ASSUME Bad # {} PROVE FALSE
  OBVIOUS
<1>1. PICK m \in Bad : \A o \in Bad : ~ (<<o, m>> \in OpToRel(<, Nat))
  <2>1. Bad \subseteq Nat
    OBVIOUS
  <2> HIDE DEF Bad
  <2> QED BY <2>1, NatLessThanWellFounded, WFMin
<1>2. CASE m = 0
  <2>1. ASSUME NEW x \in Question(req) PROVE Trees[0][x] = TooDeep
    BY TreeLevels
  <2> QED BY <1>1, <1>2, <2>1 DEF TreesAgree
<1>3. CASE m # 0
  <2>1. m \in 1..MaxDepth /\ m - 1 \in 0..MaxDepth /\ m - 1 \in Nat /\ m - 1 < m
    BY <1>3, EvaluatorAssumption DEF EvaluatorAssumption
  <2>2. TreesAgree(b, tree, m - 1)
    <3>1. <<m - 1, m>> \in OpToRel(<, Nat)
      BY <2>1 DEF OpToRel
    <3> QED BY <1>1, <2>1, <3>1
  <2>3. ASSUME NEW x \in Question(req) PROVE Trees[m][x] = ExpandRule(x, Trees[m - 1])
    BY <2>1, TreeLevels
  <2>4. TreesAgree(b, tree, m)
    <3> SUFFICES ASSUME NEW x \in Question(req), NEW k \in 0..MaxDepth - m,
                        Trees[m][x] \in Below(tree)[k], Trees[m][x] # TooDeep
                 PROVE  Agrees(b, x, Trees[m][x], Grant(tree, k))
      BY DEF TreesAgree
    <3> QED BY <2>1, <2>2, <2>3, RuleAgrees
  <2> QED BY <1>1, <2>4
<1> QED BY <1>2, <1>3

LEMMA Root ==
    MaxDepth \in 0..MaxDepth /\ 0 \in 0..MaxDepth - MaxDepth /\ Height - 0 = Height
BY EvaluatorAssumption DEF EvaluatorAssumption, Height

-----------------------------------------------------------------------------
\* While nothing has been written the bounds are what is stored.
LEMMA NothingWritten ==
    ASSUME EvaluatorInv, ever = always, req.subjectRelation = ""
    PROVE  Still(<<req, stored, stored>>) /\ stored = always
<1> DEFINE b == <<req, stored, stored>>
<1>1. stored = always /\ stored = ever
  BY RequestFacts DEF EvaluatorInv
<1>2. b \in Bounds
  BY <1>1, EndsWithin
<1>3. PICK s, V : Origin(s, V)
  BY DEF EvaluatorInv, Begun
<1>4. stored = s.stored /\ req = s.req /\ s \in Scenario
  BY <1>1, <1>3 DEF Origin
<1>5. May(b) \subseteq Must(b)
  BY <1>4, ExpanderAssumption DEF ExpanderAssumption, May, Must
<1>6. stored \subseteq Tuple
  BY <1>2, BoundFacts
<1>7. \A t \in stored \cup req.context :
         t = [entity |-> t.entity, relation |-> t.relation, subject |-> t.subject,
              subjectRelation |-> t.subjectRelation]
  BY <1>4, <1>6, ExpanderAssumption DEF ExpanderAssumption
<1> QED BY <1>1, <1>2, <1>5, <1>7 DEF Still

\* For all schemas, requests and tuples: a tree that Expand can build within
\* MaxDepth levels grants what a check answers in the same state (expandRule in
\* expander.go and EvaluateRule in evaluator.go).
THEOREM TreesExplainChecks == Spec => []ExpandAgrees
<1>1. EvaluatorInv /\ AnswerBounded => ExpandAgrees
  <2> SUFFICES ASSUME EvaluatorInv, AnswerBounded, Done, ever = always, ~shortcut, Whole(ever),
                      req.subjectRelation = "", result \in {"true", "false"}, Expand # TooDeep
               PROVE  TreeGrants(Expand) <=> result = "true"
    BY DEF ExpandAgrees
  <2> DEFINE b == <<req, stored, stored>>
             tree == Expand
  <2>1. Still(b) /\ stored = always /\ stored = ever
    BY NothingWritten
  <2>2. /\ result = "true" => Goal(req) \in May(b)
        /\ result = "false" => Goal(req) \notin Must(b)
    BY <2>1 DEF AnswerBounded, May, Must
  <2> HIDE DEF b
  <2>3. MaxDepth \in 0..MaxDepth /\ 0 \in 0..MaxDepth - MaxDepth /\ Height - 0 = Height
    BY Root
  <2>4. Goal(req) \in Question(req)
    BY <2>1, StillFacts, QuestionAssumption DEF QuestionAssumption
  <2>5. tree = Trees[MaxDepth][Goal(req)] /\ tree \in Below(tree)[0]
    BY BelowLevels DEF Expand
  <2> HIDE DEF tree
  <2>6. Agrees(b, Goal(req), tree, Grant(tree, 0))
    <3>1. TreesAgree(b, tree, MaxDepth)
      BY <2>1, <2>3, AllTreesAgree
    <3> QED BY <2>3, <2>4, <2>5, <3>1 DEF TreesAgree, tree
  <2>7. TreeGrants(tree) <=> tree \in Grant(tree, 0)
    BY <2>3 DEF TreeGrants, Grant
  <2> QED BY <2>2, <2>6, <2>7 DEF Agrees, tree
<1> QED BY <1>1, EvaluatorInvariant, BoundedAnswers, PTL
===============================================================================
