------------------------ MODULE ClosureConcurrentProofs ------------------------
(***************************************************************************)
(* What overlapping transactions leave in the closure table, for every      *)
(* number of them and every set of nodes: a row for every committed         *)
(* relation (DirectRows) and, as long as no delete commits, none that no    *)
(* path of relations accounts for (NoExtraRows).                            *)
(***************************************************************************)
EXTENDS ClosureConcurrent, FiniteSetTheorems, TLAPS

Committed(kind, d) == \E x \in Tx : At(x, "done") /\ tx[x].kind = kind /\ tx[x].edge = d

\* A relation that one transaction wrote and another deleted may lose its row.
Contested(d) == Committed("write", d) /\ Committed("delete", d)

\* The rows a transaction has locked.
Locked(r) == r.ins \cup r.wiped

Adding == {"add", "adding"}

\* What a transaction holds where, whatever the tables contain.
Shape(r) ==
    /\ r.pc = "new" => r.kind = "none" /\ r.todo = {} /\ r.rels = {}
    /\ r.kind = "none" => r.pc \in {"new", "done"}
    /\ r.pc \in {"new", "done"} => Locked(r) = {} /\ r.relation = "same"
    /\ r.kind \in {"write", "delete"} => r.edge \in Link
    /\ r.relation = "added" => r.kind = "write"
    /\ r.relation = "removed" => r.kind = "delete"
    /\ r.pc \in {"relation", "select"} => Locked(r) = {} /\ r.kind \in {"write", "delete"}
    /\ r.pc = "relation" => r.relation = "same"
    /\ r.pc \in {"wipe", "wiping"} => r.ins = {}
    /\ r.pc \notin Adding => r.adding = {} /\ r.step = 1
    /\ r.pc = "adding" => r.current \in r.adding
    /\ r.pc = "adding" /\ r.step = 1 => r.plan = {r.current}
    /\ r.step # 1 => r.current \in r.adding \cap r.ins

ShapeOfWrite(r) ==
    r.kind = "write" =>
        /\ r.pc \in {"relation", "add", "adding", "commit", "done"}
        /\ r.wiped = {}
        /\ r.adding \subseteq {r.edge}
        /\ r.pc \in Adding \cup {"commit"} => r.edge \in r.adding \cup r.ins

ShapeOfRebuild(r) ==
    r.kind = "rebuild" =>
        /\ r.pc \notin {"relation", "select"}
        /\ r.adding \subseteq r.rels
        /\ r.pc \in Adding \cup {"commit"} => r.rels \subseteq r.adding \cup r.ins

ShapeOfDelete(r) ==
    r.kind = "delete" =>
        /\ r.pc # "count"
        /\ r.todo \subseteq r.affected
        /\ \A p \in r.wiped : p[1] \in r.affected
        /\ r.pc = "wiping" => \A p \in r.plan : p[1] \in r.affected
        /\ r.pc = "commit" => r.todo = {}

\* A transaction will insert again the rows of stored relations it deleted, and
\* a delete that found no row leaves one only to a write that has committed since.
Restores(r) ==
    /\ r.kind = "rebuild" /\ r.pc \in Adding \cup {"count", "commit"} =>
          r.wiped \cap relations \subseteq r.rels
    /\ r.kind = "delete" /\ r.pc \in Adding \cup {"read", "commit"} =>
          \A d \in r.wiped \cap relations :
              d = r.edge \/ d[1] \in r.todo \/ d \in r.adding \cup r.ins
    /\ r.kind = "delete" /\ r.pc \notin {"relation", "done"} /\ r.relation = "same"
          /\ r.edge \in relations => Committed("write", r.edge)

Sound(r) == Shape(r) /\ ShapeOfWrite(r) /\ ShapeOfRebuild(r) /\ ShapeOfDelete(r) /\ Restores(r)

RowsInv ==
    /\ TypeOK
    /\ \A x, y \in Tx : x # y => Locked(tx[x]) \cap Locked(tx[y]) = {}
    /\ \A x \in Tx : Sound(tx[x])
    /\ \A d \in relations : d \in closure \/ Contested(d)

-----------------------------------------------------------------------------
\* No delete has committed.
NoDelete == \A x \in Tx : At(x, "done") => tx[x].kind # "delete"

\* P is transitive and contains the edges E.
Closed(P, E) == P \in SUBSET Pairs /\ E \subseteq P /\ IsTransitiveSet(P)

Own(r) == IF r.kind = "write" THEN {r.edge} ELSE {}

\* Paths of the relations and of its own one account for what a write or a
\* rebuild inserts.
Accounted(r) ==
    r.kind \in {"write", "rebuild"} /\ r.pc # "done" =>
        /\ r.rels \subseteq relations
        /\ r.pc \in Adding \cup {"commit"} /\ r.kind = "write" /\ r.relation = "same" =>
              r.edge \in relations
        /\ \A P : Closed(P, relations \cup Own(r)) =>
              r.ins \subseteq P /\ (r.pc = "adding" => r.plan \subseteq P)

PathsInv ==
    /\ RowsInv
    /\ NoDelete => /\ \A P : Closed(P, relations) => closure \subseteq P
                   /\ \A x \in Tx : Accounted(tx[x])

-----------------------------------------------------------------------------
\* The fields of a transaction, and its record in tx.
LEMMA Fields ==
    ASSUME NEW r \in Transaction
    PROVE  /\ r.ins \subseteq Pairs /\ r.wiped \subseteq Pairs /\ r.plan \subseteq Pairs
           /\ r.affected \subseteq Node /\ r.todo \subseteq Node
           /\ r.rels \subseteq Link /\ r.adding \subseteq Link
           /\ r.edge \in Link \cup {NoEdge} /\ r.current \in Link \cup {NoEdge}
           /\ r.step \in 1..4
BY DEF Transaction

\* What a statement sees are pairs of nodes and relations.
LEMMA SeenType ==
    ASSUME TypeOK, NEW x \in Tx
    PROVE  /\ RowsSeen(x) \subseteq Pairs
           /\ tx[x].relation # "added" \/ tx[x].edge \in Link => RelationsSeen(x) \subseteq Link
<1>1. tx[x] \in Transaction
  BY DEF TypeOK
<1> QED BY <1>1, Fields DEF TypeOK, RowsSeen, RelationsSeen

\* A transaction moves on: it takes only free locks and stays sound.
LEMMA MoveKeeps ==
    ASSUME RowsInv, NEW x \in Tx, NEW r \in Transaction, tx' = [tx EXCEPT ![x] = r],
           Unchanged, ~At(x, "done"), Sound(r),
           \A y \in Tx \ {x} : Locked(r) \cap Locked(tx[y]) = {}
    PROVE  RowsInv'
<1>1. /\ tx'[x] = r /\ \A y \in Tx : y # x => tx'[y] = tx[y]
      /\ relations' = relations /\ closure' = closure
  BY DEF RowsInv, TypeOK, Unchanged
<1>2. TypeOK'
  BY <1>1 DEF RowsInv, TypeOK
<1>3. (\A y, z \in Tx : y # z => Locked(tx[y]) \cap Locked(tx[z]) = {})'
  BY <1>1 DEF RowsInv, Locked
<1>4. \A kind, d : Committed(kind, d) => Committed(kind, d)'
  BY <1>1 DEF Committed, At
<1>5. \A y \in Tx : Sound(tx'[y])
  BY <1>1 DEF RowsInv
<1>6. (\A y \in Tx : Sound(tx[y]))'
  BY <1>1, <1>4, <1>5 DEF Sound, Restores, Shape, ShapeOfWrite, ShapeOfRebuild, ShapeOfDelete
<1>7. (\A d \in relations : d \in closure \/ Contested(d))'
  BY <1>1, <1>4 DEF RowsInv, Contested
<1> QED BY <1>2, <1>3, <1>6, <1>7 DEF RowsInv

\* What the invariant says of one transaction.
LEMMA Current ==
    ASSUME RowsInv, NEW x \in Tx
    PROVE  /\ tx[x] \in Transaction /\ Sound(tx[x])
           /\ \A y \in Tx \ {x} : Locked(tx[x]) \cap Locked(tx[y]) = {}
           /\ relations \subseteq Link /\ closure \subseteq Pairs
BY DEF RowsInv, TypeOK

-----------------------------------------------------------------------------
LEMMA StartRows ==
    ASSUME RowsInv, NEW x \in Tx, Start(x)
    PROVE  RowsInv'
<1> DEFINE q == tx[x]
<1>1. q \in Transaction /\ Sound(q) /\ q.pc = "new" /\ Unchanged
  BY Current DEF Start, At
<1>2. Locked(q) = {} /\ q.adding = {} /\ q.step = 1 /\ q.relation = "same"
      /\ q.kind = "none" /\ q.todo = {}
  BY <1>1 DEF Sound, Shape, Adding
<1>3. ASSUME NEW k \in {"write", "delete"}, NEW d \in Link,
             tx' = [tx EXCEPT ![x].kind = k, ![x].edge = d, ![x].pc = "relation"]
      PROVE  RowsInv'
  <2> DEFINE r == [q EXCEPT !.kind = k, !.edge = d, !.pc = "relation"]
  <2>1. tx' = [tx EXCEPT ![x] = r]
    BY <1>3
  <2>2. /\ r \in Transaction /\ r.kind = k /\ r.edge = d /\ r.pc = "relation"
        /\ r.ins = q.ins /\ r.wiped = q.wiped /\ r.adding = q.adding /\ r.step = q.step
        /\ r.relation = q.relation /\ r.todo = q.todo /\ r.affected = q.affected
    BY <1>1, <1>3 DEF Transaction
  <2> HIDE DEF r
  <2>3. Locked(r) = {}
    BY <1>2, <2>2 DEF Locked
  <2>4. Sound(r)
    BY <1>1, <1>2, <2>2, <2>3
       DEF Sound, Shape, ShapeOfWrite, ShapeOfRebuild, ShapeOfDelete, Restores, Locked, Adding
  <2> QED BY <1>1, <2>1, <2>2, <2>3, <2>4, MoveKeeps DEF At
<1>4. ASSUME tx' = [tx EXCEPT ![x].kind = "rebuild", ![x].pc = "wipe"] PROVE RowsInv'
  <2> DEFINE r == [q EXCEPT !.kind = "rebuild", !.pc = "wipe"]
  <2>1. tx' = [tx EXCEPT ![x] = r]
    BY <1>4
  <2>2. /\ r \in Transaction /\ r.kind = "rebuild" /\ r.pc = "wipe"
        /\ r.ins = q.ins /\ r.wiped = q.wiped /\ r.adding = q.adding /\ r.step = q.step
        /\ r.relation = q.relation /\ r.rels = q.rels
    BY <1>1 DEF Transaction
  <2> HIDE DEF r
  <2>3. Locked(r) = {}
    BY <1>2, <2>2 DEF Locked
  <2>4. Sound(r)
    BY <1>1, <1>2, <2>2, <2>3
       DEF Sound, Shape, ShapeOfWrite, ShapeOfRebuild, ShapeOfDelete, Restores, Locked, Adding
  <2> QED BY <1>1, <2>1, <2>2, <2>3, <2>4, MoveKeeps DEF At
<1>5. \A d \in WriteSet[x] \cup DeleteSet[x] : d \in Link
  BY TransactionAssumption
<1> QED BY <1>3, <1>4, <1>5 DEF Start

LEMMA InsertRelationRows ==
    ASSUME RowsInv, NEW x \in Tx, InsertRelation(x)
    PROVE  RowsInv'
<1> DEFINE q == tx[x]
           w == IF q.edge \in relations THEN "same" ELSE "added"
           r == [q EXCEPT !.relation = w, !.adding = {q.edge}, !.pc = "add"]
<1>1. q \in Transaction /\ Sound(q) /\ q.pc = "relation" /\ q.kind = "write" /\ Unchanged
  BY Current DEF InsertRelation, At
<1>2. Locked(q) = {} /\ q.step = 1 /\ q.edge \in Link
  BY <1>1 DEF Sound, Shape, Adding
<1>3. tx' = [tx EXCEPT ![x] = r]
  BY DEF InsertRelation
<1>4. /\ r \in Transaction /\ r.kind = "write" /\ r.edge = q.edge /\ r.pc = "add"
      /\ r.ins = q.ins /\ r.wiped = q.wiped /\ r.adding = {q.edge} /\ r.step = q.step
      /\ r.relation = w
  BY <1>1, <1>2 DEF Transaction
<1> HIDE DEF r
<1>5. Locked(r) = {}
  BY <1>2, <1>4 DEF Locked
<1>6. Sound(r)
  BY <1>1, <1>2, <1>4, <1>5
     DEF Sound, Shape, ShapeOfWrite, ShapeOfRebuild, ShapeOfDelete, Restores, Locked, Adding
<1> QED BY <1>1, <1>3, <1>4, <1>5, <1>6, MoveKeeps DEF At

LEMMA DeleteRelationRows ==
    ASSUME RowsInv, NEW x \in Tx, DeleteRelation(x)
    PROVE  RowsInv'
<1> DEFINE q == tx[x]
           w == IF q.edge \in relations THEN "removed" ELSE "same"
           r == [q EXCEPT !.relation = w, !.pc = "select"]
<1>1. q \in Transaction /\ Sound(q) /\ q.pc = "relation" /\ q.kind = "delete" /\ Unchanged
  BY Current DEF DeleteRelation, At
<1>2. Locked(q) = {} /\ q.step = 1 /\ q.edge \in Link /\ q.adding = {}
  BY <1>1 DEF Sound, Shape, Adding
<1>3. tx' = [tx EXCEPT ![x] = r]
  BY DEF DeleteRelation
<1>4. /\ r \in Transaction /\ r.kind = "delete" /\ r.edge = q.edge /\ r.pc = "select"
      /\ r.ins = q.ins /\ r.wiped = q.wiped /\ r.adding = {} /\ r.step = q.step
      /\ r.relation = w /\ r.todo = q.todo /\ r.affected = q.affected
  BY <1>1, <1>2 DEF Transaction
<1> HIDE DEF r
<1>5. Locked(r) = {}
  BY <1>2, <1>4 DEF Locked
<1>6. Sound(r)
  BY <1>1, <1>2, <1>4, <1>5
     DEF Sound, Shape, ShapeOfWrite, ShapeOfRebuild, ShapeOfDelete, Restores, Locked, Adding
<1> QED BY <1>1, <1>3, <1>4, <1>5, <1>6, MoveKeeps DEF At

LEMMA SelectAffectedRows ==
    ASSUME RowsInv, NEW x \in Tx, SelectAffected(x)
    PROVE  RowsInv'
<1> DEFINE q == tx[x]
           A == {q.edge[1]} \cup Below(RowsSeen(x), q.edge[1])
           r == [q EXCEPT !.affected = A, !.todo = A, !.pc = "wipe"]
<1>1. q \in Transaction /\ Sound(q) /\ q.pc = "select" /\ Unchanged
  BY Current DEF SelectAffected, At
<1>2. Locked(q) = {} /\ q.step = 1 /\ q.kind \in {"write", "delete"} /\ q.edge \in Link
      /\ q.adding = {}
  BY <1>1 DEF Sound, Shape, Adding
<1>3. q.kind = "delete"
  BY <1>1, <1>2 DEF Sound, ShapeOfWrite
<1>4. A \subseteq Node
  <2>1. q.edge[1] \in Node
    BY <1>2, TransactionAssumption
  <2>2. RowsSeen(x) \subseteq Pairs
    BY SeenType DEF RowsInv
  <2> QED BY <2>1, <2>2 DEF Below, Pairs
<1>5. tx' = [tx EXCEPT ![x] = r]
  BY DEF SelectAffected
<1> HIDE DEF A
<1>6. /\ r \in Transaction /\ r.kind = "delete" /\ r.edge = q.edge /\ r.pc = "wipe"
      /\ r.ins = q.ins /\ r.wiped = q.wiped /\ r.adding = {} /\ r.step = q.step
      /\ r.relation = q.relation /\ r.todo = A /\ r.affected = A
  BY <1>1, <1>2, <1>3, <1>4 DEF Transaction
<1> HIDE DEF r
<1>7. Locked(r) = {}
  BY <1>2, <1>6 DEF Locked
<1>8. Sound(r)
  BY <1>1, <1>2, <1>3, <1>6, <1>7
     DEF Sound, Shape, ShapeOfWrite, ShapeOfRebuild, ShapeOfDelete, Restores, Locked, Adding
<1> QED BY <1>1, <1>5, <1>6, <1>7, <1>8, MoveKeeps DEF At

LEMMA PlanWipeRows ==
    ASSUME RowsInv, NEW x \in Tx, PlanWipe(x)
    PROVE  RowsInv'
<1> DEFINE q == tx[x]
<1>1. q \in Transaction /\ Sound(q) /\ q.pc = "wipe" /\ Unchanged
  BY Current DEF PlanWipe, At
<1>2. q.ins = {} /\ q.step = 1 /\ q.adding = {} /\ (q.kind = "delete" => q.edge \in Link)
  BY <1>1 DEF Sound, Shape, Adding
<1>3. RowsSeen(x) \subseteq Pairs
  BY SeenType DEF RowsInv
<1>4. CASE q.kind = "rebuild"
  <2> DEFINE r == [q EXCEPT !.plan = RowsSeen(x), !.pc = "wiping"]
  <2>1. tx' = [tx EXCEPT ![x] = r]
    BY <1>4 DEF PlanWipe
  <2>2. /\ r \in Transaction /\ r.kind = "rebuild" /\ r.edge = q.edge /\ r.pc = "wiping"
        /\ r.ins = q.ins /\ r.wiped = q.wiped /\ r.adding = {} /\ r.step = q.step
        /\ r.relation = q.relation /\ r.rels = q.rels
    BY <1>1, <1>2, <1>3, <1>4 DEF Transaction
  <2> HIDE DEF r
  <2>3. Locked(r) = Locked(q)
    BY <2>2 DEF Locked
  <2>4. Sound(r)
    BY <1>1, <1>2, <1>4, <2>2
       DEF Sound, Shape, ShapeOfWrite, ShapeOfRebuild, ShapeOfDelete, Restores, Adding
  <2> QED BY <1>1, <2>1, <2>2, <2>3, <2>4, MoveKeeps, Current DEF At
<1>5. ASSUME q.kind = "delete", NEW n \in FirstOf(x),
             tx' = [tx EXCEPT ![x].plan = {p \in RowsSeen(x) : p[1] = n},
                              ![x].todo = @ \ {n},
                              ![x].pc = "wiping"]
      PROVE  RowsInv'
  <2> DEFINE W == {p \in RowsSeen(x) : p[1] = n}
             r == [q EXCEPT !.plan = W, !.todo = @ \ {n}, !.pc = "wiping"]
  <2>1. tx' = [tx EXCEPT ![x] = r]
    BY <1>5
  <2>2. W \subseteq Pairs /\ \A p \in W : p[1] = n
    BY <1>3
  <2>3. n \in q.todo
    BY <1>5 DEF FirstOf
  <2> HIDE DEF W
  <2>4. /\ r \in Transaction /\ r.kind = "delete" /\ r.edge = q.edge /\ r.pc = "wiping"
        /\ r.ins = q.ins /\ r.wiped = q.wiped /\ r.adding = {} /\ r.step = q.step
        /\ r.relation = q.relation /\ r.todo = q.todo \ {n} /\ r.affected = q.affected
        /\ r.plan = W
    BY <1>1, <1>2, <1>5, <2>2 DEF Transaction
  <2> HIDE DEF r
  <2>5. Locked(r) = Locked(q)
    BY <2>4 DEF Locked
  <2>6. Sound(r)
    BY <1>1, <1>2, <1>5, <2>2, <2>3, <2>4
       DEF Sound, Shape, ShapeOfWrite, ShapeOfRebuild, ShapeOfDelete, Restores, Adding
  <2> QED BY <1>1, <2>1, <2>4, <2>5, <2>6, MoveKeeps, Current DEF At
<1> QED BY <1>4, <1>5 DEF PlanWipe

LEMMA ApplyWipeRows ==
    ASSUME RowsInv, NEW x \in Tx, ApplyWipe(x)
    PROVE  RowsInv'
<1> DEFINE q == tx[x]
           last == q.todo = {}
           r == [q EXCEPT !.ins = @ \ q.plan, !.wiped = @ \cup (q.plan \cap closure),
                          !.plan = {},
                          !.todo = IF last THEN q.affected ELSE @,
                          !.pc = IF last THEN "read" ELSE "wipe"]
<1>1. q \in Transaction /\ Sound(q) /\ q.pc = "wiping" /\ Unchanged /\ Free(x, q.plan)
  BY Current DEF ApplyWipe, At
<1>2. q.ins = {} /\ q.step = 1 /\ q.adding = {} /\ (q.kind = "delete" => q.edge \in Link)
      /\ q.kind \notin {"none", "write"}
  BY <1>1 DEF Sound, Shape, ShapeOfWrite, Adding
<1>3. tx' = [tx EXCEPT ![x] = r]
  BY DEF ApplyWipe
<1>4. /\ r \in Transaction /\ r.kind = q.kind /\ r.edge = q.edge
      /\ r.pc = (IF last THEN "read" ELSE "wipe")
      /\ r.ins = {} /\ r.wiped = q.wiped \cup (q.plan \cap closure) /\ r.adding = {}
      /\ r.step = q.step /\ r.relation = q.relation /\ r.affected = q.affected
      /\ r.todo = (IF last THEN q.affected ELSE q.todo) /\ r.rels = q.rels
  BY <1>1, <1>2 DEF Transaction
<1> HIDE DEF r
<1>5. \A y \in Tx \ {x} : Locked(r) \cap Locked(tx[y]) = {}
  BY <1>1, <1>4, Current DEF Locked, Free
<1>6. Shape(r) /\ ShapeOfWrite(r) /\ ShapeOfRebuild(r)
  BY <1>1, <1>2, <1>4 DEF Sound, Shape, ShapeOfWrite, ShapeOfRebuild, Adding
<1>7. ShapeOfDelete(r)
  BY <1>1, <1>4 DEF Sound, ShapeOfDelete
<1>8. Restores(r)
  BY <1>1, <1>2, <1>4, <1>7 DEF Sound, ShapeOfDelete, Restores, Adding
<1> QED BY <1>1, <1>3, <1>4, <1>5, <1>6, <1>7, <1>8, MoveKeeps DEF At, Sound

\* No other transaction can commit a relation whose row this one has deleted, so
\* the rows to insert again are among the relations read.
LEMMA ReadRelationsRows ==
    ASSUME RowsInv, NEW x \in Tx, ReadRelations(x)
    PROVE  RowsInv'
<1> DEFINE q == tx[x]
<1>1. q \in Transaction /\ Sound(q) /\ q.pc = "read" /\ Unchanged
  BY Current DEF ReadRelations, At
<1>2. q.step = 1 /\ q.adding = {} /\ (q.kind = "delete" => q.edge \in Link)
  BY <1>1 DEF Sound, Shape, Adding
<1>3. RelationsSeen(x) \subseteq Link
  BY <1>1, SeenType DEF RowsInv, Sound, Shape
<1>4. CASE q.kind = "rebuild"
  <2> DEFINE r == [q EXCEPT !.rels = RelationsSeen(x), !.pc = "count"]
  <2>1. tx' = [tx EXCEPT ![x] = r]
    BY <1>4 DEF ReadRelations
  <2>2. RelationsSeen(x) = relations
    BY <1>1, <1>4 DEF Sound, Shape, RelationsSeen
  <2>3. /\ r \in Transaction /\ r.kind = "rebuild" /\ r.pc = "count" /\ r.edge = q.edge
        /\ r.ins = q.ins /\ r.wiped = q.wiped /\ r.adding = {} /\ r.step = q.step
        /\ r.relation = q.relation /\ r.rels = relations
    BY <1>1, <1>2, <1>3, <1>4, <2>2 DEF Transaction
  <2> HIDE DEF r
  <2>4. Locked(r) = Locked(q)
    BY <2>3 DEF Locked
  <2>5. Sound(r)
    BY <1>1, <1>2, <1>4, <2>3
       DEF Sound, Shape, ShapeOfWrite, ShapeOfRebuild, ShapeOfDelete, Restores, Adding
  <2> QED BY <1>1, <2>1, <2>3, <2>4, <2>5, MoveKeeps, Current DEF At
<1>5. ASSUME q.kind = "delete", NEW n \in FirstOf(x),
             tx' = [tx EXCEPT
                      ![x].adding = {r \in RelationsSeen(x) : r[1] = n} \ {q.edge},
                      ![x].todo = @ \ {n},
                      ![x].pc = "add"]
      PROVE  RowsInv'
  <2> DEFINE A == {r \in RelationsSeen(x) : r[1] = n} \ {q.edge}
             r == [q EXCEPT !.adding = A, !.todo = @ \ {n}, !.pc = "add"]
  <2>1. tx' = [tx EXCEPT ![x] = r]
    BY <1>5
  <2>2. A \subseteq Link /\ \A d \in relations : d[1] = n => d = q.edge \/ d \in A
    BY <1>1, <1>3, <1>5 DEF Sound, Shape, RelationsSeen
  <2> HIDE DEF A
  <2>3. /\ r \in Transaction /\ r.kind = "delete" /\ r.edge = q.edge /\ r.pc = "add"
        /\ r.ins = q.ins /\ r.wiped = q.wiped /\ r.adding = A /\ r.step = q.step
        /\ r.relation = q.relation /\ r.todo = q.todo \ {n} /\ r.affected = q.affected
    BY <1>1, <1>2, <1>5, <2>2 DEF Transaction
  <2> HIDE DEF r
  <2>4. Locked(r) = Locked(q)
    BY <2>3 DEF Locked
  <2>5. Shape(r) /\ ShapeOfWrite(r) /\ ShapeOfRebuild(r) /\ ShapeOfDelete(r)
    BY <1>1, <1>2, <1>5, <2>3
       DEF Sound, Shape, ShapeOfWrite, ShapeOfRebuild, ShapeOfDelete, Adding
  <2>6. Restores(r)
    BY <1>1, <1>2, <1>5, <2>2, <2>3 DEF Sound, Restores, Adding
  <2> QED BY <1>1, <2>1, <2>3, <2>4, <2>5, <2>6, MoveKeeps, Current DEF At, Sound
<1> QED BY <1>4, <1>5 DEF ReadRelations

\* A set of rows is finite.
LEMMA RowsFinite ==
    ASSUME NEW R \in SUBSET Pairs
    PROVE  IsFiniteSet(R) /\ Cardinality(R) \in Nat
<1>1. IsFiniteSet(Pairs)
  BY TransactionAssumption, FS_Product DEF Pairs
<1>2. IsFiniteSet(R)
  BY <1>1, FS_Subset
<1> QED BY <1>2, FS_CardinalityType

LEMMA CountRowsRows ==
    ASSUME RowsInv, NEW x \in Tx, CountRows(x)
    PROVE  RowsInv'
<1> DEFINE q == tx[x]
           n == Cardinality(RowsSeen(x))
           r == [q EXCEPT !.count = n, !.adding = q.rels, !.pc = "add"]
<1>1. q \in Transaction /\ Sound(q) /\ q.pc = "count" /\ Unchanged
  BY Current DEF CountRows, At
<1>2. q.step = 1 /\ q.kind = "rebuild" /\ q.rels \subseteq Link
  <2>1. q.kind \notin {"none", "write", "delete"} /\ q.step = 1
    BY <1>1 DEF Sound, Shape, ShapeOfWrite, ShapeOfDelete, Adding
  <2> QED BY <1>1, <2>1 DEF Transaction
<1>3. tx' = [tx EXCEPT ![x] = r]
  BY DEF CountRows
<1>4. n \in Nat
  <2>1. RowsSeen(x) \in SUBSET Pairs
    BY SeenType DEF RowsInv
  <2> QED BY <2>1, RowsFinite
<1> HIDE DEF n
<1>5. /\ r \in Transaction /\ r.kind = "rebuild" /\ r.edge = q.edge /\ r.pc = "add"
      /\ r.ins = q.ins /\ r.wiped = q.wiped /\ r.adding = q.rels /\ r.step = q.step
      /\ r.relation = q.relation /\ r.rels = q.rels
  BY <1>1, <1>2, <1>4 DEF Transaction
<1> HIDE DEF r
<1>6. Locked(r) = Locked(q)
  BY <1>5 DEF Locked
<1>7. Sound(r)
  BY <1>1, <1>2, <1>5
     DEF Sound, Shape, ShapeOfWrite, ShapeOfRebuild, ShapeOfDelete, Restores, Adding
<1> QED BY <1>1, <1>3, <1>5, <1>6, <1>7, MoveKeeps, Current DEF At

\* The rows of a statement are pairs of nodes, and the first one's is the edge.
LEMMA RowsToAddType ==
    ASSUME NEW R \in SUBSET Pairs, NEW d \in Link, NEW i \in 1..4
    PROVE  /\ RowsToAdd(R, d)[i] \subseteq Pairs
           /\ RowsToAdd(R, d)[1] = {d}
<1>1. d \in Pairs /\ d = <<d[1], d[2]>> /\ d[1] \in Node /\ d[2] \in Node
  BY TransactionAssumption DEF Pairs
<1>2. Above(R, d[2]) \subseteq Node /\ Below(R, d[1]) \subseteq Node
  BY DEF Above, Below, Pairs
<1>3. /\ RowsToAdd(R, d)[1] = {d}
      /\ RowsToAdd(R, d)[2] = {d[1]} \X Above(R, d[2])
      /\ RowsToAdd(R, d)[3] = Below(R, d[1]) \X {d[2]}
      /\ RowsToAdd(R, d)[4] = Below(R, d[1]) \X Above(R, d[2])
  BY DEF RowsToAdd
<1>4. i = 1 \/ i = 2 \/ i = 3 \/ i = 4
  OBVIOUS
<1> QED BY <1>1, <1>2, <1>3, <1>4 DEF Pairs

LEMMA PlanAddRows ==
    ASSUME RowsInv, NEW x \in Tx, PlanAdd(x)
    PROVE  RowsInv'
<1> DEFINE q == tx[x]
           S == IF q.step = 1 THEN q.adding ELSE {q.current}
<1>1. q \in Transaction /\ Sound(q) /\ q.pc = "add" /\ q.adding # {} /\ Unchanged
  BY Current DEF PlanAdd, At
<1>2. PICK e \in S : tx' = [tx EXCEPT ![x].current = e,
                                      ![x].plan = RowsToAdd(RowsSeen(x), e)[q.step],
                                      ![x].pc = "adding"]
  BY DEF PlanAdd
<1> DEFINE W == RowsToAdd(RowsSeen(x), e)[q.step]
           r == [q EXCEPT !.current = e, !.plan = W, !.pc = "adding"]
<1>3. e \in q.adding /\ e \in Link /\ (q.step # 1 => e = q.current) /\ q.step \in 1..4
  BY <1>1, Fields DEF Sound, Shape
<1>4. W \subseteq Pairs /\ (q.step = 1 => W = {e})
  <2>1. RowsSeen(x) \in SUBSET Pairs
    BY SeenType DEF RowsInv
  <2> QED BY <1>3, <2>1, RowsToAddType
<1>5. tx' = [tx EXCEPT ![x] = r]
  BY <1>2
<1> HIDE DEF W
<1>6. /\ r \in Transaction /\ r.kind = q.kind /\ r.edge = q.edge /\ r.pc = "adding"
      /\ r.ins = q.ins /\ r.wiped = q.wiped /\ r.adding = q.adding /\ r.step = q.step
      /\ r.relation = q.relation /\ r.rels = q.rels /\ r.todo = q.todo
      /\ r.affected = q.affected /\ r.current = e /\ r.plan = W
  BY <1>1, <1>3, <1>4 DEF Transaction
<1> HIDE DEF r
<1>7. Locked(r) = Locked(q)
  BY <1>6 DEF Locked
<1>8. Shape(r)
  BY <1>1, <1>3, <1>4, <1>6 DEF Sound, Shape, Adding, Locked
<1>9. ShapeOfWrite(r) /\ ShapeOfRebuild(r) /\ ShapeOfDelete(r) /\ Restores(r)
  BY <1>1, <1>6 DEF Sound, ShapeOfWrite, ShapeOfRebuild, ShapeOfDelete, Restores, Adding
<1> QED BY <1>1, <1>5, <1>6, <1>7, <1>8, <1>9, MoveKeeps, Current DEF At, Sound

\* The edge leaves adding when its own row has long been inserted.
LEMMA ApplyAddRows ==
    ASSUME RowsInv, NEW x \in Tx, ApplyAdd(x)
    PROVE  RowsInv'
<1> DEFINE q == tx[x]
           last == q.step = 4
           A == IF last THEN q.adding \ {q.current} ELSE q.adding
           n == IF last THEN 1 ELSE q.step + 1
           c == IF last THEN NoEdge ELSE q.current
           r == [q EXCEPT !.ins = @ \cup q.plan, !.plan = {}, !.step = n,
                          !.adding = A, !.current = c, !.pc = "add"]
<1>1. q \in Transaction /\ Sound(q) /\ q.pc = "adding" /\ Unchanged /\ Free(x, q.plan)
  BY Current DEF ApplyAdd, At
<1>2. /\ q.current \in q.adding /\ q.current \in q.ins \cup q.plan
      /\ q.step \in 1..4 /\ q.adding \subseteq Link
  <2>1. q.step \in 1..4 /\ q.adding \subseteq Link
    BY <1>1, Fields
  <2>2. q.step = 1 \/ q.step # 1
    OBVIOUS
  <2> QED BY <1>1, <2>1, <2>2 DEF Sound, Shape
<1>3. tx' = [tx EXCEPT ![x] = r]
  BY DEF ApplyAdd
<1>4. n \in 1..4 /\ (n # 1 => A = q.adding /\ c = q.current) /\ A \subseteq q.adding
      /\ q.adding \subseteq A \cup {q.current} /\ c \in Link \cup {NoEdge}
  BY <1>2
<1> HIDE DEF n, A, c
<1>5. /\ r \in Transaction /\ r.kind = q.kind /\ r.edge = q.edge /\ r.pc = "add"
      /\ r.ins = q.ins \cup q.plan /\ r.wiped = q.wiped /\ r.adding = A /\ r.step = n
      /\ r.relation = q.relation /\ r.rels = q.rels /\ r.todo = q.todo
      /\ r.affected = q.affected /\ r.current = c
  BY <1>1, <1>2, <1>4 DEF Transaction
<1> HIDE DEF r
<1>6. \A y \in Tx \ {x} : Locked(r) \cap Locked(tx[y]) = {}
  BY <1>1, <1>5, Current DEF Locked, Free
<1>7. Shape(r)
  BY <1>1, <1>2, <1>4, <1>5 DEF Sound, Shape, Adding
<1>8. ShapeOfWrite(r) /\ ShapeOfRebuild(r) /\ ShapeOfDelete(r)
  BY <1>1, <1>2, <1>4, <1>5
     DEF Sound, ShapeOfWrite, ShapeOfRebuild, ShapeOfDelete, Adding
<1>9. Restores(r)
  BY <1>1, <1>2, <1>4, <1>5 DEF Sound, Restores, Adding
<1> QED BY <1>1, <1>3, <1>5, <1>6, <1>7, <1>8, <1>9, MoveKeeps DEF At, Sound

LEMMA NextRoundRows ==
    ASSUME RowsInv, NEW x \in Tx, NextRound(x)
    PROVE  RowsInv'
<1> DEFINE q == tx[x]
           pc == CASE q.kind = "delete" /\ q.todo # {} -> "read"
                   [] q.kind = "rebuild" /\ Cardinality(RowsSeen(x)) # q.count -> "count"
                   [] OTHER -> "commit"
           r == [q EXCEPT !.pc = pc]
<1>1. q \in Transaction /\ Sound(q) /\ q.pc = "add" /\ q.adding = {} /\ Unchanged
  BY Current DEF NextRound, At
<1>2. q.step = 1
  BY <1>1 DEF Sound, Shape
<1>3. tx' = [tx EXCEPT ![x] = r]
  BY DEF NextRound
<1>4. \/ pc = "read" /\ q.kind = "delete"
      \/ pc = "count" /\ q.kind = "rebuild"
      \/ pc = "commit" /\ (q.kind = "delete" => q.todo = {})
  OBVIOUS
<1> HIDE DEF pc
<1>5. /\ r \in Transaction /\ r.kind = q.kind /\ r.edge = q.edge /\ r.pc = pc
      /\ r.ins = q.ins /\ r.wiped = q.wiped /\ r.adding = {} /\ r.step = 1
      /\ r.relation = q.relation /\ r.rels = q.rels /\ r.todo = q.todo
      /\ r.affected = q.affected
  BY <1>1, <1>2, <1>4 DEF Transaction
<1> HIDE DEF r
<1>6. Locked(r) = Locked(q)
  BY <1>5 DEF Locked
<1>7. Shape(r)
  BY <1>1, <1>2, <1>4, <1>5 DEF Sound, Shape, Adding, Locked
<1>8. ShapeOfWrite(r) /\ ShapeOfRebuild(r) /\ ShapeOfDelete(r) /\ Restores(r)
  BY <1>1, <1>4, <1>5
     DEF Sound, Shape, ShapeOfWrite, ShapeOfRebuild, ShapeOfDelete, Restores, Adding
<1> QED BY <1>1, <1>3, <1>5, <1>6, <1>7, <1>8, MoveKeeps, Current DEF At, Sound

LEMMA RollbackRows ==
    ASSUME RowsInv, NEW x \in Tx, Rollback(x)
    PROVE  RowsInv'
<1> DEFINE r == Blank("done")
<1>1. tx' = [tx EXCEPT ![x] = r] /\ ~At(x, "done") /\ Unchanged
  BY DEF Rollback
<1>2. r \in Transaction
  BY DEF Blank, Transaction
<1>3. /\ r.kind = "none" /\ r.pc = "done" /\ r.ins = {} /\ r.wiped = {} /\ r.step = 1
      /\ r.adding = {} /\ r.relation = "same"
  BY DEF Blank
<1> HIDE DEF r
<1>4. Locked(r) = {}
  BY <1>3 DEF Locked
<1>5. Sound(r)
  BY <1>3, <1>4
     DEF Sound, Shape, ShapeOfWrite, ShapeOfRebuild, ShapeOfDelete, Restores, Adding
<1> QED BY <1>1, <1>2, <1>4, <1>5, MoveKeeps

\* What a commit does to the records: its own is over, and a DELETE that waits
\* for it may lose rows of its plan.
LEMMA CommitRecords ==
    ASSUME TypeOK, NEW x \in Tx, Commit(x)
    PROVE  /\ tx' \in [Tx -> Transaction]
           /\ tx'[x].pc = "done" /\ tx'[x].kind = tx[x].kind /\ tx'[x].edge = tx[x].edge
           /\ Locked(tx'[x]) = {} /\ tx'[x].adding = {} /\ tx'[x].step = 1
           /\ tx'[x].relation = "same" /\ tx'[x].ins = {} /\ tx'[x].wiped = {}
           /\ tx'[x].rels = {} /\ tx'[x].todo = {}
           /\ \A y \in Tx \ {x} :
                 \/ tx'[y] = tx[y]
                 \/ /\ tx[y].pc = "wiping"
                    /\ tx'[y] = [tx[y] EXCEPT !.plan = @ \ tx[x].wiped]
<1> DEFINE B == Blank("done")
           D == [B EXCEPT !.kind = tx[x].kind, !.edge = tx[x].edge]
           E(y) == [tx[y] EXCEPT !.plan = @ \ tx[x].wiped]
<1>1. \A y \in Tx : tx[y] \in Transaction
  BY DEF TypeOK
<1>2. tx' = [y \in Tx |-> CASE y = x -> D
                            [] y # x /\ At(y, "wiping") -> E(y)
                            [] OTHER -> tx[y]]
  BY DEF Commit
<1>3. /\ D \in Transaction /\ D.pc = "done" /\ D.kind = tx[x].kind /\ D.edge = tx[x].edge
      /\ D.ins = {} /\ D.wiped = {} /\ D.adding = {} /\ D.step = 1 /\ D.relation = "same"
      /\ D.rels = {} /\ D.todo = {}
  <2>1. /\ B \in Transaction /\ B.pc = "done" /\ B.ins = {} /\ B.wiped = {}
        /\ B.adding = {} /\ B.step = 1 /\ B.relation = "same" /\ B.rels = {} /\ B.todo = {}
    BY DEF Blank, Transaction
  <2> HIDE DEF B
  <2> QED BY <1>1, <2>1 DEF Transaction
<1>4. \A y \in Tx : E(y) \in Transaction
  BY <1>1 DEF Transaction
<1> HIDE DEF D
<1>5. tx'[x] = D /\ \A y \in Tx \ {x} : tx'[y] = tx[y] \/ (tx[y].pc = "wiping" /\ tx'[y] = E(y))
  BY <1>2 DEF At
<1>6. tx' \in [Tx -> Transaction]
  <2>1. \A y \in Tx : tx'[y] \in Transaction
    BY <1>1, <1>3, <1>4, <1>5
  <2> HIDE DEF E
  <2> QED BY <1>2, <2>1
<1> QED BY <1>3, <1>5, <1>6 DEF Locked

\* A waiting DELETE that lost rows of its plan is otherwise as it was.
LEMMA PlanShrinks ==
    ASSUME NEW q \in Transaction, q.pc = "wiping", NEW W
    PROVE  LET r == [q EXCEPT !.plan = @ \ W]
           IN  /\ r.pc = q.pc /\ r.kind = q.kind /\ r.edge = q.edge /\ r.ins = q.ins
               /\ r.wiped = q.wiped /\ r.plan = q.plan \ W /\ r.adding = q.adding
               /\ r.step = q.step /\ r.relation = q.relation /\ r.rels = q.rels
               /\ r.todo = q.todo /\ r.affected = q.affected
BY DEF Transaction

\* A write that commits has its own row inserted, and every row a rebuild or a
\* delete has taken from a stored relation has been put back.
LEMMA CommitRows ==
    ASSUME RowsInv, NEW x \in Tx, Commit(x)
    PROVE  RowsInv'
<1> DEFINE q == tx[x]
<1>1. q \in Transaction /\ Sound(q) /\ q.pc = "commit"
  BY Current DEF Commit, At
<1>2. q.adding = {} /\ q.kind \in {"write", "rebuild", "delete"}
  BY <1>1 DEF Sound, Shape, Adding, Transaction
<1>3. relations' = RelationsSeen(x) /\ closure' = (closure \ q.wiped) \cup q.ins
  BY DEF Commit, RowsSeen
<1>4. TypeOK'
  <2>1. RelationsSeen(x) \subseteq Link /\ RowsSeen(x) \subseteq Pairs
    <3>1. q.relation # "added" \/ q.edge \in Link
      BY <1>1 DEF Sound, Shape
    <3> QED BY <3>1, SeenType DEF RowsInv
  <2> QED BY <2>1, CommitRecords DEF Commit, RowsInv, TypeOK
<1>5. \A d \in relations' : \/ d \in relations
                            \/ q.kind = "write" /\ d = q.edge /\ d \in q.ins
  BY <1>1, <1>2, <1>3 DEF Sound, Shape, ShapeOfWrite, RelationsSeen
<1>6. ASSUME NEW y \in Tx \ {x}
      PROVE  /\ tx'[y].pc = tx[y].pc /\ tx'[y].kind = tx[y].kind /\ tx'[y].edge = tx[y].edge
             /\ tx'[y].ins = tx[y].ins /\ tx'[y].wiped = tx[y].wiped
             /\ tx'[y].adding = tx[y].adding /\ tx'[y].step = tx[y].step
             /\ tx'[y].relation = tx[y].relation /\ tx'[y].rels = tx[y].rels
             /\ tx'[y].todo = tx[y].todo /\ tx'[y].affected = tx[y].affected
             /\ tx'[y].plan \subseteq tx[y].plan
             /\ tx[y].pc # "wiping" => tx'[y] = tx[y]
  <2>1. tx[y] \in Transaction
    BY Current
  <2>2. CASE tx'[y] = tx[y]
    BY <2>2
  <2>3. CASE tx[y].pc = "wiping" /\ tx'[y] = [tx[y] EXCEPT !.plan = @ \ q.wiped]
    BY <2>1, <2>3, PlanShrinks
  <2> QED BY <2>2, <2>3, CommitRecords DEF RowsInv
<1>7. \A kind, d : Committed(kind, d) => Committed(kind, d)'
  BY <1>1, <1>6 DEF Committed, At
<1>8. \A kind, d : kind = q.kind /\ d = q.edge => Committed(kind, d)'
  BY CommitRecords DEF Committed, At, RowsInv
<1>9. (\A y, z \in Tx : y # z => Locked(tx[y]) \cap Locked(tx[z]) = {})'
  <2>1. \A y \in Tx : Locked(tx'[y]) \subseteq Locked(tx[y])
    BY <1>6, CommitRecords DEF Locked, RowsInv
  <2>2. \A y, z \in Tx : y # z => Locked(tx'[y]) \cap Locked(tx'[z]) = {}
    BY <2>1 DEF RowsInv
  <2> QED BY <2>2 DEF Locked
<1>10. ASSUME NEW y \in Tx PROVE Sound(tx[y])'
  <2> DEFINE r == tx'[y]
  <2>1. CASE y = x
    <3>1. r.pc = "done" /\ r.kind = q.kind /\ r.edge = q.edge /\ Locked(r) = {} /\ r.adding = {}
          /\ r.step = 1 /\ r.relation = "same" /\ r.wiped = {} /\ r.rels = {} /\ r.todo = {}
      BY <2>1, CommitRecords DEF RowsInv
    <3>2. q.kind \in {"write", "delete"} => q.edge \in Link
      BY <1>1 DEF Sound, Shape
    <3> QED BY <1>2, <3>1, <3>2
         DEF Sound, Shape, ShapeOfWrite, ShapeOfRebuild, ShapeOfDelete, Restores, Adding
  <2>2. CASE y # x
    <3> DEFINE o == tx[y]
    <3>1. o \in Transaction /\ Sound(o) /\ Locked(o) \cap Locked(q) = {}
      BY <2>2, Current
    <3>2. /\ r.pc = o.pc /\ r.kind = o.kind /\ r.edge = o.edge /\ r.ins = o.ins
          /\ r.wiped = o.wiped /\ r.adding = o.adding /\ r.step = o.step
          /\ r.relation = o.relation /\ r.rels = o.rels /\ r.todo = o.todo
          /\ r.affected = o.affected /\ r.plan \subseteq o.plan
          /\ (o.pc # "wiping" => r = o)
      BY <2>2, <1>6
    <3>3. o.wiped \cap relations' \subseteq relations
      BY <1>5, <3>1 DEF Locked
    <3>4. \A d \in relations' : d = o.edge => d \in relations \/ Committed("write", d)'
      BY <1>5, <1>8
    <3> HIDE DEF o, r
    <3>5. Shape(r) /\ ShapeOfWrite(r) /\ ShapeOfRebuild(r) /\ ShapeOfDelete(r)
      BY <3>1, <3>2
         DEF Sound, Shape, ShapeOfWrite, ShapeOfRebuild, ShapeOfDelete, Locked, Adding
    <3>6. /\ r.kind = "rebuild" /\ r.pc \in Adding \cup {"count", "commit"} =>
                r.wiped \cap relations' \subseteq r.rels
          /\ r.kind = "delete" /\ r.pc \in Adding \cup {"read", "commit"} =>
                \A d \in r.wiped \cap relations' :
                    d = r.edge \/ d[1] \in r.todo \/ d \in r.adding \cup r.ins
          /\ r.kind = "delete" /\ r.pc \notin {"relation", "done"} /\ r.relation = "same"
             => \A d \in relations' : d = r.edge => Committed("write", d)'
      BY <1>7, <3>1, <3>2, <3>3, <3>4 DEF Sound, Restores
    <3> QED BY <3>5, <3>6
         DEF r, Sound, Shape, ShapeOfWrite, ShapeOfRebuild, ShapeOfDelete, Restores, Locked,
             Adding, Committed, At
  <2> QED BY <2>1, <2>2
<1>11. \A d \in relations' : d \in closure' \/ Contested(d)'
  <2> SUFFICES ASSUME NEW d, d \in relations' PROVE d \in closure' \/ Contested(d)'
    OBVIOUS
  <2>1. CASE d \in q.ins \/ (d \in closure /\ d \notin q.wiped)
    BY <1>3, <2>1
  <2>2. CASE d \notin q.ins /\ d \in q.wiped
    <3>1. d \in relations /\ q.kind # "write"
      BY <1>1, <1>5, <2>2 DEF Sound, ShapeOfWrite
    <3>2. q.kind # "rebuild"
      BY <1>1, <1>2, <2>2, <3>1 DEF Sound, Restores, ShapeOfRebuild
    <3>3. q.kind = "delete" /\ d = q.edge
      BY <1>1, <1>2, <2>2, <3>1, <3>2 DEF Sound, Restores, ShapeOfDelete
    <3>4. q.relation = "same"
      BY <1>1, <1>3, <3>3 DEF Sound, Shape, RelationsSeen, Transaction
    <3>5. Committed("write", d)
      BY <1>1, <3>1, <3>3, <3>4 DEF Sound, Restores
    <3> QED BY <1>7, <1>8, <3>3, <3>5 DEF Contested
  <2>3. CASE d \notin q.ins /\ d \notin closure
    <3>1. d \in relations
      BY <1>5, <2>3
    <3> QED BY <1>7, <2>3, <3>1 DEF Contested, RowsInv
  <2> QED BY <2>1, <2>2, <2>3
<1> QED BY <1>4, <1>9, <1>10, <1>11 DEF RowsInv

-----------------------------------------------------------------------------
\* The table starts as the closure of the relations, and nothing runs.
LEMMA InitRows == Init => RowsInv
<1> SUFFICES ASSUME Init PROVE RowsInv
  OBVIOUS
<1> DEFINE r == Blank("new")
<1>1. \A x \in Tx : tx[x] = r
  BY DEF Init
<1>2. r \in Transaction
  BY DEF Blank, Transaction
<1>3. /\ r.kind = "none" /\ r.pc = "new" /\ r.ins = {} /\ r.wiped = {} /\ r.step = 1
      /\ r.adding = {} /\ r.relation = "same" /\ r.todo = {} /\ r.rels = {}
  BY DEF Blank
<1> HIDE DEF r
<1>4. Locked(r) = {}
  BY <1>3 DEF Locked
<1>5. Sound(r)
  BY <1>3, <1>4
     DEF Sound, Shape, ShapeOfWrite, ShapeOfRebuild, ShapeOfDelete, Restores, Adding
<1>6. TypeOK
  BY <1>1, <1>2 DEF Init, TypeOK
<1>7. relations \subseteq closure
  BY DEF Init, IsLeastClosure
<1> QED BY <1>1, <1>4, <1>5, <1>6, <1>7 DEF RowsInv

\* Every step keeps the locks apart and the rows of stored relations due.
LEMMA NextRows == RowsInv /\ [Next]_vars => RowsInv'
<1> SUFFICES ASSUME RowsInv, [Next]_vars PROVE RowsInv'
  OBVIOUS
<1>1. CASE UNCHANGED vars
  BY <1>1 DEF vars, RowsInv, TypeOK, Locked, Sound, Shape, ShapeOfWrite, ShapeOfRebuild,
              ShapeOfDelete, Restores, Adding, Contested, Committed, At
<1>2. CASE Next
  <2>1. PICK x \in Tx :
          \/ Start(x) \/ InsertRelation(x) \/ DeleteRelation(x) \/ SelectAffected(x)
          \/ PlanWipe(x) \/ ApplyWipe(x) \/ ReadRelations(x) \/ CountRows(x)
          \/ PlanAdd(x) \/ ApplyAdd(x) \/ NextRound(x) \/ Commit(x) \/ Rollback(x)
    BY <1>2 DEF Next
  <2> QED BY <2>1, StartRows, InsertRelationRows, DeleteRelationRows, SelectAffectedRows,
             PlanWipeRows, ApplyWipeRows, ReadRelationsRows, CountRowsRows, PlanAddRows,
             ApplyAddRows, NextRoundRows, CommitRows, RollbackRows
<1> QED BY <1>1, <1>2

\* The tables and the records of the transactions keep their types.
THEOREM TypeCorrect == Spec => []TypeOK
<1>1. RowsInv => TypeOK
  BY DEF RowsInv
<1> QED BY InitRows, NextRows, <1>1, PTL DEF Spec

\* In whatever order the statements of any number of writes, deletes and rebuilds
\* come, a committed relation keeps its own row, unless a write and a delete of
\* this very relation overlap.
THEOREM DirectRowsKept == Spec => []DirectRows
<1>1. RowsInv => DirectRows
  BY DEF RowsInv, DirectRows, Contested, Committed, Ran
<1> QED BY InitRows, NextRows, <1>1, PTL DEF Spec

-----------------------------------------------------------------------------
\* Rows that are joined along an edge stay within a transitive set.
LEMMA RowsToAddClosed ==
    ASSUME NEW P, NEW R, NEW d, NEW i \in 1..4, P \in SUBSET Pairs, IsTransitiveSet(P),
           R \subseteq P, d \in P
    PROVE  RowsToAdd(R, d)[i] \subseteq P
<1>1. \A n \in Above(R, d[2]) : <<d[2], n>> \in P
  BY DEF Above, Pairs
<1>2. \A m \in Below(R, d[1]) : <<m, d[1]>> \in P
  BY DEF Below, Pairs
<1>3. <<d[1], d[2]>> \in P
  BY DEF Pairs
<1>4. \A m, n, o : <<m, n>> \in P /\ <<n, o>> \in P => <<m, o>> \in P
  BY DEF IsTransitiveSet
<1>5. /\ \A n \in Above(R, d[2]) : <<d[1], n>> \in P
      /\ \A m \in Below(R, d[1]) : <<m, d[2]>> \in P
  BY <1>1, <1>2, <1>3, <1>4
<1>6. \A m \in Below(R, d[1]), n \in Above(R, d[2]) : <<m, n>> \in P
  BY <1>1, <1>4, <1>5
<1>7. /\ RowsToAdd(R, d)[1] = {d}
      /\ RowsToAdd(R, d)[2] = {d[1]} \X Above(R, d[2])
      /\ RowsToAdd(R, d)[3] = Below(R, d[1]) \X {d[2]}
      /\ RowsToAdd(R, d)[4] = Below(R, d[1]) \X Above(R, d[2])
  BY DEF RowsToAdd
<1>8. i = 1 \/ i = 2 \/ i = 3 \/ i = 4
  OBVIOUS
<1> QED BY <1>5, <1>6, <1>7, <1>8

\* A transaction that moves on leaves the tables and the others as they are.
LEMMA MovePaths ==
    ASSUME PathsInv, RowsInv', NEW x \in Tx, Unchanged, ~At(x, "done"),
           \A y \in Tx \ {x} : tx'[y] = tx[y],
           NoDelete => Accounted(tx'[x])
    PROVE  PathsInv'
<1> USE DEF Unchanged
<1>1. NoDelete' => NoDelete
  BY DEF NoDelete, At
<1>2. NoDelete => \A y \in Tx : Accounted(tx'[y])
  BY DEF PathsInv
<1>3. NoDelete => (\A y \in Tx : Accounted(tx[y]))'
  BY <1>2 DEF Accounted, Own, Closed, Pairs
<1>4. NoDelete => (\A P : Closed(P, relations) => closure \subseteq P)'
  BY DEF PathsInv, Closed
<1> QED BY <1>1, <1>3, <1>4 DEF PathsInv

\* Before its first INSERT, and while it deletes, a transaction accounts for nothing.
LEMMA QuietPaths ==
    ASSUME PathsInv, RowsInv', NEW x \in Tx,
           \/ Start(x) \/ InsertRelation(x) \/ DeleteRelation(x) \/ SelectAffected(x)
           \/ PlanWipe(x) \/ ApplyWipe(x) \/ ReadRelations(x) \/ CountRows(x) \/ NextRound(x)
           \/ Rollback(x)
    PROVE  PathsInv'
<1> DEFINE q == tx[x]
<1>1. q \in Transaction /\ Sound(q) /\ tx \in [Tx -> Transaction]
      /\ (NoDelete => Accounted(q))
  BY Current DEF PathsInv, RowsInv, TypeOK
<1>2. CASE Start(x)
  <2>1. /\ tx'[x].rels = q.rels /\ tx'[x].ins = q.ins
        /\ tx'[x].pc \notin Adding \cup {"commit"}
        /\ \A y \in Tx \ {x} : tx'[y] = tx[y]
        /\ Unchanged /\ q.pc = "new"
    <3>1. Unchanged /\ q.pc = "new"
      BY <1>2 DEF Start, At
    <3>2. ASSUME NEW k, NEW d,
                 tx' = [tx EXCEPT ![x].kind = k, ![x].edge = d, ![x].pc = "relation"]
          PROVE  /\ tx'[x].rels = q.rels /\ tx'[x].ins = q.ins /\ tx'[x].pc = "relation"
                 /\ \A y \in Tx \ {x} : tx'[y] = tx[y]
      BY <1>1, <3>2 DEF Transaction
    <3>3. ASSUME tx' = [tx EXCEPT ![x].kind = "rebuild", ![x].pc = "wipe"]
          PROVE  /\ tx'[x].rels = q.rels /\ tx'[x].ins = q.ins /\ tx'[x].pc = "wipe"
                 /\ \A y \in Tx \ {x} : tx'[y] = tx[y]
      BY <1>1, <3>3 DEF Transaction
    <3> QED BY <1>2, <3>1, <3>2, <3>3 DEF Start, Adding
  <2>2. Accounted(tx'[x])
    BY <1>1, <2>1 DEF Sound, Shape, Accounted, Locked, Adding
  <2> QED BY <2>1, <2>2, MovePaths DEF At
<1>3. CASE InsertRelation(x)
  <2>1. /\ tx'[x].rels = q.rels /\ tx'[x].ins = q.ins /\ tx'[x].pc = "add"
        /\ tx'[x].edge = q.edge /\ tx'[x].kind = q.kind
        /\ tx'[x].relation = (IF q.edge \in relations THEN "same" ELSE "added")
        /\ \A y \in Tx \ {x} : tx'[y] = tx[y]
        /\ Unchanged /\ q.pc = "relation"
    BY <1>1, <1>3 DEF InsertRelation, Transaction, At
  <2>2. NoDelete => Accounted(tx'[x])
    BY <1>1, <2>1 DEF Accounted, Own, Adding
  <2> QED BY <2>1, <2>2, MovePaths DEF At
<1>4. CASE DeleteRelation(x) \/ SelectAffected(x)
  <2>1. /\ tx'[x].kind = q.kind /\ q.pc \in {"relation", "select"}
        /\ (q.pc = "relation" => q.kind = "delete")
        /\ \A y \in Tx \ {x} : tx'[y] = tx[y]
        /\ Unchanged
    BY <1>1, <1>4 DEF DeleteRelation, SelectAffected, Transaction, At
  <2>2. q.kind = "delete"
    BY <1>1, <2>1 DEF Sound, Shape, ShapeOfWrite
  <2>3. Accounted(tx'[x])
    BY <2>1, <2>2 DEF Accounted
  <2> QED BY <2>1, <2>3, MovePaths DEF At
<1>5. CASE PlanWipe(x) \/ ApplyWipe(x)
  <2>1. /\ tx'[x].rels = q.rels /\ tx'[x].ins \subseteq q.ins
        /\ tx'[x].pc \notin Adding \cup {"commit"}
        /\ tx'[x].edge = q.edge /\ tx'[x].kind = q.kind
        /\ \A y \in Tx \ {x} : tx'[y] = tx[y]
        /\ Unchanged /\ q.pc \in {"wipe", "wiping"}
    <3>1. Unchanged /\ q.pc \in {"wipe", "wiping"}
      BY <1>5 DEF PlanWipe, ApplyWipe, At
    <3>2. ASSUME NEW W, NEW t, tx' = [tx EXCEPT ![x].plan = W, ![x].todo = t, ![x].pc = "wiping"]
          PROVE  /\ tx'[x].rels = q.rels /\ tx'[x].ins = q.ins /\ tx'[x].pc = "wiping"
                 /\ tx'[x].edge = q.edge /\ tx'[x].kind = q.kind
                 /\ \A y \in Tx \ {x} : tx'[y] = tx[y]
      BY <1>1, <3>2 DEF Transaction
    <3>3. ASSUME NEW W, tx' = [tx EXCEPT ![x].plan = W, ![x].pc = "wiping"]
          PROVE  /\ tx'[x].rels = q.rels /\ tx'[x].ins = q.ins /\ tx'[x].pc = "wiping"
                 /\ tx'[x].edge = q.edge /\ tx'[x].kind = q.kind
                 /\ \A y \in Tx \ {x} : tx'[y] = tx[y]
      BY <1>1, <3>3 DEF Transaction
    <3>4. CASE PlanWipe(x)
      <4>1. ASSUME NEW n, tx' = [tx EXCEPT ![x].plan = {p \in RowsSeen(x) : p[1] = n},
                                           ![x].todo = @ \ {n},
                                           ![x].pc = "wiping"]
            PROVE  \E W, t : tx' = [tx EXCEPT ![x].plan = W, ![x].todo = t, ![x].pc = "wiping"]
        <5> DEFINE W == {p \in RowsSeen(x) : p[1] = n}
                   t == q.todo \ {n}
        <5>1. tx' = [tx EXCEPT ![x].plan = W, ![x].todo = t, ![x].pc = "wiping"]
          BY <4>1
        <5> HIDE DEF W, t
        <5> QED BY <5>1
      <4>2. \/ \E W : tx' = [tx EXCEPT ![x].plan = W, ![x].pc = "wiping"]
            \/ \E W, t : tx' = [tx EXCEPT ![x].plan = W, ![x].todo = t, ![x].pc = "wiping"]
        BY <3>4, <4>1 DEF PlanWipe
      <4> QED BY <3>1, <3>2, <3>3, <4>2 DEF Adding
    <3>5. CASE ApplyWipe(x)
      BY <1>1, <3>1, <3>5 DEF ApplyWipe, Transaction, Adding
    <3> QED BY <1>5, <3>4, <3>5
  <2>2. NoDelete => Accounted(tx'[x])
    BY <1>1, <2>1 DEF Accounted, Own, Adding
  <2> QED BY <2>1, <2>2, MovePaths DEF At
<1>6. CASE ReadRelations(x)
  <2>1. /\ tx'[x].ins = q.ins /\ tx'[x].pc \in {"count", "add"}
        /\ tx'[x].edge = q.edge /\ tx'[x].kind = q.kind
        /\ q.kind = "delete" \/ (q.kind = "rebuild" /\ tx'[x].rels = RelationsSeen(x))
        /\ \A y \in Tx \ {x} : tx'[y] = tx[y]
        /\ Unchanged /\ q.pc = "read"
    <3>1. Unchanged /\ q.pc = "read"
      BY <1>6 DEF ReadRelations, At
    <3>2. ASSUME NEW A, NEW t, tx' = [tx EXCEPT ![x].adding = A, ![x].todo = t, ![x].pc = "add"]
          PROVE  /\ tx'[x].ins = q.ins /\ tx'[x].pc = "add"
                 /\ tx'[x].edge = q.edge /\ tx'[x].kind = q.kind
                 /\ \A y \in Tx \ {x} : tx'[y] = tx[y]
      BY <1>1, <3>2 DEF Transaction
    <3>3. ASSUME NEW R, tx' = [tx EXCEPT ![x].rels = R, ![x].pc = "count"]
          PROVE  /\ tx'[x].ins = q.ins /\ tx'[x].pc = "count" /\ tx'[x].rels = R
                 /\ tx'[x].edge = q.edge /\ tx'[x].kind = q.kind
                 /\ \A y \in Tx \ {x} : tx'[y] = tx[y]
      BY <1>1, <3>3 DEF Transaction
    <3>4. ASSUME NEW n, tx' = [tx EXCEPT
                                 ![x].adding = {r \in RelationsSeen(x) : r[1] = n} \ {q.edge},
                                 ![x].todo = @ \ {n},
                                 ![x].pc = "add"]
          PROVE  \E A, t : tx' = [tx EXCEPT ![x].adding = A, ![x].todo = t, ![x].pc = "add"]
      <4> DEFINE A == {r \in RelationsSeen(x) : r[1] = n} \ {q.edge}
                 t == q.todo \ {n}
      <4>1. tx' = [tx EXCEPT ![x].adding = A, ![x].todo = t, ![x].pc = "add"]
        BY <3>4
      <4> HIDE DEF A, t
      <4> QED BY <4>1
    <3>5. \/ q.kind = "rebuild" /\ tx' = [tx EXCEPT ![x].rels = RelationsSeen(x), ![x].pc = "count"]
          \/ /\ q.kind = "delete"
             /\ \E A, t : tx' = [tx EXCEPT ![x].adding = A, ![x].todo = t, ![x].pc = "add"]
      BY <1>6, <3>4 DEF ReadRelations
    <3>6. CASE q.kind = "rebuild" /\ tx' = [tx EXCEPT ![x].rels = RelationsSeen(x), ![x].pc = "count"]
      <4> DEFINE R == RelationsSeen(x)
      <4>1. tx' = [tx EXCEPT ![x].rels = R, ![x].pc = "count"]
        BY <3>6
      <4> HIDE DEF R
      <4>2. tx'[x].rels = R
        BY <3>3, <4>1
      <4> QED BY <3>1, <3>3, <3>6, <4>1, <4>2 DEF R
    <3>7. CASE /\ q.kind = "delete"
               /\ \E A, t : tx' = [tx EXCEPT ![x].adding = A, ![x].todo = t, ![x].pc = "add"]
      <4>1. PICK A, t : tx' = [tx EXCEPT ![x].adding = A, ![x].todo = t, ![x].pc = "add"]
        BY <3>7
      <4>2. /\ tx'[x].ins = q.ins /\ tx'[x].pc = "add"
            /\ tx'[x].edge = q.edge /\ tx'[x].kind = q.kind
            /\ \A y \in Tx \ {x} : tx'[y] = tx[y]
        BY <3>2, <4>1
      <4> HIDE DEF q
      <4> QED BY <3>1, <3>7, <4>2
    <3> QED BY <3>5, <3>6, <3>7
  <2>2. q.kind = "rebuild" => RelationsSeen(x) = relations
    BY <1>1 DEF Sound, Shape, RelationsSeen
  <2>3. NoDelete => Accounted(tx'[x])
    BY <1>1, <2>1, <2>2 DEF Accounted, Own, Adding
  <2> QED BY <2>1, <2>3, MovePaths DEF At
<1>7. CASE CountRows(x) \/ NextRound(x)
  <2>1. /\ tx'[x].rels = q.rels /\ tx'[x].ins = q.ins /\ tx'[x].pc # "adding"
        /\ tx'[x].edge = q.edge /\ tx'[x].kind = q.kind /\ tx'[x].relation = q.relation
        /\ \A y \in Tx \ {x} : tx'[y] = tx[y]
        /\ Unchanged /\ (q.pc = "count" \/ q.pc = "add")
    BY <1>1, <1>7 DEF CountRows, NextRound, Transaction, At
  <2>2. q.pc = "count" => q.kind # "write"
    BY <1>1 DEF Sound, ShapeOfWrite
  <2>3. NoDelete => Accounted(tx'[x])
    BY <1>1, <2>1, <2>2 DEF Accounted, Own, Adding
  <2> QED BY <2>1, <2>3, MovePaths DEF At
<1>8. CASE Rollback(x)
  <2>1. tx'[x].kind = "none" /\ Unchanged /\ ~At(x, "done")
        /\ \A y \in Tx \ {x} : tx'[y] = tx[y]
    BY <1>1, <1>8 DEF Rollback, Blank
  <2>2. Accounted(tx'[x])
    BY <2>1 DEF Accounted
  <2> QED BY <2>1, <2>2, MovePaths
<1> QED BY <1>2, <1>3, <1>4, <1>5, <1>6, <1>7, <1>8

\* The rows of the next INSERT join paths of relations and of the edge.
LEMMA PlanAddPaths ==
    ASSUME PathsInv, RowsInv', NEW x \in Tx, PlanAdd(x)
    PROVE  PathsInv'
<1> DEFINE q == tx[x]
           S == IF q.step = 1 THEN q.adding ELSE {q.current}
<1>1. q \in Transaction /\ Sound(q) /\ tx \in [Tx -> Transaction]
      /\ q.pc = "add" /\ Unchanged /\ (NoDelete => Accounted(q))
  BY Current DEF PathsInv, RowsInv, TypeOK, PlanAdd, At
<1>2. PICK e \in S : tx' = [tx EXCEPT ![x].current = e,
                                      ![x].plan = RowsToAdd(RowsSeen(x), e)[q.step],
                                      ![x].pc = "adding"]
  BY DEF PlanAdd
<1> DEFINE W == RowsToAdd(RowsSeen(x), e)[q.step]
<1>3. /\ tx'[x].rels = q.rels /\ tx'[x].ins = q.ins /\ tx'[x].pc = "adding"
      /\ tx'[x].edge = q.edge /\ tx'[x].kind = q.kind /\ tx'[x].relation = q.relation
      /\ tx'[x].plan = W
      /\ \A y \in Tx \ {x} : tx'[y] = tx[y]
  <2> HIDE DEF W
  <2>1. tx' = [tx EXCEPT ![x].current = e, ![x].plan = W, ![x].pc = "adding"]
    BY <1>2 DEF W
  <2> QED BY <1>1, <2>1 DEF Transaction
<1>4. e \in q.adding /\ q.step \in 1..4
  BY <1>1, Fields DEF Sound, Shape
<1>5. ASSUME NoDelete, q.kind \in {"write", "rebuild"},
             NEW P, Closed(P, relations \cup Own(q))
      PROVE  W \subseteq P
  <2>1. q.ins \subseteq P
    BY <1>1, <1>5 DEF Accounted
  <2>2. closure \subseteq P
    BY <1>5 DEF PathsInv, Closed
  <2>3. e \in P
    BY <1>1, <1>4, <1>5 DEF Accounted, Closed, Own, Sound, ShapeOfWrite, ShapeOfRebuild
  <2> QED BY <1>4, <1>5, <2>1, <2>2, <2>3, RowsToAddClosed DEF Closed, RowsSeen
<1> HIDE DEF W
<1>6. NoDelete => Accounted(tx'[x])
  BY <1>1, <1>3, <1>5 DEF Accounted, Own, Adding
<1> QED BY <1>1, <1>3, <1>6, MovePaths DEF At

LEMMA ApplyAddPaths ==
    ASSUME PathsInv, RowsInv', NEW x \in Tx, ApplyAdd(x)
    PROVE  PathsInv'
<1> DEFINE q == tx[x]
<1>1. q \in Transaction /\ tx \in [Tx -> Transaction]
      /\ q.pc = "adding" /\ Unchanged /\ (NoDelete => Accounted(q))
  BY Current DEF PathsInv, RowsInv, TypeOK, ApplyAdd, At
<1>2. /\ tx'[x].rels = q.rels /\ tx'[x].ins = q.ins \cup q.plan /\ tx'[x].pc = "add"
      /\ tx'[x].edge = q.edge /\ tx'[x].kind = q.kind /\ tx'[x].relation = q.relation
      /\ \A y \in Tx \ {x} : tx'[y] = tx[y]
  BY <1>1 DEF ApplyAdd, Transaction
<1>3. NoDelete => Accounted(tx'[x])
  BY <1>1, <1>2 DEF Accounted, Own, Adding
<1> QED BY <1>1, <1>2, <1>3, MovePaths DEF At

\* A write or a rebuild that commits adds rows its relations account for; a delete
\* that commits ends the promise.
LEMMA CommitPaths ==
    ASSUME PathsInv, RowsInv', NEW x \in Tx, Commit(x)
    PROVE  PathsInv'
<1> DEFINE q == tx[x]
<1>1. q \in Transaction /\ Sound(q) /\ q.pc = "commit" /\ TypeOK
      /\ (NoDelete => Accounted(q))
  BY Current DEF PathsInv, RowsInv, Commit, At
<1>2. SUFFICES ASSUME NoDelete'
      PROVE  /\ (\A P : Closed(P, relations) => closure \subseteq P)'
             /\ (\A y \in Tx : Accounted(tx[y]))'
  BY DEF PathsInv
<1>3. tx'[x].pc = "done" /\ tx'[x].kind = q.kind /\ tx'[x].edge = q.edge
  BY <1>1, CommitRecords
<1>4. ASSUME NEW y \in Tx \ {x}
      PROVE  /\ tx'[y].pc = tx[y].pc /\ tx'[y].kind = tx[y].kind /\ tx'[y].edge = tx[y].edge
             /\ tx'[y].ins = tx[y].ins /\ tx'[y].relation = tx[y].relation
             /\ tx'[y].rels = tx[y].rels /\ tx'[y].plan \subseteq tx[y].plan
  <2>1. tx[y] \in Transaction
    BY <1>1 DEF TypeOK
  <2>2. CASE tx'[y] = tx[y]
    BY <2>2
  <2>3. CASE tx[y].pc = "wiping" /\ tx'[y] = [tx[y] EXCEPT !.plan = @ \ q.wiped]
    BY <2>1, <2>3, PlanShrinks
  <2> QED BY <1>1, <2>2, <2>3, CommitRecords
<1>5. q.kind \in {"write", "rebuild"}
  <2>1. q.kind # "delete"
    BY <1>2, <1>3 DEF NoDelete, At
  <2> QED BY <1>1, <2>1 DEF Sound, Shape, Transaction
<1>6. NoDelete
  BY <1>1, <1>2, <1>4 DEF NoDelete, At
<1>7. relations' = relations \cup Own(q)
  BY <1>1, <1>5, <1>6 DEF Commit, RelationsSeen, Own, Accounted, Sound, Shape, Transaction
<1>8. \A P : Closed(P, relations') => Closed(P, relations \cup Own(q)) /\ Closed(P, relations)
  BY <1>7 DEF Closed
<1>9. \A P : Closed(P, relations') => closure' \subseteq P
  BY <1>1, <1>5, <1>6, <1>8 DEF PathsInv, Accounted, Commit, RowsSeen
<1>10. ASSUME NEW y \in Tx PROVE Accounted(tx[y])'
  <2>1. CASE y = x
    BY <1>3, <2>1 DEF Accounted
  <2>2. CASE y # x
    <3> DEFINE o == tx[y]
               r == tx'[y]
    <3>1. Accounted(o)
      BY <1>6 DEF PathsInv
    <3>2. /\ r.pc = o.pc /\ r.kind = o.kind /\ r.edge = o.edge /\ r.ins = o.ins
          /\ r.relation = o.relation /\ r.rels = o.rels /\ r.plan \subseteq o.plan
      BY <1>4, <2>2
    <3>3. \A P : Closed(P, relations' \cup Own(o)) => Closed(P, relations \cup Own(o))
      BY <1>7 DEF Closed
    <3>4. relations \subseteq relations' /\ Own(r) = Own(o)
      BY <1>7, <3>2 DEF Own
    <3> HIDE DEF o, r
    <3>5. r.kind \in {"write", "rebuild"} /\ r.pc # "done" =>
            /\ r.rels \subseteq relations'
            /\ r.pc \in Adding \cup {"commit"} /\ r.kind = "write" /\ r.relation = "same" =>
                  r.edge \in relations'
            /\ \A P : Closed(P, relations' \cup Own(r)) =>
                  r.ins \subseteq P /\ (r.pc = "adding" => r.plan \subseteq P)
      BY <3>1, <3>2, <3>3, <3>4 DEF Accounted
    <3> QED BY <3>5 DEF r, Accounted, Closed, Own, Adding, Pairs
  <2> QED BY <2>1, <2>2
<1> QED BY <1>9, <1>10 DEF Closed, Pairs

LEMMA InitPaths == Init => PathsInv
<1> SUFFICES ASSUME Init PROVE PathsInv
  OBVIOUS
<1>1. RowsInv
  BY InitRows
<1>2. ASSUME NEW P, Closed(P, relations) PROVE closure \subseteq P
  <2> DEFINE Q == closure \cap P
  <2>1. IsTransitiveSet(closure) /\ IsTransitiveSet(P) /\ relations \subseteq closure
    BY <1>2 DEF Init, IsLeastClosure, Closed
  <2>2. IsTransitiveSet(Q) /\ relations \subseteq Q /\ Q \in SUBSET closure
    BY <1>2, <2>1 DEF IsTransitiveSet, Closed
  <2>3. closure \subseteq Q
    BY <2>2 DEF Init, IsLeastClosure
  <2> QED BY <2>3
<1>3. \A x \in Tx : tx[x].kind = "none"
  BY DEF Init, Blank
<1> QED BY <1>1, <1>2, <1>3 DEF PathsInv, Accounted

LEMMA NextPaths == PathsInv /\ [Next]_vars => PathsInv'
<1> SUFFICES ASSUME PathsInv, [Next]_vars PROVE PathsInv'
  OBVIOUS
<1>1. RowsInv'
  BY NextRows DEF PathsInv
<1>2. CASE UNCHANGED vars
  BY <1>1, <1>2
     DEF vars, PathsInv, NoDelete, At, Accounted, Closed, Own, Adding, Pairs
<1>3. CASE Next
  <2>1. PICK x \in Tx :
          \/ Start(x) \/ InsertRelation(x) \/ DeleteRelation(x) \/ SelectAffected(x)
          \/ PlanWipe(x) \/ ApplyWipe(x) \/ ReadRelations(x) \/ CountRows(x)
          \/ PlanAdd(x) \/ ApplyAdd(x) \/ NextRound(x) \/ Commit(x) \/ Rollback(x)
    BY <1>3 DEF Next
  <2> QED BY <1>1, <2>1, QuietPaths, PlanAddPaths, ApplyAddPaths, CommitPaths
<1> QED BY <1>2, <1>3

\* Any number of overlapping writes and rebuilds, however many of them fail, leave
\* no row that no path of committed relations accounts for.
THEOREM NoExtraRowsLeft == Spec => []NoExtraRows
<1>1. ASSUME PathsInv PROVE NoExtraRows
  <2> SUFFICES ASSUME Ran("delete") = {}, NEW P \in SUBSET Pairs, relations \subseteq P,
                      IsTransitiveSet(P)
               PROVE  closure \subseteq P
    BY DEF NoExtraRows
  <2>1. NoDelete
    BY DEF Ran, NoDelete
  <2> QED BY <1>1, <2>1 DEF PathsInv, Closed
<1> QED BY InitPaths, NextPaths, <1>1, PTL DEF Spec

-----------------------------------------------------------------------------
(***************************************************************************)
(* RebuildDuringWrite: rebuilds that overlap one another and one write      *)
(* leave the exact closure after every commit, for every number of them and *)
(* every set of nodes.                                                      *)
(*                                                                         *)
(* A write leaves the closure because the rows it inserts are those that    *)
(* join what is above and below its edge.  A rebuild leaves it because it   *)
(* ends with a pass that did not change the number of rows it sees: these   *)
(* rows are then closed under its relations, and whatever it deleted        *)
(* followed from them.                                                      *)
(***************************************************************************)

\* What the statements of the transaction r see when C is committed.
Seen(C, r) == (C \ r.wiped) \cup r.ins

\* The rows that have been inserted of those that join the edge to C.
Joins(C, r) ==
    r.kind = "write" /\ r.pc \in Adding \cup {"commit"} =>
        /\ \A j \in 1..4 : j < r.step \/ r.adding = {} => RowsToAdd(C, r.edge)[j] \subseteq r.ins
        /\ r.pc = "adding" => RowsToAdd(C, r.edge)[r.step] \subseteq r.plan

\* While the number of rows is that of the beginning of the pass, what has been
\* added in the pass was there before.
PassAdds(S, r) ==
    Cardinality(S) = r.count =>
        /\ \A e \in r.rels, j \in 1..4 :
              e \notin r.adding \/ (e = r.current /\ j < r.step) => RowsToAdd(S, e)[j] \subseteq S
        /\ r.pc = "adding" => RowsToAdd(S, r.current)[r.step] \subseteq r.plan

\* A rebuild deletes nothing that does not follow from the relations it reads.
Repairs(C, r) ==
    r.kind = "rebuild" =>
        /\ r.wiped \subseteq C
        /\ r.pc \in Adding \cup {"count", "commit"} =>
              \A P : Closed(P, r.rels) => r.wiped \subseteq P
        /\ r.pc \in Adding => r.count <= Cardinality(Seen(C, r)) /\ PassAdds(Seen(C, r), r)
        /\ r.pc = "commit" => \E Q : Closed(Q, r.rels) /\ Q \subseteq Seen(C, r)

\* No delete has committed, and one write at most.
OneWrite ==
    \A x, y \in Tx : At(x, "done") /\ At(y, "done") /\ tx[x].kind = "write" /\ tx[y].kind = "write"
                        => x = y

Quiet == NoDelete /\ OneWrite

Unwritten == \A x \in Tx : At(x, "done") => tx[x].kind # "write"

ExactInv ==
    /\ PathsInv
    /\ Quiet => /\ Closed(closure, relations)
                /\ \A x \in Tx : Repairs(closure, tx[x])
                /\ Unwritten => \A x \in Tx : Joins(closure, tx[x])

-----------------------------------------------------------------------------
\* The rows of the four INSERTs.
LEMMA FourInserts ==
    ASSUME NEW R, NEW d
    PROVE  /\ RowsToAdd(R, d)[1] = {d}
           /\ RowsToAdd(R, d)[2] = {d[1]} \X Above(R, d[2])
           /\ RowsToAdd(R, d)[3] = Below(R, d[1]) \X {d[2]}
           /\ RowsToAdd(R, d)[4] = Below(R, d[1]) \X Above(R, d[2])
BY DEF RowsToAdd

\* More rows, more rows to add.
LEMMA RowsToAddGrow ==
    ASSUME NEW C, NEW D, C \subseteq D, NEW d, NEW j \in 1..4
    PROVE  RowsToAdd(C, d)[j] \subseteq RowsToAdd(D, d)[j]
<1>1. Above(C, d[2]) \subseteq Above(D, d[2]) /\ Below(C, d[1]) \subseteq Below(D, d[1])
  BY DEF Above, Below
<1>2. j = 1 \/ j = 2 \/ j = 3 \/ j = 4
  OBVIOUS
<1> QED BY <1>1, <1>2, FourInserts

\* Rows that a pass over the edges E does not change hold the closure of E: the
\* pairs that can be prolonged within them contain E and are transitive.
LEMMA SettledRows ==
    ASSUME NEW S \in SUBSET Pairs, NEW E \in SUBSET Link,
           \A e \in E, j \in 1..4 : RowsToAdd(S, e)[j] \subseteq S
    PROVE  \E Q : Closed(Q, E) /\ Q \subseteq S
<1> DEFINE Q == {p \in S : \A n \in Node : <<p[2], n>> \in S => <<p[1], n>> \in S}
<1>1. ASSUME NEW e \in E PROVE e \in Q
  <2>1. e \in S
    <3>1. {e} \subseteq S
      BY FourInserts
    <3> QED BY <3>1
  <2>2. ASSUME NEW n \in Node, <<e[2], n>> \in S PROVE <<e[1], n>> \in S
    <3>1. n \in Above(S, e[2])
      BY <2>2 DEF Above
    <3>2. {e[1]} \X Above(S, e[2]) \subseteq S
      BY FourInserts
    <3> QED BY <3>1, <3>2
  <2> QED BY <2>1, <2>2
<1>2. ASSUME NEW p \in Q, NEW q \in Q, p[2] = q[1] PROVE <<p[1], q[2]>> \in Q
  <2>1. q = <<q[1], q[2]>> /\ q[2] \in Node /\ p[1] \in Node
    BY DEF Pairs
  <2>2. <<p[1], q[2]>> \in S
    BY <1>2, <2>1
  <2>3. ASSUME NEW n \in Node, <<q[2], n>> \in S PROVE <<p[1], n>> \in S
    BY <1>2, <2>3
  <2> HIDE DEF Q
  <2>4. \A n \in Node : <<q[2], n>> \in S => <<p[1], n>> \in S
    BY <2>3
  <2> QED BY <2>2, <2>4 DEF Q
<1>3. Q \in SUBSET Pairs /\ Q \subseteq S /\ E \subseteq Q
  BY <1>1
<1> HIDE DEF Q
<1>4. IsTransitiveSet(Q)
  BY <1>2 DEF IsTransitiveSet
<1> QED BY <1>3, <1>4 DEF Closed

\* Closed rows with the rows that join an edge to them are closed.
LEMMA JoinedRows ==
    ASSUME NEW C, NEW E, Closed(C, E), NEW d \in Link,
           NEW N, N = C \cup UNION {RowsToAdd(C, d)[j] : j \in 1..4}
    PROVE  Closed(N, E \cup {d})
<1> DEFINE B == {d[1]} \cup Below(C, d[1])
           A == {d[2]} \cup Above(C, d[2])
<1>1. d \in Pairs /\ d = <<d[1], d[2]>> /\ d[1] \in Node /\ d[2] \in Node
  BY TransactionAssumption DEF Pairs
<1>2. N = C \cup (B \X A)
  <2>1. UNION {RowsToAdd(C, d)[j] : j \in 1..4} =
          RowsToAdd(C, d)[1] \cup RowsToAdd(C, d)[2] \cup RowsToAdd(C, d)[3] \cup RowsToAdd(C, d)[4]
    BY \A j \in 1..4 : j = 1 \/ j = 2 \/ j = 3 \/ j = 4
  <2>2. B \X A = {d} \cup ({d[1]} \X Above(C, d[2])) \cup (Below(C, d[1]) \X {d[2]})
                     \cup (Below(C, d[1]) \X Above(C, d[2]))
    BY <1>1
  <2> QED BY <2>1, <2>2, FourInserts
<1>3. C \in SUBSET Pairs /\ E \subseteq C /\ IsTransitiveSet(C)
  BY DEF Closed
<1>4. A \subseteq Node /\ B \subseteq Node
  BY <1>1, <1>3 DEF Above, Below, Pairs
<1>5. N \in SUBSET Pairs /\ E \cup {d} \subseteq N
  BY <1>1, <1>2, <1>3, <1>4 DEF Pairs
<1>6. ASSUME NEW m, NEW n \in B, <<m, n>> \in C PROVE m \in B
  <2>1. m \in Below(C, d[1]) \/ <<n, d[1]>> \in C
    BY <1>3, <1>6 DEF Below, Pairs
  <2>2. \A u, v, w : <<u, v>> \in C /\ <<v, w>> \in C => <<u, w>> \in C
    BY <1>3 DEF IsTransitiveSet
  <2>3. <<n, d[1]>> \in C => <<m, d[1]>> \in C
    BY <1>6, <2>2
  <2>4. \A u : <<u, d[1]>> \in C => u \in Below(C, d[1])
    BY DEF Below
  <2> QED BY <2>1, <2>3, <2>4
<1>7. ASSUME NEW m \in A, NEW n, <<m, n>> \in C PROVE n \in A
  <2>1. n \in Above(C, d[2]) \/ <<d[2], m>> \in C
    BY <1>3, <1>7 DEF Above, Pairs
  <2>2. \A u, v, w : <<u, v>> \in C /\ <<v, w>> \in C => <<u, w>> \in C
    BY <1>3 DEF IsTransitiveSet
  <2>3. <<d[2], m>> \in C => <<d[2], n>> \in C
    BY <1>7, <2>2
  <2>4. \A u : <<d[2], u>> \in C => u \in Above(C, d[2])
    BY DEF Above
  <2> QED BY <2>1, <2>3, <2>4
<1> HIDE DEF A, B
<1>8. ASSUME NEW p \in N, NEW q \in N, p[2] = q[1] PROVE <<p[1], q[2]>> \in N
  <2>1. p = <<p[1], p[2]>> /\ q = <<q[1], q[2]>>
    BY <1>5 DEF Pairs
  <2>2. CASE p \in C /\ q \in C
    BY <1>2, <1>3, <1>8, <2>2 DEF IsTransitiveSet
  <2>3. CASE p \in B \X A /\ q \in C
    BY <1>2, <1>7, <1>8, <2>1, <2>3
  <2>4. CASE p \in C /\ q \in B \X A
    BY <1>2, <1>6, <1>8, <2>1, <2>4
  <2>5. CASE p \in B \X A /\ q \in B \X A
    BY <1>2, <2>5
  <2> QED BY <1>2, <2>2, <2>3, <2>4, <2>5
<1>9. IsTransitiveSet(N)
  BY <1>8 DEF IsTransitiveSet
<1> QED BY <1>5, <1>9 DEF Closed

\* More committed rows do not disturb a rebuild: a pass that sees more than before
\* is not the last one.
LEMMA PassGrows ==
    ASSUME NEW C, NEW D \in SUBSET Pairs, C \subseteq D, NEW r \in Transaction, Repairs(C, r)
    PROVE  Repairs(D, r)
<1> DEFINE S == Seen(C, r)
           U == Seen(D, r)
<1>1. S \subseteq U /\ U \in SUBSET Pairs
  BY Fields DEF Seen
<1> HIDE DEF S, U
<1>2. IsFiniteSet(U) /\ Cardinality(U) \in Nat
  BY <1>1, RowsFinite
<1>3. /\ Cardinality(S) \in Nat /\ Cardinality(S) <= Cardinality(U)
      /\ Cardinality(U) = Cardinality(S) => U = S
  BY <1>1, <1>2, RowsFinite, FS_Subset
<1>4. r.count \in Nat
  BY DEF Transaction
<1>5. r.count <= Cardinality(S) /\ PassAdds(S, r) => r.count <= Cardinality(U) /\ PassAdds(U, r)
  <2>1. SUFFICES ASSUME r.count <= Cardinality(S), PassAdds(S, r)
                 PROVE  r.count <= Cardinality(U) /\ (Cardinality(U) = r.count => PassAdds(U, r))
    BY DEF PassAdds
  <2>2. Cardinality(U) = r.count => U = S
    BY <1>2, <1>3, <1>4, <2>1
  <2> QED BY <1>2, <1>3, <1>4, <2>1, <2>2
<1> QED BY <1>1, <1>5 DEF Repairs, S, U

-----------------------------------------------------------------------------
\* A transaction that moves on, without a commit.
LEMMA MoveExact ==
    ASSUME ExactInv, PathsInv', NEW x \in Tx, Unchanged, ~At(x, "done"),
           \A y \in Tx \ {x} : tx'[y] = tx[y],
           Quiet => Repairs(closure, tx'[x]),
           Quiet /\ Unwritten => Joins(closure, tx'[x])
    PROVE  ExactInv'
<1>1. closure' = closure /\ relations' = relations
  BY DEF Unchanged
<1>2. (Quiet' => Quiet) /\ (Unwritten' => Unwritten)
  BY DEF Quiet, NoDelete, OneWrite, Unwritten, At
<1>3. Quiet => /\ Closed(closure, relations)
               /\ \A y \in Tx : Repairs(closure, tx'[y])
               /\ Unwritten => \A y \in Tx : Joins(closure, tx'[y])
  BY DEF ExactInv
<1>4. Quiet' => /\ Closed(closure', relations')
                /\ \A y \in Tx : Repairs(closure', tx'[y])
                /\ Unwritten' => \A y \in Tx : Joins(closure', tx'[y])
  BY <1>1, <1>2, <1>3
<1> QED BY <1>4 DEF ExactInv, Closed, Repairs, Joins, PassAdds, Seen, Pairs

\* Before its first INSERT a transaction deletes at most committed rows, and what
\* it reads are the committed relations.
LEMMA EarlyExact ==
    ASSUME ExactInv, PathsInv', NEW x \in Tx,
           \/ Start(x) \/ InsertRelation(x) \/ DeleteRelation(x) \/ SelectAffected(x)
           \/ PlanWipe(x) \/ ApplyWipe(x) \/ ReadRelations(x)
           \/ Rollback(x)
    PROVE  ExactInv'
<1> DEFINE q == tx[x]
<1>1. q \in Transaction /\ Sound(q) /\ tx \in [Tx -> Transaction]
      /\ (Quiet => Repairs(closure, q))
  BY Current DEF ExactInv, PathsInv, RowsInv, TypeOK
<1>2. CASE Start(x) \/ Rollback(x)
  <2>1. ASSUME Start(x)
        PROVE  tx'[x].pc \notin Adding \cup {"count", "commit"} /\ tx'[x].wiped = {}
    <3>1. q.wiped = {}
      BY <1>1, <2>1 DEF Start, At, Sound, Shape, Locked
    <3>2. ASSUME NEW k, NEW d,
                 tx' = [tx EXCEPT ![x].kind = k, ![x].edge = d, ![x].pc = "relation"]
          PROVE  tx'[x].pc = "relation" /\ tx'[x].wiped = {}
      BY <1>1, <3>1, <3>2 DEF Transaction
    <3>3. ASSUME tx' = [tx EXCEPT ![x].kind = "rebuild", ![x].pc = "wipe"]
          PROVE  tx'[x].pc = "wipe" /\ tx'[x].wiped = {}
      BY <1>1, <3>1, <3>3 DEF Transaction
    <3> QED BY <2>1, <3>2, <3>3 DEF Start, Adding
  <2>2. ASSUME Rollback(x) PROVE tx'[x].kind = "none"
    BY <1>1, <2>2 DEF Rollback, Blank
  <2>3. Unchanged /\ ~At(x, "done") /\ \A y \in Tx \ {x} : tx'[y] = tx[y]
    BY <1>1, <1>2 DEF Start, Rollback, At
  <2>4. Repairs(closure, tx'[x]) /\ Joins(closure, tx'[x])
    BY <1>2, <2>1, <2>2 DEF Repairs, Joins, Adding
  <2> QED BY <2>3, <2>4, MoveExact
<1>3. CASE InsertRelation(x)
  <2>1. /\ tx'[x].kind = "write" /\ tx'[x].pc = "add" /\ tx'[x].adding = {q.edge}
        /\ tx'[x].step = q.step
        /\ Unchanged /\ q.pc = "relation"
        /\ \A y \in Tx \ {x} : tx'[y] = tx[y]
    BY <1>1, <1>3 DEF InsertRelation, Transaction, At
  <2>2. q.step = 1
    BY <1>1, <2>1 DEF Sound, Shape, Adding
  <2>3. Repairs(closure, tx'[x]) /\ Joins(closure, tx'[x])
    BY <2>1, <2>2 DEF Repairs, Joins
  <2> QED BY <2>1, <2>3, MoveExact DEF At
<1>4. CASE DeleteRelation(x) \/ SelectAffected(x)
  <2>1. /\ tx'[x].kind = q.kind /\ q.pc \in {"relation", "select"}
        /\ (q.pc = "relation" => q.kind = "delete")
        /\ Unchanged
        /\ \A y \in Tx \ {x} : tx'[y] = tx[y]
    BY <1>1, <1>4 DEF DeleteRelation, SelectAffected, Transaction, At
  <2>2. q.kind = "delete"
    BY <1>1, <2>1 DEF Sound, Shape, ShapeOfWrite
  <2>3. Repairs(closure, tx'[x]) /\ Joins(closure, tx'[x])
    BY <2>1, <2>2 DEF Repairs, Joins
  <2> QED BY <2>1, <2>3, MoveExact DEF At
<1>5. CASE PlanWipe(x) \/ ApplyWipe(x)
  <2>1. Unchanged /\ q.pc \in {"wipe", "wiping"}
    BY <1>5 DEF PlanWipe, ApplyWipe, At
  <2>2. ASSUME PlanWipe(x), q.kind = "rebuild"
        PROVE  /\ tx'[x].kind = q.kind /\ tx'[x].pc = "wiping" /\ tx'[x].wiped = q.wiped
               /\ \A y \in Tx \ {x} : tx'[y] = tx[y]
    <3> DEFINE W == RowsSeen(x)
    <3>1. tx' = [tx EXCEPT ![x].plan = W, ![x].pc = "wiping"]
      BY <2>2 DEF PlanWipe
    <3> HIDE DEF W
    <3> QED BY <1>1, <3>1 DEF Transaction
  <2>3. ASSUME PlanWipe(x), q.kind # "rebuild"
        PROVE  tx'[x].kind = "delete" /\ \A y \in Tx \ {x} : tx'[y] = tx[y]
    <3>1. PICK n \in FirstOf(x) :
            tx' = [tx EXCEPT ![x].plan = {p \in RowsSeen(x) : p[1] = n},
                             ![x].todo = @ \ {n},
                             ![x].pc = "wiping"]
      BY <2>3 DEF PlanWipe
    <3> DEFINE W == {p \in RowsSeen(x) : p[1] = n}
               t == q.todo \ {n}
    <3>2. tx' = [tx EXCEPT ![x].plan = W, ![x].todo = t, ![x].pc = "wiping"]
      BY <3>1
    <3> HIDE DEF W, t
    <3>3. q.kind = "delete"
      BY <2>3 DEF PlanWipe
    <3> QED BY <1>1, <3>2, <3>3 DEF Transaction
  <2>4. ASSUME ApplyWipe(x)
        PROVE  /\ tx'[x].kind = q.kind /\ tx'[x].pc \in {"read", "wipe"}
               /\ tx'[x].wiped \subseteq q.wiped \cup closure
               /\ \A y \in Tx \ {x} : tx'[y] = tx[y]
    BY <1>1, <2>4 DEF ApplyWipe, Transaction
  <2>5. Quiet => Repairs(closure, tx'[x])
    BY <1>1, <1>5, <2>2, <2>3, <2>4 DEF Repairs, Adding
  <2>6. Joins(closure, tx'[x])
    BY <1>5, <2>2, <2>3, <2>4 DEF Joins, Adding
  <2> QED BY <1>5, <2>1, <2>2, <2>3, <2>4, <2>5, <2>6, MoveExact DEF At
<1>6. CASE ReadRelations(x)
  <2>1. Unchanged /\ q.pc = "read"
    BY <1>6 DEF ReadRelations, At
  <2>2. ASSUME q.kind = "rebuild"
        PROVE  /\ tx'[x].kind = q.kind /\ tx'[x].pc = "count" /\ tx'[x].wiped = q.wiped
               /\ tx'[x].rels = relations
               /\ \A y \in Tx \ {x} : tx'[y] = tx[y]
    <3>1. RelationsSeen(x) = relations
      BY <1>1, <2>2 DEF Sound, Shape, RelationsSeen
    <3>2. tx' = [tx EXCEPT ![x].rels = relations, ![x].pc = "count"]
      BY <1>6, <2>2, <3>1 DEF ReadRelations
    <3> QED BY <1>1, <3>2 DEF Transaction
  <2>3. ASSUME q.kind # "rebuild"
        PROVE  tx'[x].kind = "delete" /\ \A y \in Tx \ {x} : tx'[y] = tx[y]
    <3>1. PICK n \in FirstOf(x) :
            tx' = [tx EXCEPT ![x].adding = {r \in RelationsSeen(x) : r[1] = n} \ {q.edge},
                             ![x].todo = @ \ {n},
                             ![x].pc = "add"]
      BY <1>6, <2>3 DEF ReadRelations
    <3> DEFINE W == {r \in RelationsSeen(x) : r[1] = n} \ {q.edge}
               t == q.todo \ {n}
    <3>2. tx' = [tx EXCEPT ![x].adding = W, ![x].todo = t, ![x].pc = "add"]
      BY <3>1
    <3> HIDE DEF W, t
    <3>3. q.kind = "delete"
      BY <1>6, <2>3 DEF ReadRelations
    <3> QED BY <1>1, <3>2, <3>3 DEF Transaction
  <2>4. Quiet => Repairs(closure, tx'[x])
    <3>1. Quiet /\ q.kind = "rebuild" => \A P : Closed(P, relations) => q.wiped \subseteq P
      BY <1>1 DEF Repairs, Quiet, ExactInv, PathsInv
    <3> QED BY <1>1, <2>2, <2>3, <3>1 DEF Repairs, Adding
  <2>5. Joins(closure, tx'[x])
    BY <1>1, <2>2, <2>3 DEF Joins
  <2> QED BY <2>1, <2>2, <2>3, <2>4, <2>5, MoveExact DEF At
<1> QED BY <1>2, <1>3, <1>4, <1>5, <1>6

\* A pass begins with all edges still to be added, and is the last one when the
\* number of rows is the same at its end.
LEMMA PassExact ==
    ASSUME ExactInv, PathsInv', NEW x \in Tx, CountRows(x) \/ NextRound(x)
    PROVE  ExactInv'
<1> DEFINE q == tx[x]
           S == RowsSeen(x)
<1>1. q \in Transaction /\ Sound(q) /\ tx \in [Tx -> Transaction]
      /\ (Quiet => Repairs(closure, q)) /\ (Quiet /\ Unwritten => Joins(closure, q))
      /\ S = Seen(closure, q)
  BY Current DEF ExactInv, PathsInv, RowsInv, TypeOK, Seen, RowsSeen
<1>2. S \in SUBSET Pairs /\ Cardinality(S) \in Nat
  BY SeenType, RowsFinite DEF ExactInv, PathsInv, RowsInv
<1> HIDE DEF S
<1>3. CASE CountRows(x)
  <2>1. /\ tx'[x].kind = q.kind /\ tx'[x].pc = "add" /\ tx'[x].wiped = q.wiped
        /\ tx'[x].ins = q.ins /\ tx'[x].rels = q.rels /\ tx'[x].adding = q.rels
        /\ tx'[x].step = q.step /\ tx'[x].count = Cardinality(S)
        /\ Unchanged /\ q.pc = "count"
        /\ \A y \in Tx \ {x} : tx'[y] = tx[y]
    BY <1>1, <1>3 DEF CountRows, Transaction, At, S
  <2>2. q.step = 1 /\ q.kind # "write"
    BY <1>1, <2>1 DEF Sound, Shape, ShapeOfWrite, Adding
  <2>3. Seen(closure, tx'[x]) = S
    BY <1>1, <2>1 DEF Seen
  <2>4. PassAdds(S, tx'[x])
    BY <2>1, <2>2 DEF PassAdds
  <2>5. Quiet => Repairs(closure, tx'[x])
    BY <1>1, <1>2, <2>1, <2>3, <2>4 DEF Repairs, Adding
  <2>6. Joins(closure, tx'[x])
    BY <2>1, <2>2 DEF Joins
  <2> QED BY <2>1, <2>5, <2>6, MoveExact DEF At
<1>4. CASE NextRound(x)
  <2>1. /\ tx'[x].kind = q.kind /\ tx'[x].wiped = q.wiped /\ tx'[x].edge = q.edge
        /\ tx'[x].ins = q.ins /\ tx'[x].rels = q.rels /\ tx'[x].adding = q.adding
        /\ tx'[x].step = q.step
        /\ tx'[x].pc \in {"read", "count", "commit"}
        /\ tx'[x].pc = "commit" /\ q.kind = "rebuild" => Cardinality(S) = q.count
        /\ Unchanged /\ q.pc = "add" /\ q.adding = {}
        /\ \A y \in Tx \ {x} : tx'[y] = tx[y]
    BY <1>1, <1>4 DEF NextRound, Transaction, At, S
  <2>2. Seen(closure, tx'[x]) = S
    BY <1>1, <2>1 DEF Seen
  <2>3. ASSUME Quiet, q.kind = "rebuild", tx'[x].pc = "commit"
        PROVE  \E Q : Closed(Q, q.rels) /\ Q \subseteq S
    <3>1. PassAdds(S, q)
      BY <1>1, <2>1, <2>3 DEF Repairs, Adding
    <3>2. \A e \in q.rels, j \in 1..4 : RowsToAdd(S, e)[j] \subseteq S
      BY <2>1, <2>3, <3>1 DEF PassAdds
    <3>3. q.rels \subseteq Link
      BY <1>1, Fields
    <3> HIDE DEF q
    <3> QED BY <1>2, <3>2, <3>3, SettledRows
  <2>4. Quiet => Repairs(closure, tx'[x])
    BY <1>1, <2>1, <2>2, <2>3 DEF Repairs, Adding
  <2>5. Quiet /\ Unwritten => Joins(closure, tx'[x])
    BY <1>1, <2>1 DEF Joins, Adding
  <2> QED BY <2>1, <2>4, <2>5, MoveExact DEF At
<1> QED BY <1>3, <1>4

\* A statement computes what the edge adds to the rows it sees, at least what it
\* adds to the committed ones.
LEMMA PlanAddExact ==
    ASSUME ExactInv, PathsInv', NEW x \in Tx, PlanAdd(x)
    PROVE  ExactInv'
<1> DEFINE q == tx[x]
           S == RowsSeen(x)
           E == IF q.step = 1 THEN q.adding ELSE {q.current}
<1>1. q \in Transaction /\ Sound(q) /\ tx \in [Tx -> Transaction]
      /\ (Quiet => Repairs(closure, q)) /\ (Quiet /\ Unwritten => Joins(closure, q))
      /\ S = Seen(closure, q) /\ q.pc = "add" /\ q.adding # {} /\ Unchanged
  BY Current DEF ExactInv, PathsInv, RowsInv, TypeOK, Seen, RowsSeen, PlanAdd, At
<1>2. PICK e \in E : tx' = [tx EXCEPT ![x].current = e,
                                      ![x].plan = RowsToAdd(RowsSeen(x), e)[q.step],
                                      ![x].pc = "adding"]
  BY DEF PlanAdd
<1> DEFINE W == RowsToAdd(S, e)[q.step]
<1> HIDE DEF S
<1>3. /\ tx'[x].rels = q.rels /\ tx'[x].ins = q.ins /\ tx'[x].wiped = q.wiped
      /\ tx'[x].pc = "adding" /\ tx'[x].adding = q.adding /\ tx'[x].step = q.step
      /\ tx'[x].edge = q.edge /\ tx'[x].kind = q.kind /\ tx'[x].count = q.count
      /\ tx'[x].current = e /\ tx'[x].plan = W
      /\ \A y \in Tx \ {x} : tx'[y] = tx[y]
  <2> HIDE DEF W
  <2>1. tx' = [tx EXCEPT ![x].current = e, ![x].plan = W, ![x].pc = "adding"]
    BY <1>2 DEF W, S
  <2> QED BY <1>1, <2>1 DEF Transaction
<1>4. e \in q.adding /\ q.step \in 1..4 /\ (q.step # 1 => e = q.current)
  BY <1>1, Fields DEF Sound, Shape
<1>5. Quiet => Repairs(closure, tx'[x])
  <2>1. Seen(closure, tx'[x]) = S
    BY <1>1, <1>3 DEF Seen
  <2>2. PassAdds(S, q) => PassAdds(S, tx'[x])
    <3> HIDE DEF W
    <3>1. SUFFICES ASSUME Cardinality(S) = q.count, PassAdds(S, q)
                   PROVE  /\ \A d \in q.rels, j \in 1..4 :
                                d \notin q.adding \/ (d = e /\ j < q.step) =>
                                    RowsToAdd(S, d)[j] \subseteq S
                          /\ RowsToAdd(S, e)[q.step] \subseteq W
      BY <1>3 DEF PassAdds
    <3>2. RowsToAdd(S, e)[q.step] \subseteq W
      BY DEF W
    <3>3. ASSUME NEW d \in q.rels, NEW j \in 1..4, d \notin q.adding \/ (d = e /\ j < q.step)
          PROVE  RowsToAdd(S, d)[j] \subseteq S
      <4>1. d \notin q.adding \/ (d = q.current /\ j < q.step)
        BY <1>4, <3>3
      <4> QED BY <3>1, <4>1 DEF PassAdds
    <3> QED BY <3>2, <3>3
  <2> QED BY <1>1, <1>3, <2>1, <2>2 DEF Repairs, Adding
<1>6. Quiet /\ Unwritten => Joins(closure, tx'[x])
  <2>1. SUFFICES ASSUME Quiet, Unwritten, q.kind = "write" PROVE Joins(closure, tx'[x])
    BY <1>3 DEF Joins
  <2>2. e = q.edge /\ q.wiped = {}
    BY <1>1, <1>4, <2>1 DEF Sound, ShapeOfWrite
  <2>3. closure \subseteq S
    BY <1>1, <2>2 DEF Seen
  <2>4. RowsToAdd(closure, q.edge)[q.step] \subseteq W
    BY <1>4, <2>2, <2>3, RowsToAddGrow
  <2> HIDE DEF W
  <2>5. Joins(closure, q)
    BY <1>1, <2>1
  <2> QED BY <1>1, <1>3, <2>1, <2>4, <2>5 DEF Joins, Adding
<1> QED BY <1>1, <1>3, <1>5, <1>6, MoveExact DEF At

\* A rebuild whose statement inserts a row it did not see has another pass to come.
LEMMA ApplyAddExact ==
    ASSUME ExactInv, PathsInv', NEW x \in Tx, ApplyAdd(x)
    PROVE  ExactInv'
<1> DEFINE q == tx[x]
           S == RowsSeen(x)
           U == S \cup q.plan
           last == q.step = 4
<1>1. q \in Transaction /\ Sound(q) /\ tx \in [Tx -> Transaction]
      /\ (Quiet => Repairs(closure, q)) /\ (Quiet /\ Unwritten => Joins(closure, q))
      /\ S = Seen(closure, q) /\ q.pc = "adding" /\ Unchanged
  BY Current DEF ExactInv, PathsInv, RowsInv, TypeOK, Seen, RowsSeen, ApplyAdd, At
<1>2. /\ tx'[x].rels = q.rels /\ tx'[x].ins = q.ins \cup q.plan /\ tx'[x].wiped = q.wiped
      /\ tx'[x].pc = "add" /\ tx'[x].edge = q.edge /\ tx'[x].kind = q.kind
      /\ tx'[x].count = q.count
      /\ tx'[x].step = (IF last THEN 1 ELSE q.step + 1)
      /\ tx'[x].adding = (IF last THEN q.adding \ {q.current} ELSE q.adding)
      /\ tx'[x].current = (IF last THEN NoEdge ELSE q.current)
      /\ \A y \in Tx \ {x} : tx'[y] = tx[y]
  BY <1>1 DEF ApplyAdd, Transaction
<1>3. S \subseteq U /\ U \in SUBSET Pairs
  BY <1>1, SeenType, Fields DEF ExactInv, PathsInv, RowsInv
<1>4. IsFiniteSet(U) /\ Cardinality(U) \in Nat
  BY <1>3, RowsFinite
<1>5. /\ Cardinality(S) \in Nat /\ Cardinality(S) <= Cardinality(U)
      /\ Cardinality(U) = Cardinality(S) => U = S
  BY <1>3, <1>4, RowsFinite, FS_Subset
<1>6. q.count \in Nat /\ q.step \in 1..4 /\ q.current \in q.adding
  BY <1>1 DEF Transaction, Sound, Shape
<1>7. Seen(closure, tx'[x]) = U
  BY <1>1, <1>2 DEF Seen
<1> HIDE DEF S, U
<1>8. ASSUME NEW d, NEW j \in 1..4,
             d \notin tx'[x].adding \/ (d = tx'[x].current /\ j < tx'[x].step)
      PROVE  \/ d \notin q.adding \/ (d = q.current /\ j < q.step)
             \/ d = q.current /\ j = q.step
  <2>1. CASE last
    BY <1>2, <1>6, <1>8, <2>1
  <2>2. CASE ~last
    BY <1>2, <1>6, <1>8, <2>2
  <2> QED BY <2>1, <2>2
<1>9. Quiet => Repairs(closure, tx'[x])
  <2>1. SUFFICES ASSUME Quiet, q.kind = "rebuild"
                 PROVE  /\ q.count <= Cardinality(U)
                        /\ Cardinality(U) = q.count =>
                             \A d \in q.rels, j \in 1..4 :
                                d \notin tx'[x].adding \/ (d = tx'[x].current /\ j < tx'[x].step)
                                  => RowsToAdd(U, d)[j] \subseteq U
    BY <1>1, <1>2, <1>7 DEF Repairs, PassAdds, Adding
  <2>2. q.count <= Cardinality(S) /\ PassAdds(S, q)
    BY <1>1, <2>1 DEF Repairs, Adding
  <2>3. q.count <= Cardinality(U)
    BY <1>4, <1>5, <1>6, <2>2
  <2>4. ASSUME Cardinality(U) = q.count, NEW d \in q.rels, NEW j \in 1..4,
               d \notin tx'[x].adding \/ (d = tx'[x].current /\ j < tx'[x].step)
        PROVE  RowsToAdd(U, d)[j] \subseteq U
    <3>1. U = S /\ Cardinality(S) = q.count
      BY <1>4, <1>5, <1>6, <2>2, <2>4
    <3>2. q.plan \subseteq U
      BY DEF U
    <3>3. CASE d \notin q.adding \/ (d = q.current /\ j < q.step)
      BY <2>2, <3>1, <3>3 DEF PassAdds
    <3>4. CASE d = q.current /\ j = q.step
      BY <1>1, <2>2, <3>1, <3>2, <3>4 DEF PassAdds
    <3> QED BY <1>8, <2>4, <3>3, <3>4
  <2> QED BY <2>3, <2>4
<1>10. Quiet /\ Unwritten => Joins(closure, tx'[x])
  <2>1. SUFFICES ASSUME Quiet, Unwritten, q.kind = "write", NEW j \in 1..4,
                        j < tx'[x].step \/ tx'[x].adding = {}
                 PROVE  RowsToAdd(closure, q.edge)[j] \subseteq q.ins \cup q.plan
    BY <1>2 DEF Joins
  <2>2. Joins(closure, q)
    BY <1>1, <2>1
  <2>3. j < q.step \/ j = q.step
    <3>1. CASE last
      BY <1>2, <1>6, <2>1, <3>1
    <3>2. CASE ~last
      BY <1>2, <1>6, <2>1, <3>2
    <3> QED BY <3>1, <3>2
  <2> QED BY <1>1, <2>1, <2>2, <2>3 DEF Joins, Adding
<1> QED BY <1>1, <1>2, <1>9, <1>10, MoveExact DEF At

\* What a rebuild sees at its end is what is committed.
LEMMA RebuildCommits ==
    ASSUME ExactInv, Quiet, NEW x \in Tx, At(x, "commit"), tx[x].kind = "rebuild"
    PROVE  RowsSeen(x) = closure
<1> DEFINE q == tx[x]
<1>1. q.pc = "commit" /\ Closed(closure, relations) /\ Accounted(q) /\ Repairs(closure, q)
  BY DEF ExactInv, PathsInv, Quiet, At
<1>2. q.ins \subseteq closure
  BY <1>1 DEF Accounted, Own, Closed
<1>3. PICK Q : Closed(Q, q.rels) /\ Q \subseteq RowsSeen(x)
  BY <1>1 DEF Repairs, Seen, RowsSeen
<1>4. q.wiped \subseteq Q
  BY <1>1, <1>3 DEF Repairs
<1> QED BY <1>2, <1>3, <1>4 DEF RowsSeen

\* What the first write sees at its end is closed under the old relations and its own.
LEMMA WriteCommits ==
    ASSUME ExactInv, Quiet, Unwritten, NEW x \in Tx, At(x, "commit"), tx[x].kind = "write"
    PROVE  Closed(RowsSeen(x), relations \cup {tx[x].edge}) /\ closure \subseteq RowsSeen(x)
<1> DEFINE q == tx[x]
           N == closure \cup UNION {RowsToAdd(closure, q.edge)[j] : j \in 1..4}
<1>1. /\ q.pc = "commit" /\ Closed(closure, relations) /\ Accounted(q) /\ Joins(closure, q)
      /\ q \in Transaction /\ Sound(q)
  BY Current DEF ExactInv, PathsInv, Quiet, At
<1>2. q.edge \in Link /\ q.adding = {} /\ q.wiped = {}
  BY <1>1 DEF Sound, Shape, ShapeOfWrite, Adding
<1>3. Closed(N, relations \cup {q.edge})
  BY <1>1, <1>2, JoinedRows
<1>4. N \subseteq closure \cup q.ins
  <2>1. \A j \in 1..4 : RowsToAdd(closure, q.edge)[j] \subseteq q.ins
    BY <1>1, <1>2 DEF Joins
  <2> QED BY <2>1
<1> HIDE DEF N
<1>5. q.ins \subseteq N
  BY <1>1, <1>3 DEF Accounted, Own
<1>6. closure \subseteq N
  BY DEF N
<1>7. RowsSeen(x) = N
  BY <1>2, <1>4, <1>5, <1>6 DEF RowsSeen
<1> QED BY <1>3, <1>6, <1>7

LEMMA CommitExact ==
    ASSUME ExactInv, PathsInv', NEW x \in Tx, Commit(x)
    PROVE  ExactInv'
<1> DEFINE q == tx[x]
<1>1. q \in Transaction /\ Sound(q) /\ q.pc = "commit" /\ At(x, "commit") /\ TypeOK
  BY Current DEF ExactInv, PathsInv, RowsInv, Commit, At
<1>2. tx'[x].pc = "done" /\ tx'[x].kind = q.kind /\ tx'[x].wiped = {}
  BY <1>1, CommitRecords
<1>3. ASSUME NEW y \in Tx \ {x}
      PROVE  /\ tx'[y].pc = tx[y].pc /\ tx'[y].kind = tx[y].kind
             /\ \A C : Repairs(C, tx[y]) => Repairs(C, tx'[y])
             /\ \A C : Joins(C, tx[y]) => Joins(C, tx'[y])
  <2>1. CASE tx'[y] = tx[y]
    BY <2>1
  <2>2. CASE tx[y].pc = "wiping" /\ tx'[y] = [tx[y] EXCEPT !.plan = @ \ q.wiped]
    <3>1. /\ tx'[y].pc = "wiping" /\ tx'[y].kind = tx[y].kind /\ tx'[y].wiped = tx[y].wiped
      BY <1>1, <2>2, PlanShrinks DEF TypeOK
    <3> QED BY <2>2, <3>1 DEF Repairs, Joins, Adding
  <2> QED BY <1>1, <2>1, <2>2, CommitRecords
<1>4. SUFFICES ASSUME Quiet'
      PROVE  /\ Closed(closure', relations')
             /\ \A y \in Tx : Repairs(closure', tx'[y])
             /\ Unwritten' => \A y \in Tx : Joins(closure', tx'[y])
  BY DEF ExactInv, Closed, Repairs, Joins, PassAdds, Seen, Pairs
<1>5. Quiet /\ q.kind # "delete" /\ (q.kind = "write" => Unwritten)
  BY <1>1, <1>2, <1>3, <1>4 DEF Quiet, NoDelete, OneWrite, Unwritten, At
<1>6. /\ Closed(closure, relations) /\ NoDelete /\ Accounted(q)
      /\ \A y \in Tx : Repairs(closure, tx[y])
      /\ Unwritten => \A y \in Tx : Joins(closure, tx[y])
  BY <1>5 DEF ExactInv, PathsInv, Quiet
<1>7. closure' = RowsSeen(x) /\ relations' = RelationsSeen(x)
  BY DEF Commit
<1>8. Repairs(closure', tx'[x]) /\ Joins(closure', tx'[x])
  BY <1>2 DEF Repairs, Joins, Adding
<1>9. CASE q.kind = "rebuild"
  <2>1. closure' = closure /\ relations' = relations
    BY <1>1, <1>5, <1>7, <1>9, RebuildCommits DEF RelationsSeen, Sound, Shape
  <2>2. Unwritten' => Unwritten
    BY <1>1, <1>3 DEF Unwritten, At
  <2> QED BY <1>3, <1>6, <1>8, <2>1, <2>2
<1>10. CASE q.kind = "write"
  <2>1. Closed(RowsSeen(x), relations \cup {q.edge}) /\ closure \subseteq closure'
    BY <1>1, <1>5, <1>7, <1>10, WriteCommits
  <2>2. relations' = relations \cup {q.edge}
    BY <1>1, <1>6, <1>7, <1>10 DEF RelationsSeen, Accounted, Sound, Shape, Transaction
  <2>3. ~Unwritten'
    BY <1>2, <1>10 DEF Unwritten, At
  <2>4. closure' \in SUBSET Pairs
    BY <1>7, <2>1 DEF Closed
  <2>5. ASSUME NEW y \in Tx \ {x} PROVE Repairs(closure', tx'[y])
    BY <1>1, <1>3, <1>6, <2>1, <2>4, PassGrows DEF TypeOK
  <2> QED BY <1>7, <1>8, <2>1, <2>2, <2>3, <2>5
<1> QED BY <1>1, <1>5, <1>9, <1>10 DEF Sound, Shape, Transaction

-----------------------------------------------------------------------------
LEMMA InitExact == Init => ExactInv
<1> SUFFICES ASSUME Init PROVE ExactInv
  OBVIOUS
<1>1. PathsInv
  BY InitPaths
<1>2. Closed(closure, relations)
  BY DEF Init, Closed, IsLeastClosure, Pairs
<1>3. \A x \in Tx : tx[x].kind = "none"
  BY DEF Init, Blank
<1> QED BY <1>1, <1>2, <1>3 DEF ExactInv, Repairs, Joins

LEMMA NextExact == ExactInv /\ [Next]_vars => ExactInv'
<1> SUFFICES ASSUME ExactInv, [Next]_vars PROVE ExactInv'
  OBVIOUS
<1>1. PathsInv'
  BY NextPaths DEF ExactInv
<1>2. CASE UNCHANGED vars
  <2>1. closure' = closure /\ relations' = relations /\ tx' = tx
    BY <1>2 DEF vars
  <2>2. (Quiet' => Quiet) /\ (Unwritten' => Unwritten)
    BY <2>1 DEF Quiet, NoDelete, OneWrite, Unwritten, At
  <2>3. Quiet' => /\ Closed(closure', relations')
                  /\ \A x \in Tx : Repairs(closure', tx'[x])
                  /\ Unwritten' => \A x \in Tx : Joins(closure', tx'[x])
    BY <2>1, <2>2 DEF ExactInv
  <2> QED BY <1>1, <2>3 DEF ExactInv, Closed, Repairs, Joins, PassAdds, Seen, Pairs
<1>3. CASE Next
  <2>1. PICK x \in Tx :
          \/ Start(x) \/ InsertRelation(x) \/ DeleteRelation(x) \/ SelectAffected(x)
          \/ PlanWipe(x) \/ ApplyWipe(x) \/ ReadRelations(x) \/ CountRows(x)
          \/ PlanAdd(x) \/ ApplyAdd(x) \/ NextRound(x) \/ Commit(x) \/ Rollback(x)
    BY <1>3 DEF Next
  <2> QED BY <1>1, <2>1, EarlyExact, PassExact, PlanAddExact, ApplyAddExact, CommitExact
<1> QED BY <1>2, <1>3

\* Any number of rebuilds may overlap one write at any point, be rolled back and
\* wait for one another: after every commit the table is the closure of the
\* relations.
THEOREM RebuildExactDuringWrite == Spec => []RebuildDuringWrite
<1>1. ASSUME ExactInv PROVE RebuildDuringWrite
  <2> SUFFICES ASSUME Ran("delete") = {}, \A x, y \in Ran("write") : x = y
               PROVE  IsLeastClosure(closure, relations)
    BY DEF RebuildDuringWrite
  <2>1. Quiet
    BY DEF Ran, Quiet, NoDelete, OneWrite
  <2>2. Closed(closure, relations) /\ \A P : Closed(P, relations) => closure \subseteq P
    BY <1>1, <2>1 DEF ExactInv, PathsInv, Quiet
  <2> QED BY <2>2 DEF Closed, IsLeastClosure
<1> QED BY InitExact, NextExact, <1>1, PTL DEF Spec
===============================================================================
