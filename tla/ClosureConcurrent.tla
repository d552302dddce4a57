-------------------------- MODULE ClosureConcurrent --------------------------
(***************************************************************************)
(* Transactions of the write methods that run at the same time, on several  *)
(* servers or in the admin command, at PostgreSQL's READ COMMITTED level:   *)
(* BeginTx is called without options and nothing else is locked.            *)
(*                                                                         *)
(* A statement on entity_closure is two steps.  The first takes its         *)
(* snapshot, the committed rows with the transaction's own changes, and     *)
(* computes its rows; the second changes them, as soon as no other          *)
(* transaction holds one of them, whatever was committed in between.        *)
(* Transactions that block each other are rolled back.                      *)
(*                                                                         *)
(* All relations here are tracked ones, one per pair of nodes, and depths   *)
(* are left out: what a serial run does with the rest is in ClosureTable.   *)
(***************************************************************************)
EXTENDS ClosureOps, FiniteSets

CONSTANTS
    Node,       \* entities and subjects
    Link,       \* the pairs of nodes a relation may join
    Tx,         \* transactions, each of which runs once
    WriteSet,   \* WriteSet[x]: the relations transaction x may write
    DeleteSet,  \* DeleteSet[x]: the relations transaction x may delete
    Rebuilder,  \* the transactions that may be a RebuildClosure
    NoEdge

ASSUME TransactionAssumption ==
    /\ IsFiniteSet(Node)
    /\ Link \subseteq Node \X Node
    /\ WriteSet \in [Tx -> SUBSET Link]
    /\ DeleteSet \in [Tx -> SUBSET Link]
    /\ Rebuilder \subseteq Tx
    /\ NoEdge \notin Link

VARIABLES
    relations,  \* committed relations
    closure,    \* committed rows of entity_closure
    tx          \* the transactions

vars == <<relations, closure, tx>>

Pairs == Node \X Node

\* relation: what became of the row of edge in the table relations; ins, wiped:
\* rows inserted or updated, and committed rows deleted; plan: rows the running
\* statement is about to change; todo: affected descendants the running loop has
\* not come to; rels: what RebuildClosure read; adding, current, step: the edges
\* still to hand to updateClosureOnAdd, the one it works on and its statement.
Transaction ==
    [kind : {"none", "write", "delete", "rebuild"}, edge : Link \cup {NoEdge},
     pc : {"new", "relation", "select", "wipe", "wiping", "read", "count",
           "add", "adding", "commit", "done"},
     relation : {"same", "added", "removed"},
     ins : SUBSET Pairs, wiped : SUBSET Pairs, plan : SUBSET Pairs,
     affected : SUBSET Node, todo : SUBSET Node, rels : SUBSET Link,
     adding : SUBSET Link, current : Link \cup {NoEdge}, step : 1..4,
     count : Nat]

Blank(pc) ==
    [kind |-> "none", edge |-> NoEdge, pc |-> pc, relation |-> "same",
     ins |-> {}, wiped |-> {}, plan |-> {}, affected |-> {}, todo |-> {},
     rels |-> {}, adding |-> {}, current |-> NoEdge, step |-> 1, count |-> 0]

-----------------------------------------------------------------------------
\* Mutant: statements see the rows of running transactions.
RowsSeenDirty(x) == (closure \ tx[x].wiped) \cup UNION {tx[y].ins : y \in Tx}

\* What the statements of x see at this moment.
RowsSeen(x) == (closure \ tx[x].wiped) \cup tx[x].ins

RelationsSeen(x) ==
    CASE tx[x].relation = "added"   -> relations \cup {tx[x].edge}
      [] tx[x].relation = "removed" -> relations \ {tx[x].edge}
      [] OTHER                      -> relations

Above(R, n) == {p[2] : p \in {q \in R : q[1] = n}}

Below(R, n) == {p[1] : p \in {q \in R : q[2] = n}}

\* The rows of the four INSERTs of updateClosureOnAdd for the edge d.
RowsToAdd(R, d) ==
    << {d},
       {d[1]} \X Above(R, d[2]),
       Below(R, d[1]) \X {d[2]},
       Below(R, d[1]) \X Above(R, d[2]) >>

\* Rows a transaction has changed stay locked until it ends.
Free(x, rows) ==
    \A y \in Tx \ {x} : rows \cap (tx[y].ins \cup tx[y].wiped) = {}

\* The loops of updateClosureOnDelete start with the entity itself.
FirstOf(x) ==
    IF tx[x].edge[1] \in tx[x].todo THEN {tx[x].edge[1]} ELSE tx[x].todo

-----------------------------------------------------------------------------
Init ==
    /\ relations \in SUBSET Link
    /\ closure \in SUBSET Pairs
    /\ IsLeastClosure(closure, relations)
    /\ tx = [x \in Tx |-> Blank("new")]

At(x, pc) == tx[x].pc = pc

Unchanged == UNCHANGED <<relations, closure>>

Start(x) ==
    /\ At(x, "new")
    /\ \/ \E d \in WriteSet[x] :
              tx' = [tx EXCEPT ![x].kind = "write", ![x].edge = d, ![x].pc = "relation"]
       \/ \E d \in DeleteSet[x] :
              tx' = [tx EXCEPT ![x].kind = "delete", ![x].edge = d, ![x].pc = "relation"]
       \/ /\ x \in Rebuilder
          /\ tx' = [tx EXCEPT ![x].kind = "rebuild", ![x].pc = "wipe"]
    /\ Unchanged

\* INSERT INTO relations ... ON CONFLICT DO NOTHING waits for every running
\* transaction that changed the row.
InsertRelation(x) ==
    /\ At(x, "relation")
    /\ tx[x].kind = "write"
    /\ \A y \in Tx \ {x} : tx[y].relation # "same" => tx[y].edge # tx[x].edge
    /\ tx' = [tx EXCEPT ![x].relation = IF tx[x].edge \in relations THEN "same" ELSE "added",
                        ![x].adding = {tx[x].edge},
                        ![x].pc = "add"]
    /\ Unchanged

\* DELETE FROM relations waits only for a running delete of the row: it does not
\* see one another transaction inserts.
DeleteRelation(x) ==
    /\ At(x, "relation")
    /\ tx[x].kind = "delete"
    /\ \A y \in Tx \ {x} : tx[y].relation = "removed" => tx[y].edge # tx[x].edge
    /\ tx' = [tx EXCEPT ![x].relation = IF tx[x].edge \in relations THEN "removed" ELSE "same",
                        ![x].pc = "select"]
    /\ Unchanged

\* Step 1 of updateClosureOnDelete.
SelectAffected(x) ==
    LET e == tx[x].edge[1]
        A == {e} \cup Below(RowsSeen(x), e)
    IN  /\ At(x, "select")
        /\ tx' = [tx EXCEPT ![x].affected = A, ![x].todo = A, ![x].pc = "wipe"]
        /\ Unchanged

\* DELETE FROM entity_closure: of one descendant in step 2 of
\* updateClosureOnDelete, of all rows in RebuildClosure.
PlanWipe(x) ==
    /\ At(x, "wipe")
    /\ \/ /\ tx[x].kind = "rebuild"
          /\ tx' = [tx EXCEPT ![x].plan = RowsSeen(x), ![x].pc = "wiping"]
       \/ /\ tx[x].kind = "delete"
          /\ \E n \in FirstOf(x) :
                tx' = [tx EXCEPT ![x].plan = {p \in RowsSeen(x) : p[1] = n},
                                 ![x].todo = @ \ {n},
                                 ![x].pc = "wiping"]
    /\ Unchanged

ApplyWipe(x) ==
    LET last == tx[x].todo = {}
    IN  /\ At(x, "wiping")
        /\ Free(x, tx[x].plan)
        /\ tx' = [tx EXCEPT ![x].ins = @ \ tx[x].plan,
                            ![x].wiped = @ \cup (tx[x].plan \cap closure),
                            ![x].plan = {},
                            ![x].todo = IF last THEN tx[x].affected ELSE @,
                            ![x].pc = IF last THEN "read" ELSE "wipe"]
        /\ Unchanged

\* Mutant: the skip of step 3 compares the entity and not the subject.
ReadRelationsSkippingEntity(x) ==
    /\ At(x, "read")
    /\ \/ /\ tx[x].kind = "rebuild"
          /\ tx' = [tx EXCEPT ![x].rels = RelationsSeen(x), ![x].pc = "count"]
       \/ /\ tx[x].kind = "delete"
          /\ \E n \in FirstOf(x) :
                tx' = [tx EXCEPT
                         ![x].adding = {r \in RelationsSeen(x) :
                                            r[1] = n /\ r[1] # tx[x].edge[1]},
                         ![x].todo = @ \ {n},
                         ![x].pc = "add"]
    /\ Unchanged

\* The SELECTs on relations: of one affected descendant in step 3 of
\* updateClosureOnDelete, of all in RebuildClosure.
ReadRelations(x) ==
    /\ At(x, "read")
    /\ \/ /\ tx[x].kind = "rebuild"
          /\ tx' = [tx EXCEPT ![x].rels = RelationsSeen(x), ![x].pc = "count"]
       \/ /\ tx[x].kind = "delete"
          /\ \E n \in FirstOf(x) :
                tx' = [tx EXCEPT
                         ![x].adding = {r \in RelationsSeen(x) : r[1] = n} \ {tx[x].edge},
                         ![x].todo = @ \ {n},
                         ![x].pc = "add"]
    /\ Unchanged

\* The start of a pass of RebuildClosure.
CountRows(x) ==
    /\ At(x, "count")
    /\ tx' = [tx EXCEPT ![x].count = Cardinality(RowsSeen(x)),
                        ![x].adding = tx[x].rels,
                        ![x].pc = "add"]
    /\ Unchanged

PlanAdd(x) ==
    /\ At(x, "add")
    /\ tx[x].adding # {}
    /\ \E e \in IF tx[x].step = 1 THEN tx[x].adding ELSE {tx[x].current} :
          tx' = [tx EXCEPT ![x].current = e,
                           ![x].plan = RowsToAdd(RowsSeen(x), e)[tx[x].step],
                           ![x].pc = "adding"]
    /\ Unchanged

\* Mutant: the statement counter is not reset after the fourth INSERT.
ApplyAddWithoutReset(x) ==
    /\ At(x, "adding")
    /\ Free(x, tx[x].plan)
    /\ tx' = [tx EXCEPT ![x].ins = @ \cup tx[x].plan,
                        ![x].plan = {},
                        ![x].step = @ + 1,
                        ![x].pc = "add"]
    /\ Unchanged

ApplyAdd(x) ==
    LET last == tx[x].step = 4
    IN  /\ At(x, "adding")
        /\ Free(x, tx[x].plan)
        /\ tx' = [tx EXCEPT ![x].ins = @ \cup tx[x].plan,
                            ![x].plan = {},
                            ![x].step = IF last THEN 1 ELSE @ + 1,
                            ![x].adding = IF last THEN @ \ {tx[x].current} ELSE @,
                            ![x].current = IF last THEN NoEdge ELSE @,
                            ![x].pc = "add"]
        /\ Unchanged

\* All edges of a round have been added: the next descendant, the next pass, or
\* the end.
NextRound(x) ==
    /\ At(x, "add")
    /\ tx[x].adding = {}
    /\ tx' = [tx EXCEPT ![x].pc =
                CASE tx[x].kind = "delete" /\ tx[x].todo # {} -> "read"
                  [] tx[x].kind = "rebuild"
                        /\ Cardinality(RowsSeen(x)) # tx[x].count -> "count"
                  [] OTHER -> "commit"]
    /\ Unchanged

\* A DELETE that waits for x skips the rows x deleted, also those x inserted
\* again: they are other versions than the ones it saw.
Commit(x) ==
    /\ At(x, "commit")
    /\ relations' = RelationsSeen(x)
    /\ closure' = RowsSeen(x)
    /\ tx' = [y \in Tx |->
                CASE y = x -> [Blank("done") EXCEPT !.kind = tx[x].kind, !.edge = tx[x].edge]
                  [] y # x /\ At(y, "wiping") -> [tx[y] EXCEPT !.plan = @ \ tx[x].wiped]
                  [] OTHER -> tx[y]]

\* A failed statement, a deadlock PostgreSQL breaks, a crash of the server.
Rollback(x) ==
    /\ ~At(x, "new")
    /\ ~At(x, "done")
    /\ tx' = [tx EXCEPT ![x] = Blank("done")]
    /\ Unchanged

Next ==
    \E x \in Tx :
        \/ Start(x)
        \/ InsertRelation(x)
        \/ DeleteRelation(x)
        \/ SelectAffected(x)
        \/ PlanWipe(x)
        \/ ApplyWipe(x)
        \/ ReadRelations(x)
        \/ CountRows(x)
        \/ PlanAdd(x)
        \/ ApplyAdd(x)
        \/ NextRound(x)
        \/ Commit(x)
        \/ Rollback(x)

Spec == Init /\ [][Next]_vars

-----------------------------------------------------------------------------
TypeOK ==
    /\ relations \subseteq Link
    /\ closure \subseteq Pairs
    /\ tx \in [Tx -> Transaction]

\* The transactions that run or have committed as a write, a delete, a rebuild.
Ran(kind) == {x \in Tx : tx[x].kind = kind}

Idle == \A x \in Tx : At(x, "new") \/ At(x, "done")

\* Every committed relation has its own row, in whatever order the statements of
\* writes, deletes of other relations and rebuilds come: a check of a direct
\* parent never fails for a relation that is stored (the upserts of
\* updateClosureOnAdd against the DELETEs of updateClosureOnDelete and
\* RebuildClosure).
DirectRows ==
    (\A x \in Ran("write"), y \in Ran("delete") : tx[x].edge # tx[y].edge)
        => relations \subseteq closure

\* Writes and rebuilds that overlap may lose rows, but never leave one that no
\* path of stored relations accounts for.
NoExtraRows ==
    Ran("delete") = {} =>
        \A P \in SUBSET Pairs :
            relations \subseteq P /\ IsTransitiveSet(P) => closure \subseteq P

\* A rebuild, even several of them, may overlap one write at any point: after every
\* commit the table is the closure of the relations.
RebuildDuringWrite ==
    Ran("delete") = {} /\ (\A x, y \in Ran("write") : x = y)
        => IsLeastClosure(closure, relations)

\* Once all transactions have ended the table is the closure of the relations.
ExactWhenIdle == Idle => IsLeastClosure(closure, relations)
=============================================================================
