------------------------- MODULE SchemaServiceProofs -------------------------
(***************************************************************************)
(* Type correctness of SchemaService, and the properties of its versions    *)
(* for every number of servers and requests.                                *)
(***************************************************************************)
EXTENDS SchemaService, FiniteSetTheorems, SequenceTheorems, WellFoundedInduction, TLAPS

\* What is asked, and by whom it is answered.
LEMMA PlanType ==
    ASSUME scenario \in Scenario, NEW r \in Request
    PROVE  /\ Home(r) \in Server
           /\ plan[r].dsl \in Dsl
           /\ plan[r].kind \in {"write", "validate", "delete", "check", "list", "data", "none"}
           /\ plan[r].dsl.outcome \in {"accepted", "invalid", "hangs"}
<1>1. scenario.plan \in [Request -> [kind : {"write", "validate", "delete", "check", "list",
                                             "data", "none"},
                                     server : Server, dsl : Dsl]]
  BY SchemaAssumptions
<1> QED BY <1>1, SchemaAssumptions DEF plan, Home

\* A request that changes its state leaves the others alone.
LEMMA BecomeOnly ==
    ASSUME req \in [Request -> RequestType], NEW r \in Request, NEW q, Become(r, q)
    PROVE  req'[r] = q /\ \A o \in Request \ {r} : req'[o] = req[o]
BY DEF Become

LEMMA BecomeType ==
    ASSUME req \in [Request -> RequestType], NEW r \in Request, NEW q \in RequestType,
           Become(r, q)
    PROVE  req' \in [Request -> RequestType]
BY DEF Become

\* The places a request can be, and the answers it can have.
Place == {"idle", "parse", "exec", "record", "invalidate", "read", "cache", "using",
          "page", "hung", "answered"}
Outcome == {"none", "ok", "invalid", "error", "notFound"}

\* Changes of the fields of a request.
LEMMA FieldTypes ==
    ASSUME NEW q \in RequestType
    PROVE  /\ \A pc \in Place : [q EXCEPT !.pc = pc] \in RequestType
           /\ \A pc \in Place, a \in Outcome :
                 [q EXCEPT !.pc = pc, !.answer = a] \in RequestType
           /\ \A pc \in Place, v \in Nat :
                 [q EXCEPT !.pc = pc, !.version = v] \in RequestType
           /\ \A pc \in Place, row \in SUBSET RowType :
                 [q EXCEPT !.pc = pc, !.row = row] \in RequestType
           /\ \A pc \in Place, row \in SUBSET RowType, used \in Seq(RowType) :
                 [q EXCEPT !.pc = pc, !.row = row, !.used = used] \in RequestType
           /\ \A n \in 0..MaxRetries : [q EXCEPT !.attempt = n] \in RequestType
           /\ \A pages \in Seq(SUBSET Nat) : [q EXCEPT !.pages = pages] \in RequestType
<1> DEFINE Attempt == 0..MaxRetries
           Rows == SUBSET RowType
           Used == Seq(RowType)
           Pages == Seq(SUBSET Nat)
           After == SUBSET Request
<1>1. RequestType = [pc : Place, attempt : Attempt, version : Nat, row : Rows, used : Used,
                     pages : Pages, answer : Outcome, after : After, known : Rows]
  BY DEF RequestType, Place, Outcome
<1> HIDE DEF Attempt, Rows, Used, Pages, After
<1>2. /\ \A pc \in Place : [q EXCEPT !.pc = pc] \in RequestType
      /\ \A pc \in Place, a \in Outcome :
            [q EXCEPT !.pc = pc, !.answer = a] \in RequestType
      /\ \A pc \in Place, v \in Nat :
            [q EXCEPT !.pc = pc, !.version = v] \in RequestType
      /\ \A pc \in Place, row \in Rows :
            [q EXCEPT !.pc = pc, !.row = row] \in RequestType
      /\ \A pc \in Place, row \in Rows, used \in Used :
            [q EXCEPT !.pc = pc, !.row = row, !.used = used] \in RequestType
      /\ \A n \in Attempt : [q EXCEPT !.attempt = n] \in RequestType
      /\ \A pages \in Pages : [q EXCEPT !.pages = pages] \in RequestType
  BY <1>1
<1> QED BY <1>2 DEF Attempt, Rows, Used, Pages

LEMMA GotoType ==
    ASSUME req \in [Request -> RequestType], NEW r \in Request, NEW pc \in Place, Goto(r, pc)
    PROVE  req' \in [Request -> RequestType]
<1>1. req[r] \in RequestType
  OBVIOUS
<1>2. [req[r] EXCEPT !.pc = pc] \in RequestType
  BY <1>1, FieldTypes
<1> QED BY <1>2, BecomeType DEF Goto

LEMMA AnswerType ==
    ASSUME req \in [Request -> RequestType], NEW r \in Request, NEW a \in Outcome,
           Answer(r, a)
    PROVE  req' \in [Request -> RequestType]
<1>1. req[r] \in RequestType /\ "answered" \in Place
  BY DEF Place
<1>2. [req[r] EXCEPT !.pc = "answered", !.answer = a] \in RequestType
  BY <1>1, FieldTypes
<1> QED BY <1>2, BecomeType DEF Answer

LEMMA RetryType ==
    ASSUME req \in [Request -> RequestType], NEW r \in Request, Retry(r)
    PROVE  req' \in [Request -> RequestType]
<1>1. CASE /\ req[r].attempt < MaxRetries
           /\ Become(r, [req[r] EXCEPT !.attempt = @ + 1])
  <2>1. req[r] \in RequestType
    OBVIOUS
  <2>2. req[r].attempt + 1 \in 0..MaxRetries
    BY <1>1, <2>1, SchemaAssumptions DEF RequestType
  <2>3. [req[r] EXCEPT !.attempt = @ + 1] \in RequestType
    BY <2>1, <2>2, FieldTypes
  <2> QED BY <1>1, <2>3, BecomeType
<1>2. CASE Answer(r, "error")
  BY <1>2, AnswerType DEF Outcome
<1> QED BY <1>1, <1>2 DEF Retry

LEMMA AcknowledgeType ==
    ASSUME req \in [Request -> RequestType], NEW r \in Request, Acknowledge(r)
    PROVE  req' \in [Request -> RequestType]
BY GotoType, RetryType DEF Acknowledge, Place

\* The contents of the databases are tables of rows.
LEMMA TablesType ==
    ASSUME TypeOK
    PROVE  /\ Primary \in SUBSET RowType
           /\ Replica \in SUBSET RowType
           /\ \A s : ReadTable(s) \in SUBSET RowType
<1>1. Len(tables) \in 1..Len(tables) /\ applied \in 1..Len(tables)
  BY DEF TypeOK
<1>2. \A i \in 1..Len(tables) : tables[i] \in SUBSET RowType
  BY DEF TypeOK
<1> QED BY <1>1, <1>2 DEF Primary, Replica, ReadTable

\* A commit appends a table.
LEMMA CommitType ==
    ASSUME TypeOK, NEW T \in SUBSET RowType, Commit(T), req' \in [Request -> RequestType]
    PROVE  TypeOK'
<1>1. tables' \in Seq(SUBSET RowType) /\ Len(tables') = Len(tables) + 1
  BY DEF TypeOK, Commit
<1>2. changedAt' \in Seq(Nat) /\ Len(changedAt') = Len(changedAt) + 1
  <2>1. changedAt' = Append(changedAt, now) /\ now \in Nat /\ changedAt \in Seq(Nat)
    BY DEF TypeOK, Commit
  <2> QED BY <2>1
<1>3. applied' \in 1..Len(tables') /\ tables' # <<>>
  BY <1>1 DEF TypeOK, Commit
<1> QED BY <1>1, <1>2, <1>3 DEF TypeOK, Commit

\* What a request does without changing what is shared.
LEMMA QuietType ==
    ASSUME TypeOK, Quietly, req' \in [Request -> RequestType]
    PROVE  TypeOK'
BY DEF TypeOK, Quietly, InDatabaseUnchanged

\* A version is a natural number, and never 0.
LEMMA FreshIdsType ==
    ASSUME TypeOK, NEW s \in Server, NEW v \in FreshIds(s)
    PROVE  v \in Nat \ {0} /\ \A o \in Request : req[o].version # v
<1>1. v \in Unused({Clock(s) * Ulids + e : e \in 0 .. Ulids - 1})
  BY DEF FreshIds
<1>2. PICK e \in 0 .. Ulids - 1 : v = Clock(s) * Ulids + e
  BY <1>1 DEF Unused
<1>3. Clock(s) \in Nat \ {0}
  BY SchemaAssumptions DEF Clock, TypeOK
<1>4. Ulids \in Nat \ {0}
  <2>1. Cardinality(Request) \in Nat
    BY SchemaAssumptions, FS_CardinalityType
  <2> QED BY <2>1, SchemaAssumptions DEF Ulids, TypeOK
<1>5. ASSUME NEW a \in Nat \ {0}, NEW b \in Nat \ {0}, NEW c \in Nat
      PROVE  a * b + c \in Nat \ {0}
  BY <1>5
<1>6. v \in Nat \ {0}
  BY <1>2, <1>3, <1>4, <1>5
<1> QED BY <1>1, <1>6 DEF Unused

-----------------------------------------------------------------------------
\* A request begins with its first step, where nothing is known yet.
LEMMA BeginType ==
    ASSUME TypeOK, NEW r \in Request, Begin(r)
    PROVE  TypeOK'
<1> DEFINE after == {o \in Request : Answered(o)}
           known == IF Kind(r, "list") THEN Primary \cap Replica ELSE {}
           Pages == Seq(SUBSET Nat)
           Used == Seq(RowType)
           Attempts == 0..MaxRetries
<1>1. FirstStep(plan[r].kind) \in Place
  <2>1. plan[r].kind \in {"write", "validate", "delete", "check", "list", "data"}
    BY PlanType DEF TypeOK, Begin, Kind
  <2> QED BY <2>1 DEF FirstStep, Place
<1>2. known \in SUBSET RowType
  BY TablesType
<1>3. /\ after \in SUBSET Request /\ 0 \in Attempts /\ <<>> \in Pages /\ <<>> \in Used
  BY SchemaAssumptions
<1>4. RequestType = [pc : Place, attempt : Attempts, version : Nat, row : SUBSET RowType,
                     used : Used, pages : Pages, answer : Outcome, after : SUBSET Request,
                     known : SUBSET RowType]
  BY DEF RequestType, Place, Outcome
<1> HIDE DEF after, known, Pages, Used, Attempts
<1>5. [Waiting EXCEPT !.pc = FirstStep(plan[r].kind), !.after = after, !.known = known]
        \in RequestType
  BY <1>1, <1>2, <1>3, <1>4 DEF Waiting, Outcome
<1>6. Become(r, [Waiting EXCEPT !.pc = FirstStep(plan[r].kind), !.after = after,
                                !.known = known])
  BY DEF Begin, after, known
<1>7. req' \in [Request -> RequestType]
  BY <1>5, <1>6, BecomeType DEF TypeOK
<1> QED BY <1>7, QuietType DEF Begin

LEMMA ParseType ==
    ASSUME TypeOK, NEW r \in Request, ParseDSL(r)
    PROVE  TypeOK'
<1>1. req' \in [Request -> RequestType]
  BY GotoType, AnswerType DEF TypeOK, ParseDSL, Place, Outcome
<1> QED BY <1>1, QuietType DEF ParseDSL

LEMMA NewVersionType ==
    ASSUME TypeOK, NEW r \in Request, NewVersion(r)
    PROVE  TypeOK'
<1>1. Home(r) \in Server
  BY PlanType DEF TypeOK
<1>2. PICK v \in FreshIds(Home(r)) :
          /\ Become(r, [req[r] EXCEPT !.pc = "exec", !.version = v])
          /\ lastId' = [lastId EXCEPT ![Home(r)] = v]
  BY DEF NewVersion
<1>3. v \in Nat
  BY <1>1, FreshIdsType
<1>4. req[r] \in RequestType /\ "exec" \in Place
  BY DEF TypeOK, Place
<1>5. [req[r] EXCEPT !.pc = "exec", !.version = v] \in RequestType
  BY <1>3, <1>4, FieldTypes
<1>6. req' \in [Request -> RequestType]
  BY <1>2, <1>5, BecomeType DEF TypeOK
<1>7. lastId' \in [Server -> Nat]
  BY <1>1, <1>2, <1>3 DEF TypeOK
<1> QED BY <1>6, <1>7 DEF TypeOK, NewVersion, InDatabaseUnchanged

\* The row a write stores.
LEMMA RowOfType ==
    ASSUME TypeOK, NEW r \in Request
    PROVE  Row(r) \in RowType
<1>1. req[r].version \in Nat
  BY DEF TypeOK, RequestType
<1> QED BY <1>1, PlanType DEF TypeOK, Row, RowType

LEMMA StatementType ==
    ASSUME TypeOK, NEW r \in Request,
           \/ Insert(r) \/ InsertDuplicate(r) \/ DeleteAll(r) \/ DeleteNothing(r)
           \/ StatementFails(r)
    PROVE  TypeOK'
<1> USE DEF TypeOK
<1>1. CASE Insert(r)
  <2>1. Primary \cup {Row(r)} \in SUBSET RowType
    BY TablesType, RowOfType
  <2> QED BY <1>1, <2>1, AcknowledgeType, CommitType DEF Insert
<1>2. CASE InsertDuplicate(r)
  BY <1>2, AnswerType, QuietType DEF InsertDuplicate, Outcome
<1>3. CASE DeleteAll(r)
  BY <1>3, AcknowledgeType, CommitType DEF DeleteAll
<1>4. CASE DeleteNothing(r)
  BY <1>4, AnswerType, QuietType DEF DeleteNothing, Outcome
<1>5. CASE StatementFails(r)
  BY <1>5, RetryType, QuietType DEF StatementFails
<1> QED BY <1>1, <1>2, <1>3, <1>4, <1>5

LEMMA AfterwardsType ==
    ASSUME TypeOK, NEW r \in Request, RecordWrite(r) \/ Invalidate(r)
    PROVE  TypeOK'
<1> USE DEF InDatabaseUnchanged
<1>0. Home(r) \in Server
  BY PlanType DEF TypeOK
<1>1. CASE RecordWrite(r)
  <2>1. req' \in [Request -> RequestType]
    BY <1>1, GotoType, AnswerType DEF TypeOK, RecordWrite, Place, Outcome
  <2>2. recorded' \in [Server -> Nat \cup {Never}]
    BY <1>0, <1>1 DEF TypeOK, RecordWrite
  <2> QED BY <1>1, <2>1, <2>2 DEF TypeOK, RecordWrite
<1>2. CASE Invalidate(r)
  <2>1. req' \in [Request -> RequestType]
    BY <1>2, AnswerType DEF TypeOK, Invalidate, Outcome
  <2>2. cache' \in [Server -> SUBSET RowType]
    BY <1>0, <1>2 DEF TypeOK, Invalidate
  <2> QED BY <1>2, <2>1, <2>2 DEF TypeOK, Invalidate
<1> QED BY <1>1, <1>2

LEMMA UseType ==
    ASSUME TypeOK, NEW r \in Request, NEW schema \in RowType, Use(r, schema)
    PROVE  req' \in [Request -> RequestType]
<1>1. req[r] \in RequestType /\ "using" \in Place
  BY DEF TypeOK, Place
<1>2. req[r].used \in Seq(RowType)
  BY <1>1 DEF RequestType
<1>3. Append(req[r].used, schema) \in Seq(RowType) /\ {} \in SUBSET RowType
  BY <1>2
<1>4. [req[r] EXCEPT !.pc = "using", !.row = {}, !.used = Append(req[r].used, schema)]
        \in RequestType
  BY <1>1, <1>3, FieldTypes
<1> QED BY <1>4, BecomeType DEF TypeOK, Use

LEMMA CheckType ==
    ASSUME TypeOK, NEW r \in Request,
           ReadRow(r) \/ LoadCached(r) \/ ParseAndStore(r) \/ AskAgain(r) \/ Decide(r)
    PROVE  TypeOK'
<1>0. /\ Home(r) \in Server
      /\ req[r] \in RequestType
      /\ cache[Home(r)] \in SUBSET RowType
  BY PlanType DEF TypeOK
<1>1. CASE ReadRow(r)
  <2> DEFINE found == Wanted(r, ReadTable(Home(r)))
  <2>1. found \in SUBSET RowType /\ "cache" \in Place
    BY TablesType DEF Wanted, Place
  <2>2. [req[r] EXCEPT !.pc = "cache", !.row = found] \in RequestType
    BY <1>0, <2>1, FieldTypes
  <2>3. \/ Answer(r, "notFound")
        \/ Become(r, [req[r] EXCEPT !.pc = "cache", !.row = found])
    BY <1>1 DEF ReadRow
  <2> HIDE DEF found
  <2>4. req' \in [Request -> RequestType]
    BY <2>2, <2>3, AnswerType, BecomeType DEF TypeOK, Outcome
  <2> QED BY <1>1, <2>4, QuietType DEF ReadRow
<1>2. CASE LoadCached(r)
  <2>1. PICK schema \in Cached(r) : Use(r, schema)
    BY <1>2 DEF LoadCached
  <2>2. schema \in RowType
    BY <1>0 DEF Cached
  <2> QED BY <1>2, <2>1, <2>2, UseType, QuietType DEF LoadCached
<1>3. CASE ParseAndStore(r)
  <2>1. PICK row \in req[r].row :
            /\ Use(r, row)
            /\ cache' = [cache EXCEPT ![Home(r)] = @ \cup {row}]
    BY <1>3 DEF ParseAndStore
  <2>2. row \in RowType
    BY <1>0 DEF RequestType
  <2>3. req' \in [Request -> RequestType]
    BY <2>1, <2>2, UseType
  <2>4. cache' \in [Server -> SUBSET RowType]
    BY <1>0, <2>1, <2>2 DEF TypeOK
  <2> QED BY <1>3, <2>3, <2>4 DEF TypeOK, ParseAndStore, InDatabaseUnchanged
<1>4. CASE AskAgain(r)
  BY <1>4, GotoType, QuietType DEF TypeOK, AskAgain, Place
<1>5. CASE Decide(r)
  BY <1>5, AnswerType, QuietType DEF TypeOK, Decide, Outcome
<1> QED BY <1>1, <1>2, <1>3, <1>4, <1>5

LEMMA ListType ==
    ASSUME TypeOK, NEW r \in Request, (\E s \in Server : ListPage(r, s)) \/ ReadFails(r)
    PROVE  TypeOK'
<1>1. ASSUME NEW s \in Server, ListPage(r, s)
      PROVE  TypeOK'
  <2> DEFINE page == Shown(r, ReadTable(s))
             pages == Append(req[r].pages, page)
             q == [req[r] EXCEPT !.pages = pages]
  <2>1. req[r] \in RequestType /\ "answered" \in Place /\ "ok" \in Outcome
    BY DEF TypeOK, Place, Outcome
  <2>2. page \in SUBSET Nat
    <3>1. Versions(ReadTable(s)) \in SUBSET Nat
      BY TablesType DEF Versions, RowType
    <3> QED BY <3>1 DEF Shown, Greatest, Below
  <2>3. req[r].pages \in Seq(SUBSET Nat)
    BY <2>1 DEF RequestType
  <2> HIDE DEF page
  <2>4. pages \in Seq(SUBSET Nat)
    BY <2>2, <2>3
  <2>5. q \in RequestType
    BY <2>1, <2>4, FieldTypes
  <2>6. \/ Become(r, q)
        \/ Become(r, [q EXCEPT !.pc = "answered", !.answer = "ok"])
    BY <1>1 DEF ListPage, page
  <2> HIDE DEF q
  <2>7. [q EXCEPT !.pc = "answered", !.answer = "ok"] \in RequestType
    BY <2>1, <2>5, FieldTypes
  <2>8. req' \in [Request -> RequestType]
    BY <2>5, <2>6, <2>7, BecomeType DEF TypeOK
  <2> QED BY <1>1, <2>8, QuietType DEF ListPage
<1>2. CASE ReadFails(r)
  BY <1>2, AnswerType, QuietType DEF TypeOK, ReadFails, Outcome
<1> QED BY <1>1, <1>2

LEMMA InitType == Init => TypeOK
<1> SUFFICES ASSUME Init PROVE TypeOK
  OBVIOUS
<1> DEFINE Pages == Seq(SUBSET Nat)
           Used == Seq(RowType)
           Attempts == 0..MaxRetries
<1>1. 0 \in Attempts /\ <<>> \in Pages /\ <<>> \in Used
  BY SchemaAssumptions
<1>2. RequestType = [pc : Place, attempt : Attempts, version : Nat, row : SUBSET RowType,
                     used : Used, pages : Pages, answer : Outcome, after : SUBSET Request,
                     known : SUBSET RowType]
  BY DEF RequestType, Place, Outcome
<1> HIDE DEF Pages, Used, Attempts
<1>3. Waiting \in RequestType
  BY <1>1, <1>2 DEF Waiting, Place, Outcome
<1>4. tables \in Seq(SUBSET RowType) /\ tables # <<>> /\ Len(tables) = 1
  BY DEF Init
<1>5. changedAt \in Seq(Nat) /\ Len(changedAt) = 1
  BY DEF Init
<1> QED BY <1>3, <1>4, <1>5 DEF Init, TypeOK, Never

LEMMA NextType == TypeOK /\ [Next]_vars => TypeOK'
<1> SUFFICES ASSUME TypeOK, [Next]_vars PROVE TypeOK'
  OBVIOUS
<1>1. ASSUME NEW r \in Request, Begin(r)
      PROVE  TypeOK'
  BY <1>1, BeginType
<1>2. ASSUME NEW r \in Request, Step(r)
      PROVE  TypeOK'
  BY <1>2, ParseType, NewVersionType, StatementType, AfterwardsType, CheckType, ListType
     DEF Step
<1>3. CASE ReplicaApply
  BY <1>3 DEF TypeOK, ReplicaApply
<1>4. CASE Tick
  BY <1>4 DEF TypeOK, Tick
<1>5. CASE UNCHANGED vars
  BY <1>5 DEF TypeOK, vars
<1> QED BY <1>1, <1>2, <1>3, <1>4, <1>5 DEF Next

\* Every variable stays within its type, whatever is asked of however many servers.
THEOREM TypeCorrect == Spec => []TypeOK
BY InitType, NextType, PTL DEF Spec

-----------------------------------------------------------------------------
(***************************************************************************)
(* StoredOnce and OneVersion.  Neither is inductive: what is stored depends *)
(* on the version a request holds between its attempts, what a check uses   *)
(* on the row it has read and on what the caches keep.                      *)
(***************************************************************************)

\* Where a request of a kind can be.
PlaceOfKind(kind, pc) ==
    /\ pc = "parse" => kind \in {"write", "validate"}
    /\ pc = "exec" => kind \in {"write", "delete"}
    /\ pc = "record" => kind \in {"write", "delete", "data"}
    /\ pc = "invalidate" => kind \in {"write", "delete"}
    /\ pc \in {"read", "cache", "using"} => kind = "check"
    /\ pc = "page" => kind = "list"

RowOf(p, r, q) == [version |-> q.version, dsl |-> p.dsl, by |-> r]

\* What request r, asked as p, holds in the state q while H was stored.
Consistent(p, r, q, H) ==
    /\ PlaceOfKind(p.kind, q.pc)
    /\ q.pc # "answered" => q.answer = "none"
    /\ q.pc \in {"idle", "parse"} => q.version = 0
    /\ q.version # 0 => p.kind = "write" /\ p.dsl.outcome = "accepted"
    /\ p.kind = "write" /\ q.pc = "exec" => q.version # 0
    /\ p.kind = "write" /\ (q.pc \in {"record", "invalidate"} \/ q.answer = "ok") =>
          RowOf(p, r, q) \in H
    /\ q.row \subseteq H
    /\ \A i \in 1..Len(q.used) : q.used[i] = q.used[1] /\ q.used[i] \in H
    /\ q.used # <<>> => q.row \subseteq {q.used[1]}

\* No two requests hold the same version.
OwnVersions ==
    \A a, b \in Request : req[a].version # 0 /\ req[a].version = req[b].version => a = b

\* All that was stored is the row of the request that stored it.
OwnRows == \A t \in History : t.version # 0 /\ t = Row(t.by)

CachedRows == \A s \in Server : cache[s] \subseteq History

VersionsInv ==
    /\ TypeOK
    /\ OwnVersions
    /\ OwnRows
    /\ CachedRows
    /\ \A r \in Request : Consistent(plan[r], r, req[r], History)

\* More rows do no harm.
LEMMA ConsistentMore ==
    ASSUME NEW p, NEW r, NEW q, NEW H, NEW I, H \subseteq I, Consistent(p, r, q, H)
    PROVE  Consistent(p, r, q, I)
BY DEF Consistent

\* What was stored stays in the history, and is of the type of rows.
LEMMA HistoryType ==
    ASSUME TypeOK
    PROVE  /\ History \subseteq RowType
           /\ Primary \subseteq History
           /\ \A s : ReadTable(s) \subseteq History
<1>1. \A i \in 1..Len(tables) : tables[i] \subseteq RowType
  BY DEF TypeOK
<1>2. Len(tables) \in 1..Len(tables) /\ applied \in 1..Len(tables)
  BY DEF TypeOK
<1> QED BY <1>1, <1>2 DEF History, Primary, Replica, ReadTable

LEMMA CommitHistory ==
    ASSUME TypeOK, NEW T, Commit(T)
    PROVE  History' = History \cup T
<1>1. /\ tables' = Append(tables, T)
      /\ tables \in Seq(SUBSET RowType)
  BY DEF Commit, TypeOK
<1>2. /\ Len(tables') = Len(tables) + 1
      /\ tables'[Len(tables) + 1] = T
      /\ \A i \in 1..Len(tables) : tables'[i] = tables[i]
      /\ Len(tables) \in Nat
  BY <1>1
<1>3. 1..Len(tables') = 1..Len(tables) \cup {Len(tables) + 1}
  BY <1>2
<1> QED BY <1>2, <1>3 DEF History

\* The step of a request stores at most its own row, and caches nothing else.
Grows(r) ==
    /\ scenario' = scenario
    /\ History \subseteq History'
    /\ \A t \in History' : t \in History \/ (t = Row(r) /\ req[r].version # 0)
    /\ \A s \in Server : cache'[s] \subseteq History'

LEMMA SameHistory ==
    ASSUME tables' = tables
    PROVE  History' = History
BY DEF History

\* A request changes its state, but not its version, and stores at most its row.
LEMMA RequestStep ==
    ASSUME VersionsInv, TypeOK', NEW r \in Request, NEW q, Become(r, q),
           Grows(r), q.version = req[r].version, Consistent(plan[r], r, q, History')
    PROVE  VersionsInv'
<1> USE DEF Grows
<1>1. /\ req'[r] = q
      /\ \A o \in Request \ {r} : req'[o] = req[o]
      /\ \A o \in Request : req'[o].version = req[o].version
  <2>1. req \in [Request -> RequestType]
    BY DEF VersionsInv, TypeOK
  <2> QED BY <2>1, BecomeOnly
<1>2. plan' = plan
  BY DEF plan
<1>3. OwnVersions'
  BY <1>1 DEF VersionsInv, OwnVersions
<1>4. OwnRows'
  <2>1. ASSUME NEW t \in History'
        PROVE  t.version # 0 /\ t = Row(t.by) /\ t.by \in Request
    <3>1. CASE t \in History
      <4>1. t.by \in Request
        BY <3>1, HistoryType DEF VersionsInv, RowType
      <4> QED BY <3>1, <4>1 DEF VersionsInv, OwnRows
    <3>2. CASE t = Row(r) /\ req[r].version # 0
      BY <3>2 DEF Row
    <3> QED BY <2>1, <3>1, <3>2
  <2>2. \A o \in Request : Row(o)' = Row(o)
    BY <1>1, <1>2 DEF Row
  <2> QED BY <2>1, <2>2 DEF OwnRows
<1>5. CachedRows'
  BY DEF CachedRows
<1>6. ASSUME NEW o \in Request
      PROVE  Consistent(plan[o], o, req[o], History)'
  <2>1. CASE o = r
    BY <1>1, <1>2, <2>1
  <2>2. CASE o # r
    <3>1. Consistent(plan[o], o, req[o], History)
      BY DEF VersionsInv
    <3>2. Consistent(plan[o], o, req[o], History')
      BY <3>1, ConsistentMore
    <3> QED BY <1>1, <1>2, <2>2, <3>2
  <2> QED BY <2>1, <2>2
<1> QED BY <1>3, <1>4, <1>5, <1>6 DEF VersionsInv

\* In particular when nothing is stored and no cache changes.
LEMMA GrowsQuietly ==
    ASSUME VersionsInv, scenario' = scenario, tables' = tables, cache' = cache, NEW r
    PROVE  Grows(r) /\ History' = History
BY SameHistory DEF Grows, VersionsInv, CachedRows

\* What a request holds stays consistent when it goes to another place ...
LEMMA ConsistentGoto ==
    ASSUME NEW p, NEW r, NEW q \in RequestType, NEW H, NEW pc \in Place,
           Consistent(p, r, q, H),
           q.pc # "answered", pc \notin {"idle", "parse"}, PlaceOfKind(p.kind, pc),
           p.kind = "write" /\ pc = "exec" => q.version # 0,
           p.kind = "write" /\ pc \in {"record", "invalidate"} => RowOf(p, r, q) \in H
    PROVE  /\ Consistent(p, r, [q EXCEPT !.pc = pc], H)
           /\ [q EXCEPT !.pc = pc].version = q.version
<1> DEFINE n == [q EXCEPT !.pc = pc]
<1>1. /\ n.pc = pc /\ n.answer = q.answer /\ n.version = q.version
      /\ n.row = q.row /\ n.used = q.used
  BY DEF RequestType
<1>2. RowOf(p, r, n) = RowOf(p, r, q)
  BY <1>1 DEF RowOf
<1> HIDE DEF n
<1>3. Consistent(p, r, n, H)
  BY <1>1, <1>2 DEF Consistent
<1> QED BY <1>1, <1>3 DEF n

\* ... or tries once more.
LEMMA ConsistentRetry ==
    ASSUME NEW p, NEW r, NEW q \in RequestType, NEW H, NEW k, Consistent(p, r, q, H)
    PROVE  /\ Consistent(p, r, [q EXCEPT !.attempt = k], H)
           /\ [q EXCEPT !.attempt = k].version = q.version
<1> DEFINE n == [q EXCEPT !.attempt = k]
<1>1. /\ n.pc = q.pc /\ n.answer = q.answer /\ n.version = q.version
      /\ n.row = q.row /\ n.used = q.used
  BY DEF RequestType
<1>2. RowOf(p, r, n) = RowOf(p, r, q)
  BY <1>1 DEF RowOf
<1> HIDE DEF n
<1>3. Consistent(p, r, n, H)
  BY <1>1, <1>2 DEF Consistent
<1> QED BY <1>1, <1>3 DEF n

\* What the invariant says of a single request.
LEMMA OfRequest ==
    ASSUME VersionsInv, NEW r \in Request
    PROVE  /\ TypeOK
           /\ req[r] \in RequestType
           /\ Consistent(plan[r], r, req[r], History)
           /\ RowOf(plan[r], r, req[r]) = Row(r)
           /\ Home(r) \in Server
           /\ req[r].row \subseteq History
           /\ cache[Home(r)] \subseteq History
<1>1. TypeOK /\ req[r] \in RequestType /\ Home(r) \in Server
  BY PlanType DEF VersionsInv, TypeOK
<1> QED BY <1>1 DEF VersionsInv, RowOf, Row, CachedRows, Consistent

\* Rows of the same version are the same row.
LEMMA OneRowPerVersion ==
    ASSUME VersionsInv, NEW t \in History, NEW u \in History,
           t.by = u.by \/ t.version = u.version
    PROVE  t = u
<1>1. t.by \in Request /\ u.by \in Request
  BY HistoryType DEF VersionsInv, RowType
<1>2. /\ t.version # 0 /\ t = Row(t.by) /\ t.version = req[t.by].version
      /\ u = Row(u.by) /\ u.version = req[u.by].version
  BY DEF VersionsInv, OwnRows, Row
<1>3. t.by = u.by
  BY <1>1, <1>2 DEF VersionsInv, OwnVersions
<1> QED BY <1>2, <1>3

\* Three ways to go on, for a step that may store the row of the request.
LEMMA GotoVersions ==
    ASSUME VersionsInv, TypeOK', NEW r \in Request, NEW pc \in Place, Goto(r, pc), Grows(r),
           req[r].pc # "answered", pc \notin {"idle", "parse"}, PlaceOfKind(plan[r].kind, pc),
           plan[r].kind = "write" /\ pc = "exec" => req[r].version # 0,
           plan[r].kind = "write" /\ pc \in {"record", "invalidate"} => Row(r) \in History'
    PROVE  VersionsInv'
<1>1. /\ req[r] \in RequestType
      /\ RowOf(plan[r], r, req[r]) = Row(r)
      /\ Consistent(plan[r], r, req[r], History')
  BY OfRequest, ConsistentMore DEF Grows
<1>2. /\ Consistent(plan[r], r, [req[r] EXCEPT !.pc = pc], History')
      /\ [req[r] EXCEPT !.pc = pc].version = req[r].version
  BY <1>1, ConsistentGoto
<1> QED BY <1>2, RequestStep DEF Goto

LEMMA AnswerVersions ==
    ASSUME VersionsInv, TypeOK', NEW r \in Request, NEW a \in Outcome, Answer(r, a), Grows(r),
           plan[r].kind = "write" /\ a = "ok" => Row(r) \in History'
    PROVE  VersionsInv'
<1> DEFINE q == [req[r] EXCEPT !.pc = "answered", !.answer = a]
<1>1. /\ req[r] \in RequestType
      /\ RowOf(plan[r], r, req[r]) = Row(r)
      /\ Consistent(plan[r], r, req[r], History')
  BY OfRequest, ConsistentMore DEF Grows
<1>2. /\ q.pc = "answered" /\ q.answer = a /\ q.version = req[r].version
      /\ q.row = req[r].row /\ q.used = req[r].used
  BY <1>1 DEF RequestType
<1>3. RowOf(plan[r], r, q) = Row(r)
  BY <1>1, <1>2 DEF RowOf
<1>4. Become(r, q)
  BY DEF Answer
<1> HIDE DEF q
<1>5. Consistent(plan[r], r, q, History')
  BY <1>1, <1>2, <1>3 DEF Consistent, PlaceOfKind
<1> QED BY <1>2, <1>4, <1>5, RequestStep

LEMMA RetryVersions ==
    ASSUME VersionsInv, TypeOK', NEW r \in Request, Retry(r), Grows(r)
    PROVE  VersionsInv'
<1>1. CASE Become(r, [req[r] EXCEPT !.attempt = @ + 1])
  <2>1. req[r] \in RequestType /\ Consistent(plan[r], r, req[r], History')
    BY OfRequest, ConsistentMore DEF Grows
  <2>2. /\ Consistent(plan[r], r, [req[r] EXCEPT !.attempt = req[r].attempt + 1], History')
        /\ [req[r] EXCEPT !.attempt = req[r].attempt + 1].version = req[r].version
    BY <2>1, ConsistentRetry
  <2> QED BY <1>1, <2>2, RequestStep
<1>2. CASE Answer(r, "error")
  BY <1>2, AnswerVersions DEF Outcome
<1> QED BY <1>1, <1>2 DEF Retry

-----------------------------------------------------------------------------
\* The steps before the statement.
LEMMA BeginVersions ==
    ASSUME VersionsInv, TypeOK', NEW r \in Request, Begin(r)
    PROVE  VersionsInv'
<1> DEFINE after == {o \in Request : Answered(o)}
           known == IF Kind(r, "list") THEN Primary \cap Replica ELSE {}
           q == [Waiting EXCEPT !.pc = FirstStep(plan[r].kind), !.after = after,
                                !.known = known]
<1>1. Become(r, q)
  BY DEF Begin
<1>2. /\ q.pc = FirstStep(plan[r].kind) /\ q.answer = "none" /\ q.version = 0
      /\ q.row = {} /\ q.used = <<>>
  <2> HIDE DEF after, known
  <2> QED BY DEF Waiting
<1>3. req[r].version = 0
  BY OfRequest DEF Begin, At, Consistent
<1>4. plan[r].kind \in {"write", "validate", "delete", "check", "list", "data"}
  BY OfRequest, PlanType DEF TypeOK, Begin, Kind
<1>5. /\ PlaceOfKind(plan[r].kind, q.pc)
      /\ plan[r].kind = "write" => q.pc = "parse"
  BY <1>2, <1>4 DEF FirstStep, PlaceOfKind
<1> HIDE DEF q
<1>6. Consistent(plan[r], r, q, History)
  BY <1>2, <1>5 DEF Consistent
<1>7. Grows(r) /\ History' = History
  BY GrowsQuietly DEF Begin, Quietly, InDatabaseUnchanged
<1> QED BY <1>1, <1>2, <1>3, <1>6, <1>7, RequestStep

LEMMA ParseVersions ==
    ASSUME VersionsInv, TypeOK', NEW r \in Request, ParseDSL(r)
    PROVE  VersionsInv'
<1>1. Grows(r) /\ req[r].pc = "parse"
  BY GrowsQuietly DEF ParseDSL, Quietly, InDatabaseUnchanged, At
<1>2. CASE Goto(r, "hung")
  BY <1>1, <1>2, GotoVersions DEF PlaceOfKind, Place
<1>3. CASE Answer(r, "invalid")
  BY <1>1, <1>3, AnswerVersions DEF Outcome
<1>4. CASE Kind(r, "validate") /\ Answer(r, "ok")
  BY <1>1, <1>4, AnswerVersions DEF Outcome, Kind
<1> QED BY <1>2, <1>3, <1>4 DEF ParseDSL

\* The only step that gives a request a version: one that no other request has.
LEMMA NewVersionVersions ==
    ASSUME VersionsInv, TypeOK', NEW r \in Request, NewVersion(r)
    PROVE  VersionsInv'
<1>1. /\ TypeOK /\ req[r] \in RequestType /\ Home(r) \in Server
      /\ Consistent(plan[r], r, req[r], History)
  BY OfRequest
<1>2. PICK v \in FreshIds(Home(r)) : Become(r, [req[r] EXCEPT !.pc = "exec", !.version = v])
  BY DEF NewVersion
<1>3. /\ v \in Nat \ {0}
      /\ \A o \in Request : req[o].version # v
  BY <1>1, FreshIdsType
<1> DEFINE q == [req[r] EXCEPT !.pc = "exec", !.version = v]
<1>4. /\ q.pc = "exec" /\ q.answer = req[r].answer /\ q.version = v
      /\ q.row = req[r].row /\ q.used = req[r].used
  BY <1>1 DEF RequestType
<1>5. /\ req'[r] = q
      /\ \A o \in Request \ {r} : req'[o] = req[o]
  BY <1>1, <1>2, BecomeOnly DEF TypeOK
<1> HIDE DEF q
<1>6. /\ plan' = plan /\ cache' = cache /\ History' = History
      /\ req[r].pc = "parse" /\ plan[r].kind = "write" /\ plan[r].dsl.outcome = "accepted"
  BY SameHistory DEF NewVersion, InDatabaseUnchanged, plan, At, Kind
<1>7. Consistent(plan[r], r, q, History)
  BY <1>1, <1>3, <1>4, <1>6 DEF Consistent, PlaceOfKind
<1>8. \A o \in Request : Consistent(plan[o], o, req[o], History)'
  BY <1>5, <1>6, <1>7 DEF VersionsInv
<1>9. OwnVersions'
  BY <1>3, <1>4, <1>5 DEF VersionsInv, OwnVersions
<1>10. OwnRows'
  <2>1. req[r].version = 0
    BY <1>1, <1>6 DEF Consistent
  <2>2. ASSUME NEW t \in History
        PROVE  t.version # 0 /\ t = Row(t.by)'
    <3>1. t.by \in Request /\ t.version # 0 /\ t = Row(t.by)
      BY <1>1, HistoryType DEF VersionsInv, OwnRows, RowType
    <3>2. t.by # r
      BY <2>1, <3>1 DEF Row
    <3> QED BY <1>5, <1>6, <3>1, <3>2 DEF Row
  <2> QED BY <1>6, <2>2 DEF OwnRows
<1>11. CachedRows'
  BY <1>6 DEF VersionsInv, CachedRows
<1> QED BY <1>8, <1>9, <1>10, <1>11 DEF VersionsInv

-----------------------------------------------------------------------------
\* The statement and what follows it.
LEMMA InsertVersions ==
    ASSUME VersionsInv, TypeOK', NEW r \in Request, Insert(r)
    PROVE  VersionsInv'
<1>1. /\ req[r].pc = "exec" /\ plan[r].kind = "write"
      /\ TypeOK /\ Consistent(plan[r], r, req[r], History)
      /\ Primary \subseteq History
  BY OfRequest, HistoryType DEF Insert, At, Kind
<1>2. req[r].version # 0
  BY <1>1 DEF Consistent
<1>3. History' = History \cup {Row(r)}
  BY <1>1, CommitHistory DEF Insert
<1>4. Grows(r)
  BY <1>2, <1>3 DEF Insert, Commit, Grows, VersionsInv, CachedRows
<1>5. CASE Goto(r, "record")
  BY <1>1, <1>3, <1>4, <1>5, GotoVersions DEF PlaceOfKind, Place
<1>6. CASE Retry(r)
  BY <1>4, <1>6, RetryVersions
<1> QED BY <1>5, <1>6 DEF Insert, Acknowledge

LEMMA DeleteVersions ==
    ASSUME VersionsInv, TypeOK', NEW r \in Request, DeleteAll(r)
    PROVE  VersionsInv'
<1>1. req[r].pc = "exec" /\ plan[r].kind = "delete" /\ TypeOK
  BY OfRequest DEF DeleteAll, At, Kind
<1>2. History' = History
  BY <1>1, CommitHistory DEF DeleteAll
<1>3. Grows(r)
  BY <1>2 DEF DeleteAll, Commit, Grows, VersionsInv, CachedRows
<1>4. CASE Goto(r, "record")
  BY <1>1, <1>3, <1>4, GotoVersions DEF PlaceOfKind, Place
<1>5. CASE Retry(r)
  BY <1>3, <1>5, RetryVersions
<1> QED BY <1>4, <1>5 DEF DeleteAll, Acknowledge

LEMMA NoStatementVersions ==
    ASSUME VersionsInv, TypeOK', NEW r \in Request,
           InsertDuplicate(r) \/ DeleteNothing(r) \/ StatementFails(r)
    PROVE  VersionsInv'
<1>1. Grows(r)
  BY GrowsQuietly DEF InsertDuplicate, DeleteNothing, StatementFails, Quietly,
                      InDatabaseUnchanged
<1>2. CASE InsertDuplicate(r)
  BY <1>1, <1>2, AnswerVersions DEF InsertDuplicate, Outcome
<1>3. CASE DeleteNothing(r)
  BY <1>1, <1>3, AnswerVersions DEF DeleteNothing, Outcome
<1>4. CASE StatementFails(r)
  BY <1>1, <1>4, RetryVersions DEF StatementFails
<1> QED BY <1>2, <1>3, <1>4

LEMMA AfterwardsVersions ==
    ASSUME VersionsInv, TypeOK', NEW r \in Request, RecordWrite(r) \/ Invalidate(r)
    PROVE  VersionsInv'
<1>1. /\ RowOf(plan[r], r, req[r]) = Row(r)
      /\ Consistent(plan[r], r, req[r], History)
  BY OfRequest
<1>2. CASE RecordWrite(r)
  <2>1. Grows(r) /\ History' = History /\ req[r].pc = "record"
    BY <1>2, GrowsQuietly DEF RecordWrite, InDatabaseUnchanged, At
  <2>2. CASE Kind(r, "data") /\ Answer(r, "ok")
    BY <2>1, <2>2, AnswerVersions DEF Kind, Outcome
  <2>3. CASE ~Kind(r, "data") /\ Goto(r, "invalidate")
    <3>1. plan[r].kind \in {"write", "delete"}
      BY <1>1, <2>1, <2>3 DEF Consistent, PlaceOfKind, Kind
    <3>2. PlaceOfKind(plan[r].kind, "invalidate") /\ "invalidate" \in Place
      BY <3>1 DEF PlaceOfKind, Place
    <3>3. plan[r].kind = "write" => Row(r) \in History'
      BY <1>1, <2>1 DEF Consistent
    <3> QED BY <2>1, <2>3, <3>2, <3>3, GotoVersions
  <2> QED BY <1>2, <2>2, <2>3 DEF RecordWrite
<1>3. CASE Invalidate(r)
  <2>1. /\ req[r].pc = "invalidate" /\ History' = History
        /\ \A s \in Server : cache'[s] \subseteq cache[s]
    <3>1. cache \in [Server -> SUBSET RowType]
      BY DEF VersionsInv, TypeOK
    <3> QED BY <1>3, <3>1, SameHistory DEF Invalidate, InDatabaseUnchanged, At
  <2>2. Grows(r)
    BY <1>3, <2>1 DEF Grows, Invalidate, InDatabaseUnchanged, VersionsInv, CachedRows
  <2>3. plan[r].kind = "write" => Row(r) \in History'
    BY <1>1, <2>1 DEF Consistent
  <2> QED BY <1>3, <2>2, <2>3, AnswerVersions DEF Invalidate, Outcome
<1> QED BY <1>2, <1>3

-----------------------------------------------------------------------------
\* A check reads only what was stored: the version it used before, if it used one.
LEMMA WantedVersions ==
    ASSUME VersionsInv, NEW r \in Request, NEW T, T \subseteq History
    PROVE  /\ Wanted(r, T) \subseteq History
           /\ req[r].used # <<>> => Wanted(r, T) \subseteq {req[r].used[1]}
<1>1. Wanted(r, T) \subseteq History
  BY DEF Wanted
<1>2. ASSUME req[r].used # <<>>, NEW t \in Wanted(r, T)
      PROVE  t = req[r].used[1]
  <2>1. req[r].used \in Seq(RowType) /\ Consistent(plan[r], r, req[r], History)
    BY OfRequest DEF RequestType
  <2>2. 1 \in 1..Len(req[r].used)
    BY <1>2, <2>1
  <2>3. req[r].used[1] \in History
    BY <2>1, <2>2 DEF Consistent
  <2>4. t \in History /\ t.version = req[r].used[1].version
    BY <1>2 DEF Wanted
  <2> QED BY <2>3, <2>4, OneRowPerVersion
<1> QED BY <1>1, <1>2

LEMMA ReadVersions ==
    ASSUME VersionsInv, TypeOK', NEW r \in Request, ReadRow(r)
    PROVE  VersionsInv'
<1>1. /\ Grows(r) /\ History' = History /\ req[r].pc = "read"
  BY GrowsQuietly DEF ReadRow, Quietly, InDatabaseUnchanged, At
<1>2. CASE Answer(r, "notFound")
  BY <1>1, <1>2, AnswerVersions DEF Outcome
<1> DEFINE found == Wanted(r, ReadTable(Home(r)))
           q == [req[r] EXCEPT !.pc = "cache", !.row = found]
<1>3. CASE Become(r, q)
  <2>1. /\ req[r] \in RequestType
        /\ Consistent(plan[r], r, req[r], History)
        /\ ReadTable(Home(r)) \subseteq History
    BY OfRequest, HistoryType
  <2>2. /\ found \subseteq History
        /\ req[r].used # <<>> => found \subseteq {req[r].used[1]}
    BY <2>1, WantedVersions
  <2> HIDE DEF found
  <2>3. /\ q.pc = "cache" /\ q.answer = req[r].answer /\ q.version = req[r].version
        /\ q.row = found /\ q.used = req[r].used
    BY <2>1 DEF RequestType
  <2> HIDE DEF q
  <2>4. plan[r].kind = "check"
    BY <1>1, <2>1 DEF Consistent, PlaceOfKind
  <2>5. Consistent(plan[r], r, q, History)
    BY <1>1, <2>1, <2>2, <2>3, <2>4 DEF Consistent, PlaceOfKind
  <2> QED BY <1>1, <1>3, <2>3, <2>5, RequestStep
<1> QED BY <1>2, <1>3 DEF ReadRow

\* Whether it comes from the cache or from the text, the schema is of the row read.
LEMMA UseVersions ==
    ASSUME VersionsInv, TypeOK', NEW r \in Request, NEW schema \in req[r].row,
           req[r].pc = "cache", Use(r, schema), Grows(r), History' = History
    PROVE  VersionsInv'
<1> DEFINE used == Append(req[r].used, schema)
           q == [req[r] EXCEPT !.pc = "using", !.row = {}, !.used = used]
<1>1. /\ req[r] \in RequestType
      /\ Consistent(plan[r], r, req[r], History)
      /\ req[r].used \in Seq(RowType)
      /\ schema \in History
  BY OfRequest DEF RequestType
<1>2. /\ q.pc = "using" /\ q.answer = req[r].answer /\ q.version = req[r].version
      /\ q.row = {} /\ q.used = used
  <2> HIDE DEF used
  <2> QED BY <1>1 DEF RequestType
<1>3. \A i \in 1..Len(used) : used[i] = used[1] /\ used[i] \in History
  <2>1. /\ \A i \in 1..Len(req[r].used) :
              req[r].used[i] = req[r].used[1] /\ req[r].used[i] \in History
        /\ req[r].used # <<>> => schema = req[r].used[1]
    BY <1>1 DEF Consistent
  <2>2. /\ Len(used) = Len(req[r].used) + 1
        /\ used[Len(req[r].used) + 1] = schema
        /\ \A i \in 1..Len(req[r].used) : used[i] = req[r].used[i]
    BY <1>1
  <2>3. CASE req[r].used = <<>>
    <3>1. Len(used) = 1 /\ used[1] = schema
      BY <2>2, <2>3
    <3> QED BY <1>1, <3>1
  <2>4. CASE req[r].used # <<>>
    <3>1. Len(req[r].used) \in Nat \ {0}
      BY <1>1, <2>4
    <3>2. used[1] = req[r].used[1] /\ schema = used[1]
      BY <2>1, <2>2, <2>4, <3>1
    <3>3. ASSUME NEW i \in 1..Len(used)
          PROVE  used[i] = used[1] /\ used[i] \in History
      <4>1. CASE i \in 1..Len(req[r].used)
        BY <2>1, <2>2, <3>2, <4>1
      <4>2. CASE i = Len(req[r].used) + 1
        BY <1>1, <2>2, <3>2, <4>2
      <4> QED BY <2>2, <3>1, <3>3, <4>1, <4>2
    <3> QED BY <3>3
  <2> QED BY <2>3, <2>4
<1> HIDE DEF used
<1>4. Become(r, q)
  BY DEF Use, used
<1> HIDE DEF q
<1>5. plan[r].kind = "check"
  BY <1>1 DEF Consistent, PlaceOfKind
<1>6. Consistent(plan[r], r, q, History)
  BY <1>1, <1>2, <1>3, <1>5 DEF Consistent, PlaceOfKind
<1> QED BY <1>2, <1>4, <1>6, RequestStep

LEMMA CheckVersions ==
    ASSUME VersionsInv, TypeOK', NEW r \in Request,
           LoadCached(r) \/ ParseAndStore(r) \/ AskAgain(r) \/ Decide(r)
    PROVE  VersionsInv'
<1>1. CASE LoadCached(r)
  <2>1. Grows(r) /\ History' = History /\ req[r].pc = "cache"
    BY <1>1, GrowsQuietly DEF LoadCached, Quietly, InDatabaseUnchanged, At
  <2>2. PICK schema \in Cached(r) : Use(r, schema)
    BY <1>1 DEF LoadCached
  <2>3. /\ schema \in History
        /\ \E t \in req[r].row : t \in History /\ schema.version = t.version
    BY OfRequest DEF Cached, Versions
  <2>4. schema \in req[r].row
    BY <2>3, OneRowPerVersion
  <2> QED BY <2>1, <2>2, <2>4, UseVersions
<1>2. CASE ParseAndStore(r)
  <2>1. PICK row \in req[r].row :
            /\ Use(r, row)
            /\ cache' = [cache EXCEPT ![Home(r)] = @ \cup {row}]
    BY <1>2 DEF ParseAndStore
  <2>2. row \in History
    BY OfRequest
  <2>3. History' = History /\ scenario' = scenario /\ req[r].pc = "cache"
    BY <1>2, SameHistory DEF ParseAndStore, InDatabaseUnchanged, At
  <2>4. \A s \in Server : cache'[s] \subseteq History
    <3>1. cache \in [Server -> SUBSET RowType]
      BY DEF VersionsInv, TypeOK
    <3> QED BY <2>1, <2>2, <3>1 DEF VersionsInv, CachedRows
  <2>5. Grows(r)
    BY <2>3, <2>4 DEF Grows
  <2> QED BY <2>1, <2>3, <2>5, UseVersions
<1>3. CASE AskAgain(r)
  <2>1. Grows(r) /\ Goto(r, "read") /\ req[r].pc = "using"
    BY <1>3, GrowsQuietly DEF AskAgain, Quietly, InDatabaseUnchanged, At
  <2>2. plan[r].kind = "check"
    BY <2>1, OfRequest DEF Consistent, PlaceOfKind
  <2>3. PlaceOfKind(plan[r].kind, "read") /\ "read" \in Place
    BY <2>2 DEF PlaceOfKind, Place
  <2> QED BY <2>1, <2>2, <2>3, GotoVersions
<1>4. CASE Decide(r)
  <2>1. Grows(r) /\ Answer(r, "ok") /\ req[r].pc = "using"
    BY <1>4, GrowsQuietly DEF Decide, Quietly, InDatabaseUnchanged, At
  <2>2. plan[r].kind = "check" /\ "ok" \in Outcome
    BY <2>1, OfRequest DEF Consistent, PlaceOfKind, Outcome
  <2> QED BY <2>1, <2>2, AnswerVersions
<1> QED BY <1>1, <1>2, <1>3, <1>4

LEMMA ListVersions ==
    ASSUME VersionsInv, TypeOK', NEW r \in Request,
           (\E s \in Server : ListPage(r, s)) \/ ReadFails(r)
    PROVE  VersionsInv'
<1>1. Grows(r) /\ History' = History
  BY GrowsQuietly DEF ListPage, ReadFails, Quietly, InDatabaseUnchanged
<1>2. ASSUME NEW s \in Server, ListPage(r, s)
      PROVE  VersionsInv'
  <2> DEFINE pages == Append(req[r].pages, Shown(r, ReadTable(s)))
             q == [req[r] EXCEPT !.pages = pages]
             last == [q EXCEPT !.pc = "answered", !.answer = "ok"]
  <2>1. /\ req[r] \in RequestType
        /\ Consistent(plan[r], r, req[r], History)
        /\ req[r].pc = "page"
    BY <1>2, OfRequest DEF ListPage, At
  <2>2. plan[r].kind = "list"
    BY <2>1 DEF Consistent, PlaceOfKind
  <2>3. Become(r, q) \/ Become(r, last)
    BY <1>2 DEF ListPage
  <2> HIDE DEF pages
  <2>4. /\ q.pc = "page" /\ q.answer = req[r].answer /\ q.version = req[r].version
        /\ q.row = req[r].row /\ q.used = req[r].used
    BY <2>1 DEF RequestType
  <2>5. /\ last.pc = "answered" /\ last.answer = "ok" /\ last.version = req[r].version
        /\ last.row = req[r].row /\ last.used = req[r].used
    BY <2>1 DEF RequestType
  <2> HIDE DEF q, last
  <2>6. Consistent(plan[r], r, q, History) /\ Consistent(plan[r], r, last, History)
    BY <2>1, <2>2, <2>4, <2>5 DEF Consistent, PlaceOfKind
  <2>7. CASE Become(r, q)
    BY <1>1, <2>4, <2>6, <2>7, RequestStep
  <2>8. CASE Become(r, last)
    BY <1>1, <2>5, <2>6, <2>8, RequestStep
  <2> QED BY <2>3, <2>7, <2>8
<1>3. CASE ReadFails(r)
  BY <1>1, <1>3, AnswerVersions DEF ReadFails, Outcome
<1> QED BY <1>2, <1>3

-----------------------------------------------------------------------------
LEMMA VersionsInit == Init => VersionsInv
<1> SUFFICES ASSUME Init PROVE VersionsInv
  OBVIOUS
<1>1. TypeOK
  BY InitType
<1>2. History = {}
  BY DEF Init, History
<1>3. \A r \in Request : req[r] = Waiting
  BY DEF Init
<1>4. OwnVersions /\ OwnRows /\ CachedRows
  BY <1>2, <1>3 DEF Init, OwnVersions, OwnRows, CachedRows, Waiting
<1>5. \A r \in Request : Consistent(plan[r], r, req[r], History)
  BY <1>3 DEF Waiting, Consistent, PlaceOfKind
<1> QED BY <1>1, <1>4, <1>5 DEF VersionsInv

LEMMA VersionsStep == VersionsInv /\ [Next]_vars => VersionsInv'
<1> SUFFICES ASSUME VersionsInv, [Next]_vars PROVE VersionsInv'
  OBVIOUS
<1>0. TypeOK'
  BY NextType DEF VersionsInv
<1>1. ASSUME NEW r \in Request, Begin(r)
      PROVE  VersionsInv'
  BY <1>0, <1>1, BeginVersions
<1>2. ASSUME NEW r \in Request, Step(r)
      PROVE  VersionsInv'
  BY <1>0, <1>2, ParseVersions, NewVersionVersions, InsertVersions, DeleteVersions,
     NoStatementVersions, AfterwardsVersions, ReadVersions, CheckVersions, ListVersions
     DEF Step
<1>3. CASE UNCHANGED <<scenario, tables, cache, req>>
  <2>1. History' = History /\ plan' = plan
    BY <1>3, SameHistory DEF plan
  <2>2. OwnVersions' /\ CachedRows'
    BY <1>3, <2>1 DEF VersionsInv, OwnVersions, CachedRows
  <2>3. OwnRows'
    BY <1>3, <2>1 DEF VersionsInv, OwnRows, Row
  <2>4. \A r \in Request : Consistent(plan[r], r, req[r], History)'
    BY <1>3, <2>1 DEF VersionsInv
  <2> QED BY <1>0, <2>2, <2>3, <2>4 DEF VersionsInv
<1> QED BY <1>1, <1>2, <1>3 DEF Next, ReplicaApply, Tick, vars

\* A write stores an accepted text under one version, its own, however often its
\* INSERT is sent again and by whatever requests at however many servers.
THEOREM StoredOnceCorrect == Spec => []StoredOnce
<1>1. VersionsInv => StoredOnce
  <2> SUFFICES ASSUME VersionsInv PROVE StoredOnce
    OBVIOUS
  <2>1. ASSUME NEW t \in History
        PROVE  /\ Kind(t.by, "write") /\ t.version = req[t.by].version
               /\ t.dsl = plan[t.by].dsl /\ t.dsl.outcome = "accepted"
    <3>1. t.by \in Request
      BY HistoryType DEF VersionsInv, RowType
    <3>2. t.version # 0 /\ t = Row(t.by)
      BY DEF VersionsInv, OwnRows
    <3>3. t.version = req[t.by].version /\ t.dsl = plan[t.by].dsl
      BY <3>2 DEF Row
    <3> QED BY <3>1, <3>2, <3>3, OfRequest DEF Consistent, Kind
  <2>2. \A t, u \in History : t.by = u.by \/ t.version = u.version => t = u
    BY OneRowPerVersion
  <2>3. \A r \in Request : Kind(r, "write") /\ req[r].answer = "ok" => Row(r) \in History
    BY OfRequest DEF Consistent, Kind
  <2> QED BY <2>1, <2>2, <2>3 DEF StoredOnce
<1> QED BY <1>1, VersionsInit, VersionsStep, PTL DEF Spec

\* A check uses one schema, a stored one, whatever is written, deleted, invalidated
\* or cached while it runs.
THEOREM OneVersionCorrect == Spec => []OneVersion
<1>1. VersionsInv => OneVersion
  BY OfRequest DEF OneVersion, Consistent
<1> QED BY <1>1, VersionsInit, VersionsStep, PTL DEF Spec

-----------------------------------------------------------------------------
(***************************************************************************)
(* ListsAll.  A version a listing has to show is either on one of its pages *)
(* or below all of them, in every table its next page may come from.        *)
(***************************************************************************)

FiniteTables == \A i \in 1..Len(tables) : IsFiniteSet(Versions(tables[i]))

GrowingTables ==
    NothingDeleted => \A i, j \in 1..Len(tables) : i <= j => tables[i] \subseteq tables[j]

\* Known rows are wherever a page may come from.
KnownStays(K) == \A i \in applied..Len(tables) : K \subseteq tables[i]

Descending(pages) ==
    \A i, j \in 1..Len(pages) : i < j => \A v \in pages[i], w \in pages[j] : w < v

OnPage(v, pages) == \E i \in 1..Len(pages) : v \in pages[i]

BelowPages(v, pages) == \A i \in 1..Len(pages) : \A w \in pages[i] : v < w

ShownOrBelow(q) ==
    \A v \in Versions(q.known) :
        OnPage(v, q.pages) \/ (q.answer # "ok" /\ BelowPages(v, q.pages))

ListInv ==
    /\ VersionsInv
    /\ FiniteTables
    /\ GrowingTables
    /\ \A r \in Request :
          /\ Descending(req[r].pages)
          /\ \A i \in 1..Len(req[r].pages) : req[r].pages[i] \subseteq Versions(History)
          /\ NothingDeleted =>
                /\ KnownStays(req[r].known)
                /\ Kind(r, "list") => ShownOrBelow(req[r])

\* What is not among the n greatest of a set is below them, and there are more.
LEMMA GreatestFirst ==
    ASSUME NEW B \in SUBSET Nat, IsFiniteSet(B), NEW n \in Nat, NEW v \in B,
           v \notin Greatest(n, B)
    PROVE  /\ Cardinality(B) > n
           /\ \A w \in Greatest(n, B) : v < w
<1> DEFINE Above(x) == {w \in B : x <= w}
<1>1. \A x \in B : IsFiniteSet(Above(x)) /\ Cardinality(Above(x)) \in Nat
  <2> SUFFICES ASSUME NEW x \in B
               PROVE  IsFiniteSet(Above(x)) /\ Cardinality(Above(x)) \in Nat
    OBVIOUS
  <2>1. Above(x) \in SUBSET B
    OBVIOUS
  <2>2. IsFiniteSet(Above(x))
    BY <2>1, FS_Subset
  <2> QED BY <2>2, FS_CardinalityType
<1>2. Cardinality(Above(v)) > n
  BY <1>1 DEF Greatest
<1>3. Cardinality(B) > n
  <2>1. Above(v) \in SUBSET B
    OBVIOUS
  <2>2. Cardinality(Above(v)) <= Cardinality(B)
    BY <2>1, FS_Subset
  <2>3. Cardinality(B) \in Nat
    BY FS_CardinalityType
  <2> QED BY <1>1, <1>2, <2>2, <2>3
<1>4. ASSUME NEW w \in Greatest(n, B)
      PROVE  v < w
  <2>1. w \in B /\ Cardinality(Above(w)) <= n
    BY DEF Greatest
  <2>2. ASSUME w <= v
        PROVE  FALSE
    <3>1. Above(v) \in SUBSET Above(w)
      <4> SUFFICES ASSUME NEW x \in B, v <= x PROVE w <= x
        OBVIOUS
      <4>1. w \in Nat /\ v \in Nat /\ x \in Nat
        BY <2>1
      <4> QED BY <2>2, <4>1
    <3>2. Cardinality(Above(v)) <= Cardinality(Above(w))
      <4> HIDE DEF Above
      <4> QED BY <1>1, <2>1, <3>1, FS_Subset
    <3> QED BY <1>1, <1>2, <2>1, <3>2
  <2> QED BY <2>1, <2>2
<1> QED BY <1>3, <1>4

\* A new table: nothing that is known is lost unless something is deleted.
LEMMA AppendTable ==
    ASSUME ListInv, NEW T \in SUBSET RowType, IsFiniteSet(Versions(T)),
           tables' = Append(tables, T), applied' = applied
    PROVE  /\ FiniteTables' /\ GrowingTables'
           /\ NothingDeleted' => NothingDeleted
           /\ \A K : NothingDeleted' /\ KnownStays(K) => KnownStays(K)'
<1> DEFINE n == Len(tables)
<1>1. /\ n \in Nat \ {0} /\ applied \in 1..n
      /\ Len(tables') = n + 1 /\ tables'[n + 1] = T
      /\ \A i \in 1..n : tables'[i] = tables[i]
  BY DEF ListInv, VersionsInv, TypeOK
<1> HIDE DEF n
<1>2. FiniteTables'
  <2>1. \A i \in 1..n + 1 : IsFiniteSet(Versions(tables'[i]))
    BY <1>1 DEF ListInv, FiniteTables, n
  <2> QED BY <1>1, <2>1 DEF FiniteTables, Versions
<1>3. NothingDeleted' => NothingDeleted /\ tables[n] \subseteq T
  <2> SUFFICES ASSUME NothingDeleted' PROVE NothingDeleted /\ tables[n] \subseteq T
    OBVIOUS
  <2>1. \A i \in 1..n : tables'[i] \subseteq tables'[i + 1]
    BY <1>1 DEF NothingDeleted
  <2>2. \A i \in 1..n - 1 : tables[i] \subseteq tables[i + 1]
    <3> SUFFICES ASSUME NEW i \in 1..n - 1 PROVE tables[i] \subseteq tables[i + 1]
      OBVIOUS
    <3>1. i \in 1..n /\ i + 1 \in 1..n
      BY <1>1
    <3> QED BY <1>1, <2>1, <3>1
  <2>3. tables[n] \subseteq T
    BY <1>1, <2>1
  <2> QED BY <2>2, <2>3 DEF NothingDeleted, n
<1>4. NothingDeleted' => \A i \in 1..n : tables[i] \subseteq T
  BY <1>1, <1>3 DEF ListInv, GrowingTables, n
<1>5. GrowingTables'
  <2> SUFFICES ASSUME NothingDeleted', NEW i \in 1..n + 1, NEW j \in 1..n + 1, i <= j
               PROVE  tables'[i] \subseteq tables'[j]
    BY <1>1 DEF GrowingTables
  <2>1. CASE j \in 1..n
    <3>1. i \in 1..n
      BY <1>1, <2>1
    <3> QED BY <1>1, <1>3, <2>1, <3>1 DEF ListInv, GrowingTables, n
  <2>2. CASE j = n + 1 /\ i \in 1..n
    BY <1>1, <1>4, <2>2
  <2>3. CASE j = n + 1 /\ i = n + 1
    BY <2>3
  <2> QED BY <1>1, <2>1, <2>2, <2>3
<1>6. ASSUME NEW K, NothingDeleted', KnownStays(K)
      PROVE  KnownStays(K)'
  <2>1. \A i \in applied..n : K \subseteq tables[i]
    BY <1>6 DEF KnownStays, n
  <2>2. K \subseteq T
    BY <1>1, <1>3, <1>6, <2>1
  <2>3. \A i \in applied..n + 1 : K \subseteq tables'[i]
    <3> SUFFICES ASSUME NEW i \in applied..n + 1 PROVE K \subseteq tables'[i]
      OBVIOUS
    <3>1. CASE i \in applied..n
      BY <1>1, <2>1, <3>1
    <3>2. CASE i = n + 1
      BY <1>1, <2>2, <3>2
    <3> QED BY <1>1, <3>1, <3>2
  <2> QED BY <1>1, <2>3 DEF KnownStays
<1> QED BY <1>2, <1>3, <1>5, <1>6

\* No step but that of a listing touches the pages, what is known, or answers a
\* listing.
KeepsPages ==
    \A o \in Request :
        /\ req'[o].pages = req[o].pages /\ req'[o].known = req[o].known
        /\ Kind(o, "list") /\ req'[o].answer = "ok" => req[o].answer = "ok"

LEMMA BecomeKeeps ==
    ASSUME TypeOK, NEW r \in Request, NEW q, Become(r, q),
           q.pages = req[r].pages, q.known = req[r].known,
           Kind(r, "list") /\ q.answer = "ok" => req[r].answer = "ok"
    PROVE  KeepsPages
BY BecomeOnly DEF TypeOK, KeepsPages

LEMMA GotoKeeps ==
    ASSUME TypeOK, NEW r \in Request, NEW pc, Goto(r, pc)
    PROVE  KeepsPages
<1> DEFINE q == [req[r] EXCEPT !.pc = pc]
<1>1. req[r] \in RequestType
  BY DEF TypeOK
<1>2. q.pages = req[r].pages /\ q.known = req[r].known /\ q.answer = req[r].answer
  BY <1>1 DEF RequestType
<1>3. Become(r, q)
  BY DEF Goto
<1> HIDE DEF q
<1> QED BY <1>2, <1>3, BecomeKeeps

LEMMA AnswerKeeps ==
    ASSUME TypeOK, NEW r \in Request, NEW a, Answer(r, a), Kind(r, "list") => a # "ok"
    PROVE  KeepsPages
<1> DEFINE q == [req[r] EXCEPT !.pc = "answered", !.answer = a]
<1>1. req[r] \in RequestType
  BY DEF TypeOK
<1>2. q.pages = req[r].pages /\ q.known = req[r].known /\ q.answer = a
  BY <1>1 DEF RequestType
<1>3. Become(r, q)
  BY DEF Answer
<1> HIDE DEF q
<1> QED BY <1>2, <1>3, BecomeKeeps

LEMMA RetryKeeps ==
    ASSUME TypeOK, NEW r \in Request, Retry(r)
    PROVE  KeepsPages
<1>1. CASE Become(r, [req[r] EXCEPT !.attempt = @ + 1])
  <2> DEFINE q == [req[r] EXCEPT !.attempt = req[r].attempt + 1]
  <2>1. req[r] \in RequestType
    BY DEF TypeOK
  <2>2. q.pages = req[r].pages /\ q.known = req[r].known /\ q.answer = req[r].answer
    BY <2>1 DEF RequestType
  <2>3. Become(r, q)
    BY <1>1
  <2> HIDE DEF q
  <2> QED BY <2>2, <2>3, BecomeKeeps
<1>2. CASE Answer(r, "error")
  BY <1>2, AnswerKeeps
<1> QED BY <1>1, <1>2 DEF Retry

LEMMA UseKeeps ==
    ASSUME TypeOK, NEW r \in Request, NEW schema, Use(r, schema)
    PROVE  KeepsPages
<1> DEFINE used == Append(req[r].used, schema)
           q == [req[r] EXCEPT !.pc = "using", !.row = {}, !.used = used]
<1>1. req[r] \in RequestType
  BY DEF TypeOK
<1>2. q.pages = req[r].pages /\ q.known = req[r].known /\ q.answer = req[r].answer
  <2> HIDE DEF used
  <2> QED BY <1>1 DEF RequestType
<1>3. Become(r, q)
  BY DEF Use
<1> HIDE DEF q
<1> QED BY <1>2, <1>3, BecomeKeeps

LEMMA StepKeeps ==
    ASSUME VersionsInv, NEW r \in Request, Step(r), ~(\E s \in Server : ListPage(r, s))
    PROVE  KeepsPages
<1>1. TypeOK /\ req[r] \in RequestType /\ Consistent(plan[r], r, req[r], History)
  BY OfRequest
<1>2. CASE ParseDSL(r)
  BY <1>1, <1>2, GotoKeeps, AnswerKeeps DEF ParseDSL, Kind
<1>3. CASE NewVersion(r)
  <2>1. PICK v : Become(r, [req[r] EXCEPT !.pc = "exec", !.version = v])
    BY <1>3 DEF NewVersion
  <2> DEFINE q == [req[r] EXCEPT !.pc = "exec", !.version = v]
  <2>2. q.pages = req[r].pages /\ q.known = req[r].known /\ q.answer = req[r].answer
    BY <1>1 DEF RequestType
  <2> HIDE DEF q
  <2> QED BY <1>1, <2>1, <2>2, BecomeKeeps DEF q
<1>4. CASE Insert(r) \/ DeleteAll(r)
  BY <1>1, <1>4, GotoKeeps, RetryKeeps DEF Insert, DeleteAll, Acknowledge
<1>5. CASE InsertDuplicate(r) \/ DeleteNothing(r) \/ StatementFails(r)
  BY <1>1, <1>5, AnswerKeeps, RetryKeeps
     DEF InsertDuplicate, DeleteNothing, StatementFails
<1>6. CASE RecordWrite(r)
  BY <1>1, <1>6, GotoKeeps, AnswerKeeps DEF RecordWrite, Kind
<1>7. CASE Invalidate(r)
  <2>1. plan[r].kind # "list"
    BY <1>1, <1>7 DEF Invalidate, At, Consistent, PlaceOfKind
  <2> QED BY <1>1, <1>7, <2>1, AnswerKeeps DEF Invalidate, Kind
<1>8. CASE ReadRow(r)
  <2> DEFINE found == Wanted(r, ReadTable(Home(r)))
             q == [req[r] EXCEPT !.pc = "cache", !.row = found]
  <2>1. Answer(r, "notFound") \/ Become(r, q)
    BY <1>8 DEF ReadRow
  <2> HIDE DEF found
  <2>2. q.pages = req[r].pages /\ q.known = req[r].known /\ q.answer = req[r].answer
    BY <1>1 DEF RequestType
  <2> HIDE DEF q
  <2> QED BY <1>1, <2>1, <2>2, AnswerKeeps, BecomeKeeps
<1>9. CASE LoadCached(r) \/ ParseAndStore(r)
  BY <1>1, <1>9, UseKeeps DEF LoadCached, ParseAndStore
<1>10. CASE AskAgain(r)
  BY <1>1, <1>10, GotoKeeps DEF AskAgain
<1>11. CASE Decide(r)
  <2>1. plan[r].kind # "list"
    BY <1>1, <1>11 DEF Decide, At, Consistent, PlaceOfKind
  <2> QED BY <1>1, <1>11, <2>1, AnswerKeeps DEF Decide, Kind
<1>12. CASE ReadFails(r)
  BY <1>1, <1>12, AnswerKeeps DEF ReadFails
<1> QED BY <1>2, <1>3, <1>4, <1>5, <1>6, <1>7, <1>8, <1>9, <1>10, <1>11, <1>12 DEF Step

\* What a step makes of the tables.
TablesGrow ==
    \/ tables' = tables /\ applied' = applied
    \/ tables' = tables /\ applied < Len(tables) /\ applied' = applied + 1
    \/ /\ applied' = applied
       /\ \E T \in SUBSET RowType :
             IsFiniteSet(Versions(T)) /\ tables' = Append(tables, T)

LEMMA TablesStep ==
    ASSUME ListInv, TablesGrow
    PROVE  /\ FiniteTables' /\ GrowingTables'
           /\ NothingDeleted' => NothingDeleted
           /\ \A K : NothingDeleted' /\ KnownStays(K) => KnownStays(K)'
           /\ Versions(History) \subseteq Versions(History)'
<1>1. CASE tables' = tables /\ (applied' = applied \/ applied' = applied + 1)
  <2>1. FiniteTables' /\ GrowingTables'
    BY <1>1 DEF ListInv, FiniteTables, GrowingTables, NothingDeleted, Versions
  <2>2. NothingDeleted' => NothingDeleted
    BY <1>1 DEF NothingDeleted
  <2>3. \A K : KnownStays(K) => KnownStays(K)'
    <3>1. applied \in Nat /\ Len(tables) \in Nat
      BY DEF ListInv, VersionsInv, TypeOK
    <3> QED BY <1>1, <3>1 DEF KnownStays
  <2>4. Versions(History)' = Versions(History)
    BY <1>1, SameHistory DEF Versions
  <2> QED BY <2>1, <2>2, <2>3, <2>4
<1>2. ASSUME applied' = applied, NEW T \in SUBSET RowType, IsFiniteSet(Versions(T)),
             tables' = Append(tables, T)
      PROVE  /\ FiniteTables' /\ GrowingTables'
             /\ NothingDeleted' => NothingDeleted
             /\ \A K : NothingDeleted' /\ KnownStays(K) => KnownStays(K)'
             /\ Versions(History) \subseteq Versions(History)'
  <2>1. /\ Len(tables) \in Nat /\ Len(tables') = Len(tables) + 1
        /\ \A i \in 1..Len(tables) : tables'[i] = tables[i]
    BY <1>2 DEF ListInv, VersionsInv, TypeOK
  <2>2. History \subseteq History'
    BY <2>1 DEF History
  <2>3. Versions(History) \subseteq Versions(History)'
    BY <2>2 DEF Versions
  <2> QED BY <1>2, <2>3, AppendTable
<1> QED BY <1>1, <1>2 DEF TablesGrow

\* A step that keeps the pages keeps what is to be shown.
LEMMA KeepsList ==
    ASSUME ListInv, VersionsInv', KeepsPages, TablesGrow, scenario' = scenario
    PROVE  ListInv'
<1>1. /\ FiniteTables' /\ GrowingTables'
      /\ NothingDeleted' => NothingDeleted
      /\ \A K : NothingDeleted' /\ KnownStays(K) => KnownStays(K)'
      /\ Versions(History) \subseteq Versions(History)'
  BY TablesStep
<1>2. ASSUME NEW r \in Request
      PROVE  /\ Descending(req'[r].pages)
             /\ \A i \in 1..Len(req'[r].pages) :
                   req'[r].pages[i] \subseteq Versions(History)'
             /\ NothingDeleted' =>
                   /\ KnownStays(req[r].known)'
                   /\ Kind(r, "list")' => ShownOrBelow(req'[r])
  <2>1. /\ req'[r].pages = req[r].pages /\ req'[r].known = req[r].known
        /\ Kind(r, "list")' = Kind(r, "list")
        /\ Kind(r, "list") /\ req'[r].answer = "ok" => req[r].answer = "ok"
    BY DEF KeepsPages, Kind, plan
  <2>2. /\ Descending(req[r].pages)
        /\ \A i \in 1..Len(req[r].pages) : req[r].pages[i] \subseteq Versions(History)
        /\ NothingDeleted =>
              /\ KnownStays(req[r].known)
              /\ Kind(r, "list") => ShownOrBelow(req[r])
    BY DEF ListInv
  <2>3. ASSUME NothingDeleted'
        PROVE  KnownStays(req[r].known)'
    <3> DEFINE K == req[r].known
    <3>1. KnownStays(K)
      BY <1>1, <2>2, <2>3
    <3>2. \A i \in applied'..Len(tables') : K \subseteq tables'[i]
      <4> HIDE DEF K
      <4> QED BY <1>1, <2>3, <3>1 DEF KnownStays
    <3> QED BY <2>1, <3>2 DEF KnownStays
  <2>4. Kind(r, "list") /\ ShownOrBelow(req[r]) => ShownOrBelow(req'[r])
    BY <2>1 DEF ShownOrBelow
  <2> QED BY <1>1, <2>1, <2>2, <2>3, <2>4
<1> QED BY <1>1, <1>2 DEF ListInv

\* What the steps of the requests make of the tables.
LEMMA StepTables ==
    ASSUME ListInv, NEW r \in Request, Begin(r) \/ Step(r)
    PROVE  TablesGrow /\ scenario' = scenario
<1>1. CASE Insert(r)
  <2>1. TypeOK /\ Primary \in SUBSET RowType /\ Row(r) \in RowType
    BY TablesType, RowOfType DEF ListInv, VersionsInv
  <2>2. IsFiniteSet(Versions(Primary))
    <3>1. Len(tables) \in 1..Len(tables)
      BY <2>1 DEF TypeOK
    <3> QED BY <3>1 DEF ListInv, FiniteTables, Primary
  <2>3. Versions(Primary \cup {Row(r)}) = Versions(Primary) \cup {Row(r).version}
    BY DEF Versions
  <2>4. IsFiniteSet(Versions(Primary \cup {Row(r)}))
    BY <2>2, <2>3, FS_AddElement
  <2>5. Primary \cup {Row(r)} \in SUBSET RowType
    BY <2>1
  <2> QED BY <1>1, <2>4, <2>5 DEF Insert, Commit, TablesGrow
<1>2. CASE DeleteAll(r)
  <2>1. Versions({}) = {}
    BY DEF Versions
  <2>2. IsFiniteSet(Versions({})) /\ {} \in SUBSET RowType
    BY <2>1, FS_EmptySet
  <2> QED BY <1>2, <2>2 DEF DeleteAll, Commit, TablesGrow
<1>3. CASE UNCHANGED <<tables, applied, scenario>>
  BY <1>3 DEF TablesGrow
<1>4. \/ Insert(r) \/ DeleteAll(r) \/ UNCHANGED <<tables, applied, scenario>>
  BY DEF Begin, Step, ParseDSL, NewVersion, InsertDuplicate, DeleteNothing, StatementFails,
         RecordWrite, Invalidate, ReadRow, LoadCached, ParseAndStore, AskAgain, Decide,
         ListPage, ReadFails, Quietly, InDatabaseUnchanged
<1> QED BY <1>1, <1>2, <1>3, <1>4

\* A request that shows no page yet has everything below its pages.
LEMMA BeginList ==
    ASSUME ListInv, VersionsInv', NEW r \in Request, Begin(r)
    PROVE  ListInv'
<1> DEFINE after == {o \in Request : Answered(o)}
           known == IF Kind(r, "list") THEN Primary \cap Replica ELSE {}
           q == [Waiting EXCEPT !.pc = FirstStep(plan[r].kind), !.after = after,
                                !.known = known]
<1>1. UNCHANGED <<tables, applied, scenario>>
  BY DEF Begin, Quietly, InDatabaseUnchanged
<1>2. q.pages = <<>> /\ q.known = known /\ q.answer = "none"
  <2> HIDE DEF after, known
  <2> QED BY DEF Waiting
<1>3. Become(r, q)
  BY DEF Begin
<1>4. NothingDeleted => KnownStays(known)
  <2> SUFFICES ASSUME NothingDeleted PROVE KnownStays(known)
    OBVIOUS
  <2>1. applied \in 1..Len(tables) /\ Len(tables) \in Nat
    BY DEF ListInv, VersionsInv, TypeOK
  <2>2. known \subseteq tables[applied]
    BY DEF Replica
  <2>3. \A i \in applied..Len(tables) : tables[applied] \subseteq tables[i]
    BY <2>1 DEF ListInv, GrowingTables
  <2> QED BY <2>2, <2>3 DEF KnownStays
<1> HIDE DEF q, known
<1>5. /\ req'[r] = q
      /\ \A o \in Request \ {r} : req'[o] = req[o]
  BY <1>3, BecomeOnly DEF ListInv, VersionsInv, TypeOK
<1>6. /\ FiniteTables' /\ GrowingTables' /\ NothingDeleted' = NothingDeleted
      /\ Versions(History)' = Versions(History)
      /\ \A K : KnownStays(K)' = KnownStays(K)
      /\ \A o : Kind(o, "list")' = Kind(o, "list")
  BY <1>1, SameHistory
     DEF ListInv, FiniteTables, GrowingTables, NothingDeleted, Versions, KnownStays, Kind, plan
<1>7. ASSUME NEW o \in Request
      PROVE  /\ Descending(req'[o].pages)
             /\ \A i \in 1..Len(req'[o].pages) :
                   req'[o].pages[i] \subseteq Versions(History)'
             /\ NothingDeleted' =>
                   /\ KnownStays(req[o].known)'
                   /\ Kind(o, "list")' => ShownOrBelow(req'[o])
  <2>1. CASE o # r
    <3>1. req'[o] = req[o]
      BY <1>5, <2>1
    <3>2. KnownStays(req[o].known)' <=> KnownStays(req[o].known)
      BY <1>1, <3>1 DEF KnownStays
    <3> QED BY <1>6, <3>1, <3>2 DEF ListInv
  <2>2. CASE o = r
    <3>1. /\ Descending(<<>>)
          /\ \A v : BelowPages(v, <<>>)
          /\ \A i \in 1..Len(<<>>) : <<>>[i] \subseteq Versions(History)'
      BY DEF Descending, BelowPages
    <3>2. ShownOrBelow(q)
      BY <1>2, <3>1 DEF ShownOrBelow
    <3>3. KnownStays(req[r].known)' <=> KnownStays(known)
      BY <1>1, <1>2, <1>5 DEF KnownStays
    <3> QED BY <1>2, <1>4, <1>5, <1>6, <2>2, <3>1, <3>2, <3>3
  <2> QED BY <2>1, <2>2
<1> QED BY <1>6, <1>7 DEF ListInv

\* The heart of it: what the page leaves out is below the page, and then there is
\* a page after it.
LEMMA NextPage ==
    ASSUME ListInv, NEW r \in Request, NEW T, T \subseteq History,
           IsFiniteSet(Versions(T)),
           NEW pages, pages = Append(req[r].pages, Shown(r, T))
    PROVE  /\ Descending(pages)
           /\ \A i \in 1..Len(pages) : pages[i] \subseteq Versions(History)
           /\ \A v \in Versions(T) :
                 OnPage(v, req[r].pages) \/ BelowPages(v, req[r].pages) =>
                     \/ OnPage(v, pages)
                     \/ BelowPages(v, pages) /\ Cardinality(Below(r, T)) > PageSize
<1> DEFINE old == req[r].pages
           n == Len(old)
           page == Shown(r, T)
           B == Below(r, T)
<1>1. /\ old \in Seq(SUBSET Nat) /\ n \in Nat
      /\ Len(pages) = n + 1 /\ pages[n + 1] = page
      /\ \A i \in 1..n : pages[i] = old[i]
  <2>1. req[r] \in RequestType
    BY DEF ListInv, VersionsInv, TypeOK
  <2>2. old \in Seq(SUBSET Nat)
    BY <2>1 DEF RequestType
  <2> HIDE DEF page
  <2> QED BY <2>2 DEF page
<1>2. /\ B \subseteq Versions(T) /\ Versions(T) \subseteq Versions(History)
      /\ \A v \in Versions(T) : v \in B <=> BelowPages(v, old)
  BY DEF Below, BelowPages, Versions
<1>3. B \in SUBSET Nat /\ IsFiniteSet(B)
  <2>1. Versions(History) \subseteq Nat
    BY HistoryType DEF ListInv, VersionsInv, Versions, RowType
  <2> QED BY <1>2, <2>1, FS_Subset
<1>4. page = Greatest(PageSize, B) /\ page \subseteq B
  BY DEF Shown, Greatest
<1> HIDE DEF old, n, page, B
<1>5. Descending(old) /\ \A i \in 1..n : old[i] \subseteq Versions(History)
  BY DEF ListInv, old, n
<1>6. Descending(pages)
  <2> SUFFICES ASSUME NEW i \in 1..n + 1, NEW j \in 1..n + 1, i < j,
                      NEW v \in pages[i], NEW w \in pages[j]
               PROVE  w < v
    BY <1>1 DEF Descending
  <2>1. i \in 1..n
    BY <1>1
  <2>2. CASE j \in 1..n
    BY <1>1, <1>5, <2>1, <2>2 DEF Descending, n
  <2>3. CASE j = n + 1
    <3>1. w \in B /\ v \in old[i]
      BY <1>1, <1>4, <2>1, <2>3
    <3> QED BY <1>2, <2>1, <3>1 DEF BelowPages, n
  <2> QED BY <1>1, <2>2, <2>3
<1>7. \A i \in 1..Len(pages) : pages[i] \subseteq Versions(History)
  <2> SUFFICES ASSUME NEW i \in 1..n + 1 PROVE pages[i] \subseteq Versions(History)
    BY <1>1
  <2>1. CASE i \in 1..n
    BY <1>1, <1>5, <2>1
  <2>2. CASE i = n + 1
    BY <1>1, <1>2, <1>4, <2>2
  <2> QED BY <1>1, <2>1, <2>2
<1>8. ASSUME NEW v \in Versions(T), OnPage(v, old) \/ BelowPages(v, old)
      PROVE  OnPage(v, pages) \/ (BelowPages(v, pages) /\ Cardinality(B) > PageSize)
  <2>1. CASE OnPage(v, old)
    <3>1. PICK i \in 1..n : v \in old[i]
      BY <2>1 DEF OnPage, n
    <3>2. i \in 1..Len(pages) /\ v \in pages[i]
      BY <1>1, <3>1
    <3> QED BY <3>2 DEF OnPage
  <2>2. CASE BelowPages(v, old) /\ v \in page
    <3>1. n + 1 \in 1..Len(pages) /\ v \in pages[n + 1]
      BY <1>1, <2>2
    <3> QED BY <3>1 DEF OnPage
  <2>3. CASE BelowPages(v, old) /\ v \notin page
    <3>1. v \in B /\ PageSize \in Nat
      BY <1>2, <2>3, SchemaAssumptions
    <3>2. Cardinality(B) > PageSize /\ \A w \in page : v < w
      BY <1>3, <1>4, <2>3, <3>1, GreatestFirst
    <3>3. BelowPages(v, pages)
      <4> SUFFICES ASSUME NEW i \in 1..n + 1, NEW w \in pages[i] PROVE v < w
        BY <1>1 DEF BelowPages
      <4>1. CASE i \in 1..n
        BY <1>1, <2>3, <4>1 DEF BelowPages, n
      <4>2. CASE i = n + 1
        BY <1>1, <3>2, <4>2
      <4> QED BY <1>1, <4>1, <4>2
    <3> QED BY <3>2, <3>3
  <2> QED BY <1>8, <2>1, <2>2, <2>3
<1> QED BY <1>6, <1>7, <1>8 DEF old, B

LEMMA PageList ==
    ASSUME ListInv, VersionsInv', NEW r \in Request, NEW s \in Server, ListPage(r, s)
    PROVE  ListInv'
<1> DEFINE T == ReadTable(s)
           pages == Append(req[r].pages, Shown(r, T))
           q == [req[r] EXCEPT !.pages = pages]
           last == [q EXCEPT !.pc = "answered", !.answer = "ok"]
           more == Cardinality(Below(r, T)) > PageSize
<1>1. /\ UNCHANGED <<tables, applied, scenario>>
      /\ IF more THEN Become(r, q) ELSE Become(r, last)
      /\ req[r].pc = "page"
  BY DEF ListPage, Quietly, InDatabaseUnchanged, At
<1>2. PICK i \in applied..Len(tables) : T = tables[i] /\ i \in 1..Len(tables)
  <2>1. applied \in 1..Len(tables)
    BY DEF ListInv, VersionsInv, TypeOK
  <2>2. applied \in applied..Len(tables) /\ Len(tables) \in applied..Len(tables)
    BY <2>1
  <2>3. T = tables[applied] \/ T = tables[Len(tables)]
    BY DEF ReadTable, Primary, Replica
  <2>4. Len(tables) \in 1..Len(tables)
    BY <2>1
  <2> HIDE DEF T
  <2> QED BY <2>1, <2>2, <2>3, <2>4
<1>3. T \subseteq History
  BY <1>2 DEF History
<1>4. IsFiniteSet(Versions(T))
  BY <1>2 DEF ListInv, FiniteTables
<1>5. req[r] \in RequestType /\ Consistent(plan[r], r, req[r], History)
  BY OfRequest DEF ListInv
<1> HIDE DEF T, more
<1>6. /\ Descending(pages)
      /\ \A k \in 1..Len(pages) : pages[k] \subseteq Versions(History)
      /\ \A v \in Versions(T) :
            OnPage(v, req[r].pages) \/ BelowPages(v, req[r].pages) =>
                OnPage(v, pages) \/ (BelowPages(v, pages) /\ more)
  BY <1>3, <1>4, NextPage DEF more
<1> HIDE DEF pages
<1>7. /\ q.pages = pages /\ q.known = req[r].known /\ q.answer = req[r].answer
      /\ last.pages = pages /\ last.known = req[r].known
  BY <1>5 DEF RequestType
<1> HIDE DEF q, last
<1>8. PICK n \in {q, last} : req'[r] = n /\ (n = last => ~more \/ q = last)
  <2>1. req \in [Request -> RequestType]
    BY DEF ListInv, VersionsInv, TypeOK
  <2> QED BY <1>1, <2>1, BecomeOnly
<1>9. \A o \in Request \ {r} : req'[o] = req[o]
  <2>1. req \in [Request -> RequestType]
    BY DEF ListInv, VersionsInv, TypeOK
  <2> QED BY <1>1, <2>1, BecomeOnly
<1>10. NothingDeleted => ShownOrBelow(n)
  <2> SUFFICES ASSUME NothingDeleted, NEW v \in Versions(req[r].known)
               PROVE  OnPage(v, pages) \/ (n.answer # "ok" /\ BelowPages(v, pages))
    BY <1>7 DEF ShownOrBelow
  <2>1. plan[r].kind = "list" /\ req[r].answer = "none"
    BY <1>1, <1>5 DEF Consistent, PlaceOfKind
  <2>2. KnownStays(req[r].known) /\ ShownOrBelow(req[r])
    BY <2>1 DEF ListInv, Kind
  <2>3. req[r].known \subseteq T
    BY <1>2, <2>2 DEF KnownStays
  <2>4. v \in Versions(T)
    BY <2>3 DEF Versions
  <2>5. OnPage(v, pages) \/ (BelowPages(v, pages) /\ more)
    BY <1>6, <2>2, <2>4 DEF ShownOrBelow
  <2>6. more => n.answer # "ok"
    BY <1>7, <1>8, <2>1
  <2> QED BY <2>5, <2>6
<1>11. /\ FiniteTables' /\ GrowingTables' /\ NothingDeleted' = NothingDeleted
       /\ Versions(History)' = Versions(History)
       /\ \A o : Kind(o, "list")' = Kind(o, "list")
  BY <1>1, SameHistory
     DEF ListInv, FiniteTables, GrowingTables, NothingDeleted, Versions, Kind, plan
<1>12. ASSUME NEW o \in Request
       PROVE  /\ Descending(req'[o].pages)
              /\ \A k \in 1..Len(req'[o].pages) :
                    req'[o].pages[k] \subseteq Versions(History)'
              /\ NothingDeleted' =>
                    /\ KnownStays(req[o].known)'
                    /\ Kind(o, "list")' => ShownOrBelow(req'[o])
  <2>1. req'[o].known = req[o].known
    BY <1>7, <1>8, <1>9
  <2>2. KnownStays(req[o].known)' <=> KnownStays(req[o].known)
    BY <1>1, <2>1 DEF KnownStays
  <2>3. CASE o # r
    BY <1>9, <1>11, <2>2, <2>3 DEF ListInv
  <2>4. CASE o = r
    <3>1. NothingDeleted => KnownStays(req[o].known)
      BY DEF ListInv
    <3> QED BY <1>6, <1>7, <1>8, <1>10, <1>11, <2>2, <2>4, <3>1
  <2> QED BY <2>3, <2>4
<1> QED BY <1>11, <1>12 DEF ListInv

LEMMA ListInductive == Spec => []ListInv
<1>1. Init => ListInv
  <2> SUFFICES ASSUME Init PROVE ListInv
    OBVIOUS
  <2>1. VersionsInv
    BY VersionsInit
  <2>2. Len(tables) = 1 /\ tables[1] = {} /\ \A r \in Request : req[r] = Waiting
    BY DEF Init
  <2>3. FiniteTables
    <3>1. Versions({}) = {}
      BY DEF Versions
    <3>2. \A i \in 1..Len(tables) : tables[i] = {}
      BY <2>2
    <3> QED BY <3>1, <3>2, FS_EmptySet DEF FiniteTables
  <2>4. GrowingTables
    BY <2>2 DEF GrowingTables
  <2>5. /\ Waiting.pages = <<>> /\ Waiting.known = {} /\ Waiting.answer = "none"
        /\ Len(Waiting.pages) = 0
    BY DEF Waiting
  <2>6. \A r \in Request :
           /\ Descending(req[r].pages)
           /\ \A i \in 1..Len(req[r].pages) : req[r].pages[i] \subseteq Versions(History)
           /\ KnownStays(req[r].known)
           /\ ShownOrBelow(req[r])
    BY <2>2, <2>5 DEF Descending, KnownStays, ShownOrBelow, Versions
  <2> QED BY <2>1, <2>3, <2>4, <2>6 DEF ListInv
<1>2. ListInv /\ [Next]_vars => ListInv'
  <2> SUFFICES ASSUME ListInv, [Next]_vars PROVE ListInv'
    OBVIOUS
  <2>0. VersionsInv /\ VersionsInv'
    BY VersionsStep DEF ListInv
  <2>1. ASSUME NEW r \in Request, Begin(r)
        PROVE  ListInv'
    BY <2>0, <2>1, BeginList
  <2>2. ASSUME NEW r \in Request, NEW s \in Server, ListPage(r, s)
        PROVE  ListInv'
    BY <2>0, <2>2, PageList
  <2>3. ASSUME NEW r \in Request, Step(r), ~(\E s \in Server : ListPage(r, s))
        PROVE  ListInv'
    BY <2>0, <2>3, StepKeeps, StepTables, KeepsList
  <2>4. CASE ReplicaApply \/ UNCHANGED <<scenario, tables, applied, req>>
    <3>1. KeepsPages /\ TablesGrow /\ scenario' = scenario
      BY <2>4 DEF ReplicaApply, KeepsPages, TablesGrow
    <3> QED BY <2>0, <3>1, KeepsList
  <2> QED BY <2>1, <2>2, <2>3, <2>4 DEF Next, Tick, vars
<1> QED BY <1>1, <1>2, PTL DEF Spec

\* A listing descends, shows only what was stored, and misses nothing that the
\* databases had when it began, for every size of page and every lag.
THEOREM ListsAllCorrect == Spec => []ListsAll
<1>1. ListInv => ListsAll
  <2> SUFFICES ASSUME ListInv PROVE ListsAll
    OBVIOUS
  <2>1. ASSUME NEW r \in Request, Kind(r, "list"), req[r].answer = "ok", NothingDeleted
        PROVE  Versions(req[r].known)
                 \subseteq UNION {req[r].pages[i] : i \in 1..Len(req[r].pages)}
    BY <2>1 DEF ListInv, ShownOrBelow, OnPage
  <2>2. \A r \in Request :
           /\ Descending(req[r].pages)
           /\ \A i \in 1..Len(req[r].pages) : req[r].pages[i] \subseteq Versions(History)
    BY DEF ListInv
  <2> QED BY <2>1, <2>2 DEF ListsAll, Descending
<1> QED BY <1>1, ListInductive, PTL

-----------------------------------------------------------------------------
(***************************************************************************)
(* OwnSchemaServed: a server serves the schemas it has written, for every   *)
(* number of servers and requests, every window above the replica's lag and *)
(* every difference between the clocks.                                     *)
(*                                                                         *)
(* Three things come together: what a server has recorded is in the         *)
(* database that it reads (Times, Own), the versions of one server ascend   *)
(* from one write to the next (Orders), and a check uses the greatest       *)
(* version it finds or the one it used before.                              *)
(***************************************************************************)

\* A step in which request r goes to pc with the answer a and no more.
Moves(r, pc, a) ==
    /\ \A o \in Request \ {r} : req'[o] = req[o]
    /\ req'[r].pc = pc
    /\ req'[r].answer = a
    /\ req'[r].version = req[r].version
    /\ req'[r].row = req[r].row
    /\ req'[r].used = req[r].used
    /\ req'[r].after = req[r].after

LEMMA BecomeMoves ==
    ASSUME TypeOK, NEW r \in Request, NEW q, Become(r, q),
           q.version = req[r].version, q.row = req[r].row, q.used = req[r].used,
           q.after = req[r].after
    PROVE  Moves(r, q.pc, q.answer)
BY BecomeOnly DEF TypeOK, Moves

LEMMA GotoMoves ==
    ASSUME TypeOK, NEW r \in Request, NEW pc, Goto(r, pc)
    PROVE  Moves(r, pc, req[r].answer)
<1> DEFINE q == [req[r] EXCEPT !.pc = pc]
<1>1. req[r] \in RequestType
  BY DEF TypeOK
<1>2. /\ q.version = req[r].version /\ q.row = req[r].row /\ q.used = req[r].used
      /\ q.after = req[r].after /\ q.pc = pc /\ q.answer = req[r].answer
  BY <1>1 DEF RequestType
<1>3. Become(r, q)
  BY DEF Goto
<1> HIDE DEF q
<1> QED BY <1>2, <1>3, BecomeMoves

LEMMA AnswerMoves ==
    ASSUME TypeOK, NEW r \in Request, NEW a, Answer(r, a)
    PROVE  Moves(r, "answered", a)
<1> DEFINE q == [req[r] EXCEPT !.pc = "answered", !.answer = a]
<1>1. req[r] \in RequestType
  BY DEF TypeOK
<1>2. /\ q.version = req[r].version /\ q.row = req[r].row /\ q.used = req[r].used
      /\ q.after = req[r].after /\ q.pc = "answered" /\ q.answer = a
  BY <1>1 DEF RequestType
<1>3. Become(r, q)
  BY DEF Answer
<1> HIDE DEF q
<1> QED BY <1>2, <1>3, BecomeMoves

LEMMA RetryMoves ==
    ASSUME TypeOK, NEW r \in Request, Retry(r)
    PROVE  Moves(r, req[r].pc, req[r].answer) \/ Moves(r, "answered", "error")
<1>1. CASE Become(r, [req[r] EXCEPT !.attempt = @ + 1])
  <2> DEFINE q == [req[r] EXCEPT !.attempt = req[r].attempt + 1]
  <2>1. req[r] \in RequestType
    BY DEF TypeOK
  <2>2. /\ q.version = req[r].version /\ q.row = req[r].row /\ q.used = req[r].used
        /\ q.after = req[r].after /\ q.pc = req[r].pc /\ q.answer = req[r].answer
    BY <2>1 DEF RequestType
  <2>3. Become(r, q)
    BY <1>1
  <2> HIDE DEF q
  <2> QED BY <2>2, <2>3, BecomeMoves
<1>2. CASE Answer(r, "error")
  BY <1>2, AnswerMoves
<1> QED BY <1>1, <1>2 DEF Retry

\* A step of a listing or a write or a validation that only moves on.
Passes(r) ==
    \E pc, a :
       /\ Moves(r, pc, a)
       /\ Kind(r, "check") /\ a = "notFound" => req[r].answer = "notFound"
       /\ Kind(r, "write") /\ (pc = "invalidate" \/ a = "ok") =>
             At(r, "invalidate") \/ req[r].answer = "ok"

\* The steps that do more.
Tells(r) == NewVersion(r) \/ RecordWrite(r) \/ ReadRow(r) \/ LoadCached(r) \/ ParseAndStore(r)

LEMMA PassesFrom ==
    ASSUME NEW r, NEW pc, NEW a, Moves(r, pc, a),
           Kind(r, "check") /\ a = "notFound" => req[r].answer = "notFound",
           Kind(r, "write") /\ (pc = "invalidate" \/ a = "ok") =>
               At(r, "invalidate") \/ req[r].answer = "ok"
    PROVE  Passes(r)
BY DEF Passes

LEMMA StepPasses ==
    ASSUME VersionsInv, NEW r \in Request, Step(r), ~Tells(r)
    PROVE  Passes(r)
<1>1. TypeOK /\ req[r] \in RequestType /\ Consistent(plan[r], r, req[r], History)
  BY OfRequest
<1>2. req[r].pc # "answered" => req[r].answer = "none"
  BY <1>1 DEF Consistent
<1>3. ASSUME NEW pc, Goto(r, pc), pc # "invalidate" PROVE Passes(r)
  BY <1>1, <1>3, GotoMoves, PassesFrom
<1>4. ASSUME Retry(r) PROVE Passes(r)
  BY <1>1, <1>4, RetryMoves, PassesFrom DEF At
<1>5. ASSUME NEW a, Answer(r, a), Kind(r, "check") => a # "notFound",
             Kind(r, "write") => a # "ok" \/ At(r, "invalidate")
      PROVE  Passes(r)
  BY <1>1, <1>5, AnswerMoves, PassesFrom
<1>6. /\ At(r, "exec") => ~Kind(r, "check")
      /\ At(r, "page") => ~Kind(r, "check") /\ ~Kind(r, "write")
      /\ At(r, "using") => ~Kind(r, "write")
  BY <1>1 DEF Consistent, PlaceOfKind, At, Kind
<1>7. CASE ParseDSL(r)
  BY <1>3, <1>5, <1>7 DEF ParseDSL, Kind
<1>8. CASE Insert(r) \/ DeleteAll(r)
  BY <1>3, <1>4, <1>8 DEF Insert, DeleteAll, Acknowledge
<1>9. CASE InsertDuplicate(r) \/ DeleteNothing(r) \/ StatementFails(r)
  BY <1>4, <1>5, <1>6, <1>9 DEF InsertDuplicate, DeleteNothing, StatementFails
<1>10. CASE Invalidate(r)
  BY <1>5, <1>10 DEF Invalidate
<1>11. CASE AskAgain(r)
  BY <1>3, <1>11 DEF AskAgain
<1>12. CASE Decide(r)
  BY <1>5, <1>6, <1>12 DEF Decide
<1>13. ASSUME NEW s \in Server, ListPage(r, s) PROVE Passes(r)
  <2> DEFINE pages == Append(req[r].pages, Shown(r, ReadTable(s)))
             q == [req[r] EXCEPT !.pages = pages]
             z == [req[r] EXCEPT !.pages = pages, !.pc = "answered", !.answer = "ok"]
  <2>1. /\ Become(r, q) \/ Become(r, z)
        /\ At(r, "page")
    BY <1>13 DEF ListPage
  <2> HIDE DEF pages
  <2>2. /\ q.version = req[r].version /\ q.row = req[r].row /\ q.used = req[r].used
        /\ q.after = req[r].after /\ q.pc = req[r].pc /\ q.answer = req[r].answer
        /\ z.version = req[r].version /\ z.row = req[r].row /\ z.used = req[r].used
        /\ z.after = req[r].after /\ z.pc = "answered" /\ z.answer = "ok"
    BY <1>1 DEF RequestType
  <2> HIDE DEF q, z
  <2>3. Moves(r, req[r].pc, req[r].answer) \/ Moves(r, "answered", "ok")
    BY <1>1, <2>1, <2>2, BecomeMoves
  <2> QED BY <1>6, <2>1, <2>3, PassesFrom DEF At
<1>14. CASE ReadFails(r)
  BY <1>5, <1>14 DEF ReadFails
<1> QED BY <1>7, <1>8, <1>9, <1>10, <1>11, <1>12, <1>13, <1>14 DEF Step, Tells

\* What the steps have in common.
LEMMA StepCommon ==
    ASSUME VersionsInv, NEW r \in Request, Step(r)
    PROVE  /\ \A o \in Request \ {r} : req'[o] = req[o]
           /\ req'[r].after = req[r].after
           /\ NewVersion(r) \/ req'[r].version = req[r].version
           /\ ~Answered(r) /\ ~At(r, "idle")
           /\ scenario' = scenario /\ now' = now
<1>1. TypeOK /\ req[r] \in RequestType /\ Consistent(plan[r], r, req[r], History)
  BY OfRequest
<1>2. ~Answered(r) /\ ~At(r, "idle") /\ scenario' = scenario /\ now' = now
  BY DEF Step, ParseDSL, NewVersion, Insert, InsertDuplicate, DeleteAll, DeleteNothing,
         StatementFails, RecordWrite, Invalidate, ReadRow, LoadCached, ParseAndStore,
         AskAgain, Decide, ListPage, ReadFails, Answered, At, Commit, Quietly,
         InDatabaseUnchanged
<1>3. ASSUME NEW pc, NEW a, Moves(r, pc, a)
      PROVE  /\ \A o \in Request \ {r} : req'[o] = req[o]
             /\ req'[r].after = req[r].after
             /\ req'[r].version = req[r].version
  BY <1>3 DEF Moves
<1>4. CASE NewVersion(r)
  <2>1. PICK v : Become(r, [req[r] EXCEPT !.pc = "exec", !.version = v])
    BY <1>4 DEF NewVersion
  <2> DEFINE q == [req[r] EXCEPT !.pc = "exec", !.version = v]
  <2>2. q.after = req[r].after
    BY <1>1 DEF RequestType
  <2> HIDE DEF q
  <2>3. req'[r] = q /\ \A o \in Request \ {r} : req'[o] = req[o]
    BY <1>1, <2>1, BecomeOnly DEF TypeOK, q
  <2> QED BY <1>2, <1>4, <2>2, <2>3
<1>5. CASE RecordWrite(r)
  BY <1>1, <1>2, <1>3, <1>5, AnswerMoves, GotoMoves DEF RecordWrite
<1>6. CASE ReadRow(r)
  <2> DEFINE found == Wanted(r, ReadTable(Home(r)))
             q == [req[r] EXCEPT !.pc = "cache", !.row = found]
  <2>1. Answer(r, "notFound") \/ Become(r, q)
    BY <1>6 DEF ReadRow
  <2> HIDE DEF found
  <2>2. q.version = req[r].version /\ q.after = req[r].after
    BY <1>1 DEF RequestType
  <2> HIDE DEF q
  <2>3. CASE Become(r, q)
    <3>1. req'[r] = q /\ \A o \in Request \ {r} : req'[o] = req[o]
      BY <1>1, <2>3, BecomeOnly DEF TypeOK
    <3> QED BY <1>2, <2>2, <3>1
  <2> QED BY <1>1, <1>2, <1>3, <2>1, <2>3, AnswerMoves
<1>7. CASE LoadCached(r) \/ ParseAndStore(r)
  <2>1. PICK schema : Use(r, schema)
    BY <1>7 DEF LoadCached, ParseAndStore
  <2> DEFINE used == Append(req[r].used, schema)
             q == [req[r] EXCEPT !.pc = "using", !.row = {}, !.used = used]
  <2>2. q.version = req[r].version /\ q.after = req[r].after
    <3> HIDE DEF used
    <3> QED BY <1>1 DEF RequestType
  <2>3. Become(r, q)
    BY <2>1 DEF Use
  <2> HIDE DEF q
  <2>4. req'[r] = q /\ \A o \in Request \ {r} : req'[o] = req[o]
    BY <1>1, <2>3, BecomeOnly DEF TypeOK
  <2> QED BY <1>2, <2>2, <2>4
<1>8. CASE ~Tells(r)
  BY <1>2, <1>3, <1>8, StepPasses DEF Passes
<1> QED BY <1>4, <1>5, <1>6, <1>7, <1>8 DEF Tells

-----------------------------------------------------------------------------
\* No commit and no record is later than now, and the replica has applied what is
\* older than its lag.
Times ==
    /\ \A i \in 1..Len(tables) : changedAt[i] <= now
    /\ \A s \in Server : recorded[s] <= now
    /\ \A i \in applied + 1 .. Len(tables) : now <= changedAt[i] + MaxLag

LEMMA TimesStep ==
    ASSUME TypeOK, Times, [Next]_vars
    PROVE  Times'
<1>1. /\ now \in Nat /\ Len(tables) \in Nat /\ applied \in 1..Len(tables) /\ MaxLag \in Nat
      /\ tables \in Seq(SUBSET RowType) /\ changedAt \in Seq(Nat)
      /\ Len(changedAt) = Len(tables) /\ recorded \in [Server -> Nat \cup {Never}]
  BY SchemaAssumptions DEF TypeOK
<1>2. \A i \in 1..Len(tables) : changedAt[i] \in Nat
  BY <1>1
<1>3. ASSUME NEW T, Commit(T) PROVE Times'
  <2>1. /\ Len(tables') = Len(tables) + 1 /\ applied' = applied /\ now' = now
        /\ recorded' = recorded
        /\ changedAt'[Len(tables) + 1] = now
        /\ \A i \in 1..Len(tables) : changedAt'[i] = changedAt[i]
    <3>1. /\ tables' = Append(tables, T) /\ changedAt' = Append(changedAt, now)
          /\ applied' = applied /\ now' = now /\ recorded' = recorded
      BY <1>3 DEF Commit
    <3>2. Len(tables') = Len(tables) + 1
      BY <1>1, <3>1
    <3>3. /\ changedAt'[Len(changedAt) + 1] = now
          /\ \A i \in 1..Len(changedAt) : changedAt'[i] = changedAt[i]
      <4>1. changedAt \in Seq(Nat) /\ now \in Nat
        BY <1>1
      <4> QED BY <3>1, <4>1, AppendProperties
    <3> QED BY <1>1, <3>1, <3>2, <3>3
  <2>2. ASSUME NEW i \in 1..Len(tables')
        PROVE  /\ changedAt'[i] <= now
               /\ i \in applied + 1 .. Len(tables') => now <= changedAt'[i] + MaxLag
    <3>1. CASE i = Len(tables) + 1
      BY <1>1, <2>1, <3>1
    <3>2. CASE i # Len(tables) + 1
      <4>1. i \in 1..Len(tables)
        <5> DEFINE n == Len(tables)
        <5>1. n \in Nat /\ i \in 1..(n + 1) /\ i # n + 1
          BY <1>1, <2>1, <3>2
        <5> HIDE DEF n
        <5>2. i \in 1..n
          BY <5>1
        <5> QED BY <5>2 DEF n
      <4>2. i \in applied + 1 .. Len(tables') => i \in applied + 1 .. Len(tables)
        BY <1>1, <4>1
      <4> QED BY <2>1, <4>1, <4>2 DEF Times
    <3> QED BY <3>1, <3>2
  <2>3. \A i \in applied' + 1 .. Len(tables') : i \in 1..Len(tables')
    BY <1>1, <2>1
  <2>4. \A s \in Server : recorded'[s] <= now'
    BY <2>1 DEF Times
  <2> QED BY <2>1, <2>2, <2>3, <2>4 DEF Times
<1>4. CASE UNCHANGED <<now, tables, changedAt, applied, recorded>>
  BY <1>4 DEF Times
<1>5. ASSUME NEW r \in Request, RecordWrite(r) PROVE Times'
  <2>1. \A s \in Server : recorded'[s] = recorded[s] \/ recorded'[s] = now
    BY <1>1, <1>5 DEF RecordWrite
  <2>2. UNCHANGED <<now, tables, changedAt, applied>>
    BY <1>5 DEF RecordWrite, InDatabaseUnchanged
  <2> QED BY <1>1, <2>1, <2>2 DEF Times
<1>6. CASE ReplicaApply
  BY <1>1, <1>6 DEF ReplicaApply, Times
<1>7. CASE Tick
  <2>1. /\ now' = now + 1 /\ UNCHANGED <<tables, changedAt, applied, recorded>>
        /\ \A i \in applied + 1 .. Len(tables) : now < changedAt[i] + MaxLag
    BY <1>7 DEF Tick
  <2>2. \A i \in applied + 1 .. Len(tables) : changedAt[i] \in Nat
    BY <1>1, <1>2
  <2>3. \A i \in 1..Len(tables) : changedAt[i] <= now + 1
    BY <1>1, <1>2 DEF Times
  <2>4. \A s \in Server : recorded[s] \in Int
    BY <1>1 DEF Never
  <2>5. \A s \in Server : recorded[s] <= now + 1
    BY <1>1, <2>4 DEF Times
  <2>6. \A i \in applied + 1 .. Len(tables) : now + 1 <= changedAt[i] + MaxLag
    BY <1>1, <2>1, <2>2
  <2> QED BY <2>1, <2>3, <2>5, <2>6 DEF Times
<1>8. ASSUME NEW r \in Request, Begin(r) \/ Step(r)
      PROVE  \/ \E T : Commit(T)
             \/ UNCHANGED <<now, tables, changedAt, applied, recorded>>
             \/ RecordWrite(r)
  BY <1>8 DEF Begin, Step, ParseDSL, NewVersion, Insert, DeleteAll, InsertDuplicate,
         DeleteNothing, StatementFails, Invalidate, ReadRow, LoadCached, ParseAndStore,
         AskAgain, Decide, ListPage, ReadFails, Quietly, InDatabaseUnchanged
<1> QED BY <1>3, <1>4, <1>5, <1>6, <1>7, <1>8 DEF Next, vars

LEMMA TimesInductive == Spec => []Times
<1>1. Init => Times
  BY SchemaAssumptions DEF Init, Times, Never
<1>2. TypeOK /\ Times /\ [Next]_vars => Times'
  BY TimesStep
<1> QED BY <1>1, <1>2, TypeCorrect, PTL DEF Spec

\* What a server recorded in time is in the database that it reads.
Recorded(w) ==
    \E i \in 1..Len(tables) : Row(w) \in tables[i] /\ changedAt[i] <= recorded[Home(w)]

LEMMA RecordedIsRead ==
    ASSUME ListInv, Times, MaxLag < Window, NothingDeleted, NEW w \in Request, Recorded(w)
    PROVE  Row(w) \in ReadTable(Home(w))
<1>1. /\ now \in Nat /\ Len(tables) \in Nat /\ applied \in 1..Len(tables)
      /\ changedAt \in Seq(Nat) /\ Len(changedAt) = Len(tables)
      /\ MaxLag \in Nat /\ Window \in Nat /\ Home(w) \in Server
      /\ recorded[Home(w)] \in Nat \cup {Never}
  BY SchemaAssumptions, PlanType DEF ListInv, VersionsInv, TypeOK
<1>2. PICK i \in 1..Len(tables) : Row(w) \in tables[i] /\ changedAt[i] <= recorded[Home(w)]
  BY DEF Recorded
<1>3. changedAt[i] \in Nat
  BY <1>1
<1>4. \A j \in i..Len(tables) : Row(w) \in tables[j]
  BY <1>1, <1>2 DEF ListInv, GrowingTables
<1>5. CASE HasRecentWrite(Home(w))
  <2>1. Len(tables) \in i..Len(tables)
    BY <1>1
  <2> QED BY <1>4, <1>5, <2>1 DEF ReadTable, Primary
<1>6. CASE ~HasRecentWrite(Home(w))
  <2>1. recorded[Home(w)] \in Nat
    BY <1>1, <1>2, <1>3 DEF Never
  <2>2. now - recorded[Home(w)] >= Window
    BY <1>1, <1>6, <2>1 DEF HasRecentWrite, Never
  <2>3. ~ (now <= changedAt[i] + MaxLag)
    BY <1>1, <1>2, <1>3, <2>1, <2>2
  <2>4. i \notin applied + 1 .. Len(tables)
    BY <2>3 DEF Times
  <2>5. applied \in i..Len(tables)
    BY <1>1, <2>4
  <2> QED BY <1>4, <1>6, <2>5 DEF ReadTable, Replica
<1> QED BY <1>5, <1>6

-----------------------------------------------------------------------------
LEMMA TimesMono ==
    ASSUME NEW a \in Nat, NEW b \in Nat, NEW u \in Nat, a <= b
    PROVE  a * u <= b * u
<1>1. PICK d \in Nat : b = a + d
  BY b - a \in Nat, b = a + (b - a)
<1>2. b * u = a * u + d * u
  BY <1>1
<1>3. d * u \in Nat /\ a * u \in Nat
  OBVIOUS
<1> QED BY <1>2, <1>3

\* A ULID of an earlier millisecond is below all of this one.
LEMMA EarlierMillisecond ==
    ASSUME NEW l \in Nat, NEW c \in Nat, NEW u \in Nat \ {0}, l < c * u + u, l \div u # c
    PROVE  l < c * u
<1>1. PICK q \in Int, m \in Int : l = u * q + m /\ 0 <= m /\ m < u /\ q = l \div u
  <2>1. l = u * (l \div u) + (l % u) /\ 0 <= l % u /\ l % u < u
    OBVIOUS
  <2>2. l \div u \in Int /\ l % u \in Int
    OBVIOUS
  <2> QED BY <2>1, <2>2
<1> QED BY <1>1

\* The last ULID of a server is not of a millisecond to come.
PastIds == \A s \in Server : lastId[s] < Clock(s) * Ulids + Ulids

LEMMA ClockType ==
    ASSUME TypeOK, NEW s \in Server
    PROVE  Clock(s) \in Nat \ {0} /\ Ulids \in Nat \ {0} /\ lastId[s] \in Nat
<1>1. Clock(s) \in Nat \ {0}
  BY SchemaAssumptions DEF Clock, TypeOK
<1>2. Cardinality(Request) \in Nat
  BY SchemaAssumptions, FS_CardinalityType
<1> QED BY <1>1, <1>2, SchemaAssumptions DEF Ulids, TypeOK

\* The ULIDs of one server ascend.
LEMMA FreshIdsAscend ==
    ASSUME TypeOK, PastIds, NEW s \in Server, NEW v \in FreshIds(s)
    PROVE  v \in Nat /\ lastId[s] < v /\ v < Clock(s) * Ulids + Ulids
<1> DEFINE c == Clock(s)
           u == Ulids
<1>1. c \in Nat /\ u \in Nat \ {0} /\ lastId[s] \in Nat /\ lastId[s] < c * u + u
  BY ClockType DEF PastIds
<1>2. v \in Unused({c * u + e : e \in 0 .. u - 1})
  BY DEF FreshIds
<1>3. PICK e \in 0 .. u - 1 : v = c * u + e
  BY <1>2 DEF Unused
<1>4. lastId[s] \div u = c => lastId[s] < v
  BY <1>2 DEF FreshIds
<1> HIDE DEF c, u
<1>5. lastId[s] \div u # c => lastId[s] < c * u
  BY <1>1, EarlierMillisecond
<1>6. c * u \in Nat
  BY <1>1
<1>7. v \in Nat /\ c * u <= v /\ v < c * u + u
  BY <1>1, <1>3, <1>6
<1> QED BY <1>1, <1>4, <1>5, <1>6, <1>7 DEF c, u

\* The versions of one server ascend from a write that was answered to one that
\* began afterwards.
Orders ==
    /\ PastIds
    /\ \A r \in Request : req[r].version <= lastId[Home(r)]
    /\ \A r \in Request : \A x \in req[r].after : Answered(x)
    /\ \A x, w \in Request :
          Earlier(x, w) /\ req[w].version # 0 => req[x].version < req[w].version

LEMMA AfterType ==
    ASSUME TypeOK, NEW r \in Request
    PROVE  /\ req[r].after \subseteq Request
           /\ req[r].version \in Nat
           /\ Home(r) \in Server
           /\ lastId[Home(r)] \in Nat
<1>1. req[r] \in RequestType /\ Home(r) \in Server
  BY PlanType DEF TypeOK
<1> QED BY <1>1 DEF TypeOK, RequestType

LEMMA OrdersStep ==
    ASSUME VersionsInv, TypeOK', Orders, [Next]_vars
    PROVE  Orders'
<1>0. TypeOK /\ req \in [Request -> RequestType]
  BY DEF VersionsInv, TypeOK
<1>1. ASSUME NEW r \in Request, NewVersion(r) PROVE Orders'
  <2>1. PICK v \in FreshIds(Home(r)) :
           /\ Become(r, [req[r] EXCEPT !.pc = "exec", !.version = v])
           /\ lastId' = [lastId EXCEPT ![Home(r)] = v]
    BY <1>1 DEF NewVersion
  <2>2. Home(r) \in Server /\ lastId \in [Server -> Nat]
    BY <1>0, AfterType DEF TypeOK
  <2>3. /\ v \in Nat /\ lastId[Home(r)] < v
        /\ v < Clock(Home(r)) * Ulids + Ulids
    BY <1>0, <2>2, FreshIdsAscend DEF Orders
  <2>4. lastId'[Home(r)] = v /\ \A s \in Server \ {Home(r)} : lastId'[s] = lastId[s]
    BY <2>1, <2>2
  <2>5. scenario' = scenario /\ now' = now
    BY <1>1 DEF NewVersion, InDatabaseUnchanged
  <2>6. /\ \A s : Clock(s)' = Clock(s)
        /\ Ulids' = Ulids /\ \A o : Home(o)' = Home(o)
    BY <2>5 DEF Clock, Ulids, Home, plan
  <2> DEFINE q == [req[r] EXCEPT !.pc = "exec", !.version = v]
  <2>7. q.after = req[r].after /\ q.version = v /\ req[r] \in RequestType
    BY <1>0 DEF RequestType
  <2>8. Become(r, q)
    BY <2>1
  <2> HIDE DEF q
  <2>9. req'[r] = q /\ \A o \in Request \ {r} : req'[o] = req[o]
    BY <1>0, <2>8, BecomeOnly
  <2>10. PastIds'
    BY <2>3, <2>4, <2>6 DEF Orders, PastIds
  <2>11. \A o \in Request : req'[o].version <= lastId'[Home(o)]
    <3> SUFFICES ASSUME NEW o \in Request PROVE req'[o].version <= lastId'[Home(o)]
      OBVIOUS
    <3>1. CASE o = r
      BY <2>3, <2>4, <2>7, <2>9, <3>1
    <3>2. CASE o # r /\ Home(o) = Home(r)
      <4>1. req[o].version <= lastId[Home(r)]
        BY <3>2 DEF Orders
      <4>2. req[o].version \in Nat /\ lastId[Home(r)] \in Nat
        BY <1>0, AfterType
      <4> QED BY <2>3, <2>4, <2>9, <3>2, <4>1, <4>2
    <3>3. CASE o # r /\ Home(o) # Home(r)
      <4>1. Home(o) \in Server
        BY <1>0, AfterType
      <4> QED BY <2>4, <2>9, <3>3, <4>1 DEF Orders
    <3> QED BY <3>1, <3>2, <3>3
  <2>12. ~Answered(r)
    BY <1>1 DEF NewVersion, Answered, At
  <2>13. \A o \in Request : req'[o].after = req[o].after
    BY <2>7, <2>9
  <2>14. \A o \in Request : \A x \in req'[o].after : Answered(x)'
    <3> SUFFICES ASSUME NEW o \in Request, NEW x \in req'[o].after PROVE Answered(x)'
      OBVIOUS
    <3>1. x \in Request /\ Answered(x)
      BY <1>0, <2>13, AfterType DEF Orders
    <3> QED BY <2>9, <2>12, <3>1 DEF Answered, At
  <2>15. ASSUME NEW x \in Request, NEW w \in Request, Earlier(x, w)', req'[w].version # 0
         PROVE  req'[x].version < req'[w].version
    <3>1. Earlier(x, w) /\ x # r
      BY <2>6, <2>12, <2>13, <2>15 DEF Earlier, Orders
    <3>2. CASE w # r
      BY <2>9, <2>15, <3>1, <3>2 DEF Orders
    <3>3. CASE w = r
      <4>1. req[x].version <= lastId[Home(r)]
        BY <3>1, <3>3 DEF Earlier, Orders
      <4>2. req[x].version \in Nat /\ lastId[Home(r)] \in Nat
        BY <1>0, AfterType
      <4> QED BY <2>3, <2>7, <2>9, <3>1, <3>3, <4>1, <4>2
    <3> QED BY <3>2, <3>3
  <2> QED BY <2>6, <2>10, <2>11, <2>14, <2>15 DEF Orders
<1>2. ASSUME UNCHANGED <<lastId, scenario>>, now' >= now,
             \A o \in Request :
                /\ req'[o].version = req[o].version
                /\ Answered(o) => Answered(o)'
                /\ \/ req'[o].after = req[o].after
                   \/ /\ req'[o].after = {x \in Request : Answered(x)}
                      /\ req'[o].version = 0
      PROVE  Orders'
  <2>1. Ulids' = Ulids /\ \A o : Home(o)' = Home(o)
    BY <1>2 DEF Ulids, Home, plan
  <2>2. PastIds'
    <3> SUFFICES ASSUME NEW s \in Server PROVE lastId[s] < Clock(s)' * Ulids + Ulids
      BY <1>2, <2>1 DEF PastIds
    <3>1. Clock(s) \in Nat /\ Ulids \in Nat /\ lastId[s] \in Nat
      BY <1>0, ClockType
    <3>2. Clock(s) <= Clock(s)' /\ Clock(s)' \in Nat
      <4>1. now \in Nat /\ now' \in Nat /\ scenario.skew[s] \in Nat
        BY <1>0, SchemaAssumptions DEF TypeOK
      <4> QED BY <1>2, <4>1 DEF Clock
    <3>3. Clock(s) * Ulids <= Clock(s)' * Ulids
      BY <3>1, <3>2, TimesMono
    <3>4. lastId[s] < Clock(s) * Ulids + Ulids
      BY DEF Orders, PastIds
    <3> DEFINE a == Clock(s) * Ulids
               b == Clock(s)' * Ulids
    <3>5. a \in Nat /\ b \in Nat /\ a <= b /\ lastId[s] < a + Ulids
      <4>1. \A x, y \in Nat : x * y \in Nat
        OBVIOUS
      <4>2. a \in Nat /\ b \in Nat
        BY <3>1, <3>2, <4>1
      <4> QED BY <3>3, <3>4, <4>2
    <3> HIDE DEF a, b
    <3>6. lastId[s] < b + Ulids
      BY <3>1, <3>5
    <3> QED BY <3>6 DEF b
  <2>3. \A o \in Request : req'[o].version = req[o].version
    BY <1>2
  <2>4. \A o \in Request : req'[o].version <= lastId'[Home(o)]
    BY <1>2, <2>3 DEF Orders
  <2>5. \A x \in Request : Answered(x) => Answered(x)'
    BY <1>2
  <2>6. ASSUME NEW o \in Request, NEW x \in req'[o].after PROVE Answered(x)'
    <3>1. x \in Request /\ Answered(x)
      BY <1>0, <1>2, <2>6, AfterType DEF Orders
    <3> QED BY <2>5, <3>1
  <2>7. ASSUME NEW x \in Request, NEW w \in Request, Earlier(x, w)', req'[w].version # 0
        PROVE  req'[x].version < req'[w].version
    <3>1. Earlier(x, w)
      BY <1>2, <2>1, <2>7 DEF Earlier
    <3> QED BY <2>3, <2>7, <3>1 DEF Orders
  <2> QED BY <2>1, <2>2, <2>4, <2>6, <2>7 DEF Orders
<1>3. ASSUME NEW r \in Request, Step(r), ~NewVersion(r) PROVE Orders'
  <2>1. /\ \A o \in Request \ {r} : req'[o] = req[o]
        /\ req'[r].after = req[r].after
        /\ req'[r].version = req[r].version
        /\ ~Answered(r) /\ scenario' = scenario /\ now' = now
    BY <1>3, StepCommon
  <2>2. lastId' = lastId
    BY <1>3 DEF Step, ParseDSL, Insert, DeleteAll, InsertDuplicate, DeleteNothing,
           StatementFails, RecordWrite, Invalidate, ReadRow, LoadCached, ParseAndStore,
           AskAgain, Decide, ListPage, ReadFails, Commit, Quietly
  <2>3. now' >= now
    BY <1>0, <2>1 DEF TypeOK
  <2>4. \A o \in Request :
           /\ req'[o].version = req[o].version
           /\ Answered(o) => Answered(o)'
           /\ req'[o].after = req[o].after
    BY <2>1 DEF Answered, At
  <2> QED BY <1>2, <2>1, <2>2, <2>3, <2>4
<1>4. ASSUME NEW r \in Request, Begin(r) PROVE Orders'
  <2> DEFINE after == {o \in Request : Answered(o)}
             known == IF Kind(r, "list") THEN Primary \cap Replica ELSE {}
             q == [Waiting EXCEPT !.pc = FirstStep(plan[r].kind), !.after = after,
                                  !.known = known]
  <2>1. Become(r, q) /\ At(r, "idle")
    BY <1>4 DEF Begin
  <2> HIDE DEF known
  <2>2. q.after = after /\ q.version = 0
    <3> HIDE DEF after
    <3> QED BY DEF Waiting
  <2> HIDE DEF q
  <2>3. req'[r] = q /\ \A o \in Request \ {r} : req'[o] = req[o]
    BY <1>0, <2>1, BecomeOnly
  <2>4. req[r].version = 0 /\ ~Answered(r)
    BY <2>1, OfRequest DEF Consistent, At, Answered
  <2>5. UNCHANGED <<lastId, scenario>> /\ now' >= now
    BY <1>0, <1>4 DEF Begin, Quietly, InDatabaseUnchanged, TypeOK
  <2>6. \A o \in Request :
           /\ req'[o].version = req[o].version
           /\ Answered(o) => Answered(o)'
           /\ req'[o].after = req[o].after \/ (req'[o].after = after /\ req'[o].version = 0)
    BY <2>2, <2>3, <2>4 DEF Answered, At
  <2> QED BY <1>2, <2>5, <2>6
<1>5. CASE UNCHANGED <<lastId, scenario, req>> /\ now' >= now
  BY <1>2, <1>5 DEF Answered, At
<1>6. CASE ReplicaApply \/ Tick \/ UNCHANGED vars
  <2>1. UNCHANGED <<lastId, scenario, req>> /\ now' >= now
    BY <1>0, <1>6 DEF ReplicaApply, Tick, vars, TypeOK
  <2> QED BY <1>5, <2>1
<1> QED BY <1>1, <1>3, <1>4, <1>6 DEF Next

-----------------------------------------------------------------------------
\* The tables are only added to, and a record is only made anew.
LEMMA TablesExtend ==
    ASSUME TypeOK, [Next]_vars
    PROVE  /\ Len(tables) \in Nat /\ Len(tables') \in Nat /\ Len(tables) <= Len(tables')
           /\ \A i \in 1..Len(tables) : tables'[i] = tables[i] /\ changedAt'[i] = changedAt[i]
           /\ \A s \in Server : recorded'[s] = recorded[s] \/ recorded'[s] = now
           /\ scenario' = scenario
<1>1. /\ tables \in Seq(SUBSET RowType) /\ changedAt \in Seq(Nat) /\ now \in Nat
      /\ Len(changedAt) = Len(tables) /\ recorded \in [Server -> Nat \cup {Never}]
      /\ Len(tables) \in Nat
  BY DEF TypeOK
<1>2. ASSUME NEW T \in SUBSET RowType, Commit(T)
      PROVE  /\ Len(tables') = Len(tables) + 1
             /\ \A i \in 1..Len(tables) :
                   tables'[i] = tables[i] /\ changedAt'[i] = changedAt[i]
             /\ recorded' = recorded /\ scenario' = scenario
  <2>1. /\ tables' = Append(tables, T) /\ changedAt' = Append(changedAt, now)
        /\ recorded' = recorded /\ scenario' = scenario
    BY <1>2 DEF Commit
  <2>2. /\ Len(tables') = Len(tables) + 1
        /\ \A i \in 1..Len(tables) : tables'[i] = tables[i]
    BY <1>1, <2>1, AppendProperties
  <2>3. \A i \in 1..Len(changedAt) : changedAt'[i] = changedAt[i]
    BY <1>1, <2>1, AppendProperties
  <2> QED BY <1>1, <2>1, <2>2, <2>3
<1>3. ASSUME NEW r \in Request, RecordWrite(r)
      PROVE  /\ \A s \in Server : recorded'[s] = recorded[s] \/ recorded'[s] = now
             /\ UNCHANGED <<tables, changedAt, scenario>>
  BY <1>1, <1>3 DEF RecordWrite, InDatabaseUnchanged
<1>4. ASSUME NEW r \in Request, Begin(r) \/ Step(r)
      PROVE  \/ \E T \in SUBSET RowType : Commit(T)
             \/ UNCHANGED <<tables, changedAt, recorded, scenario>>
             \/ RecordWrite(r)
  <2>1. Primary \cup {Row(r)} \in SUBSET RowType /\ {} \in SUBSET RowType
    BY TablesType, RowOfType
  <2> QED BY <1>4, <2>1
          DEF Begin, Step, ParseDSL, NewVersion, Insert, DeleteAll, InsertDuplicate,
              DeleteNothing, StatementFails, Invalidate, ReadRow, LoadCached, ParseAndStore,
              AskAgain, Decide, ListPage, ReadFails, Quietly, InDatabaseUnchanged
<1>5. CASE UNCHANGED <<tables, changedAt, recorded, scenario>>
  BY <1>1, <1>5
<1>6. CASE \E T \in SUBSET RowType : Commit(T)
  BY <1>1, <1>2, <1>6
<1>7. CASE \E r \in Request : RecordWrite(r)
  BY <1>1, <1>3, <1>7
<1> QED BY <1>4, <1>5, <1>6, <1>7 DEF Next, ReplicaApply, Tick, vars

LEMMA RecordedStays ==
    ASSUME TypeOK, Times, [Next]_vars, NEW w \in Request, Recorded(w),
           req'[w].version = req[w].version
    PROVE  Recorded(w)'
<1>1. PICK i \in 1..Len(tables) : Row(w) \in tables[i] /\ changedAt[i] <= recorded[Home(w)]
  BY DEF Recorded
<1>2. Row(w)' = Row(w) /\ Home(w)' = Home(w)
  BY TablesExtend DEF Row, Home, plan
<1>3. i \in 1..Len(tables') /\ tables'[i] = tables[i] /\ changedAt'[i] = changedAt[i]
  BY TablesExtend
<1>4. changedAt[i] \in Nat /\ Home(w) \in Server /\ now \in Nat /\ recorded[Home(w)] \in Int
  BY PlanType DEF TypeOK, Never
<1>5. recorded[Home(w)] <= recorded'[Home(w)] /\ recorded'[Home(w)] \in Int
  BY <1>4, TablesExtend DEF Times
<1>6. changedAt[i] <= recorded'[Home(w)]
  BY <1>1, <1>4, <1>5
<1> QED BY <1>1, <1>2, <1>3, <1>6 DEF Recorded

\* The write w is stored and recorded, or about to be answered.
Wrote(w) == Kind(w, "write") /\ (At(w, "invalidate") \/ req[w].answer = "ok")

\* The check r began when its server had answered the write w.
Asks(r, w) ==
    Kind(r, "check") /\ Kind(w, "write") /\ req[w].answer = "ok" /\ Earlier(w, r)

\* The check r has nothing older than the version of w, and lost nothing.
Served(r, w) ==
    /\ \A t \in req[r].row : req[w].version <= t.version
    /\ req[r].used # <<>> => req[w].version <= req[r].used[1].version
    /\ req[r].answer = "notFound" =>
          /\ req[r].used # <<>>
          /\ Earlier(req[r].used[1].by, r) => req[req[r].used[1].by].answer # "ok"

Own ==
    /\ \A w \in Request : Wrote(w) => Recorded(w)
    /\ MaxLag < Window /\ NothingDeleted =>
          \A r, w \in Request : Asks(r, w) => Served(r, w)

\* A finite set of versions that is not empty has a greatest one.
LEMMA GreatestVersion ==
    ASSUME NEW B \in SUBSET Nat, IsFiniteSet(B), B # {}
    PROVE  \E v \in B : \A w \in B : w <= v
<1> DEFINE Above(x) == {w \in B : x <= w}
           Sizes == {Cardinality(Above(x)) : x \in B}
<1>1. \A x \in B : IsFiniteSet(Above(x)) /\ Cardinality(Above(x)) \in Nat
  <2> SUFFICES ASSUME NEW x \in B
               PROVE  IsFiniteSet(Above(x)) /\ Cardinality(Above(x)) \in Nat
    OBVIOUS
  <2>1. Above(x) \in SUBSET B
    OBVIOUS
  <2>2. IsFiniteSet(Above(x))
    BY <2>1, FS_Subset
  <2> QED BY <2>2, FS_CardinalityType
<1>2. Sizes \in SUBSET Nat /\ Sizes # {}
  BY <1>1
<1>3. PICK n \in Sizes : \A o \in Sizes : ~ (<<o, n>> \in OpToRel(<, Nat))
  <2> HIDE DEF Sizes
  <2> QED BY <1>2, NatLessThanWellFounded, WFMin
<1>4. PICK v \in B : n = Cardinality(Above(v))
  OBVIOUS
<1>5. ASSUME NEW w \in B, ~ (w <= v) PROVE FALSE
  <2>1. Above(w) \in SUBSET Above(v) /\ v \in Above(v) /\ v \notin Above(w)
    <3>1. w \in Nat /\ v \in Nat /\ v < w
      BY <1>5
    <3>2. ASSUME NEW x \in B, w <= x PROVE v <= x
      <4>1. x \in Nat
        OBVIOUS
      <4> QED BY <3>1, <3>2, <4>1
    <3>3. Above(w) \in SUBSET Above(v)
      BY <3>2
    <3>4. v <= v /\ ~ (w <= v)
      BY <3>1
    <3> QED BY <3>3, <3>4
  <2>2. Cardinality(Above(w)) < Cardinality(Above(v))
    <3> HIDE DEF Above
    <3> QED BY <1>1, <2>1, FS_Subset
  <2>3. Cardinality(Above(w)) \in Sizes
    OBVIOUS
  <2>4. Cardinality(Above(w)) \in Nat /\ n \in Nat
    BY <1>1, <1>2
  <2> HIDE DEF Sizes, Above
  <2> QED BY <1>3, <1>4, <2>2, <2>3, <2>4 DEF OpToRel
<1> QED BY <1>5

LEMMA WrittenIsRead ==
    ASSUME ListInv, Times, Own, MaxLag < Window, NothingDeleted, NEW w \in Request,
           Kind(w, "write"), req[w].answer = "ok"
    PROVE  Row(w) \in ReadTable(Home(w))
<1>1. Recorded(w)
  BY DEF Own, Wrote
<1> QED BY <1>1, RecordedIsRead

\* What the check r finds when it reads.
LEMMA ReadServes ==
    ASSUME ListInv, Times, Own, MaxLag < Window, NothingDeleted,
           NEW r \in Request, NEW w \in Request, Asks(r, w)
    PROVE  LET found == Wanted(r, ReadTable(Home(r)))
           IN  /\ \A t \in found : req[w].version <= t.version
               /\ found = {} =>
                     /\ req[r].used # <<>>
                     /\ Earlier(req[r].used[1].by, r) =>
                           req[req[r].used[1].by].answer # "ok"
<1> DEFINE T == ReadTable(Home(r))
           used == req[r].used
<1>1. Row(w) \in T /\ Row(w).version = req[w].version
  BY WrittenIsRead DEF Asks, Earlier, Row
<1>2. VersionsInv /\ TypeOK /\ T \subseteq History /\ History \subseteq RowType
  BY HistoryType DEF ListInv, VersionsInv
<1>3. CASE used = <<>>
  <2>1. Wanted(r, T) = {t \in T : \A o \in T : o.version <= t.version}
    BY <1>3 DEF Wanted
  <2>2. Wanted(r, T) # {}
    <3>1. IsFiniteSet(Versions(T))
      <4>1. Len(tables) \in 1..Len(tables) /\ applied \in 1..Len(tables)
        BY <1>2 DEF TypeOK
      <4> QED BY <4>1 DEF ListInv, FiniteTables, ReadTable, Primary, Replica
    <3>2. Versions(T) \in SUBSET Nat /\ Versions(T) # {}
      BY <1>1, <1>2 DEF Versions, RowType
    <3>3. PICK v \in Versions(T) : \A o \in Versions(T) : o <= v
      BY <3>1, <3>2, GreatestVersion
    <3>4. PICK t \in T : t.version = v
      BY DEF Versions
    <3>5. \A o \in T : o.version <= t.version
      BY <3>3, <3>4 DEF Versions
    <3> QED BY <2>1, <3>5
  <2> QED BY <1>1, <2>1, <2>2
<1>4. CASE used # <<>>
  <2>1. Wanted(r, T) = {t \in T : t.version = used[1].version}
    BY <1>4 DEF Wanted
  <2>2. req[w].version <= used[1].version
    BY <1>4 DEF Own, Served
  <2>3. ASSUME Wanted(r, T) = {}, Earlier(used[1].by, r), req[used[1].by].answer = "ok"
        PROVE  FALSE
    <3> DEFINE x == used[1].by
    <3>1. used \in Seq(RowType) /\ Consistent(plan[r], r, req[r], History)
      BY <1>2, OfRequest DEF RequestType
    <3>2. 1 \in 1..Len(used)
      BY <1>4, <3>1
    <3>3. used[1] \in History /\ x \in Request
      BY <1>2, <3>1, <3>2 DEF Consistent, RowType
    <3>4. used[1] = Row(x) /\ req[x].version # 0
      <4>1. used[1].version # 0 /\ used[1] = Row(x)
        BY <1>2, <3>3 DEF VersionsInv, OwnRows
      <4> QED BY <4>1 DEF Row
    <3>5. Kind(x, "write")
      BY <1>2, <3>3, <3>4, OfRequest DEF Consistent, Kind
    <3>6. Row(x) \in T
      BY <2>3, <3>3, <3>5, WrittenIsRead DEF Earlier
    <3> QED BY <2>1, <2>3, <3>4, <3>6
  <2> QED BY <1>4, <2>1, <2>2, <2>3
<1> QED BY <1>3, <1>4

\* A step that leaves what the check holds alone.
LEMMA StaysServed ==
    ASSUME TypeOK, Orders, NEW r \in Request, NEW w \in Request, Served(r, w),
           w \in req[r].after, scenario' = scenario,
           \A x \in Request : Answered(x) => req'[x] = req[x],
           req'[r].after = req[r].after, req'[r].row = req[r].row,
           req'[r].used = req[r].used,
           req'[r].answer = "notFound" => req[r].answer = "notFound"
    PROVE  Served(r, w)'
<1>1. \A x \in req[r].after : req'[x] = req[x]
  BY AfterType DEF Orders
<1>2. \A x : Earlier(x, r)' => Earlier(x, r) /\ x \in req[r].after
  BY DEF Earlier, Home, plan
<1> QED BY <1>1, <1>2 DEF Served

\* Using a schema of a version that was read.
LEMMA UseServed ==
    ASSUME VersionsInv, Orders, NEW r \in Request, NEW w \in Request, Served(r, w),
           req[r].pc = "cache", NEW schema, NEW t \in req[r].row,
           schema.version = t.version, Use(r, schema)
    PROVE  Served(r, w)'
<1> DEFINE used == Append(req[r].used, schema)
           q == [req[r] EXCEPT !.pc = "using", !.row = {}, !.used = used]
<1>1. /\ TypeOK /\ req[r] \in RequestType /\ req[r].used \in Seq(RowType)
      /\ Consistent(plan[r], r, req[r], History)
  BY OfRequest DEF RequestType
<1>2. q.row = {} /\ q.used = used /\ q.answer = "none"
  <2>1. req[r].answer = "none"
    BY <1>1 DEF Consistent
  <2> HIDE DEF used
  <2> QED BY <1>1, <2>1 DEF RequestType
<1>3. Become(r, q)
  BY DEF Use
<1>4. used[1].version = t.version \/ (req[r].used # <<>> /\ used[1] = req[r].used[1])
  <2>1. CASE req[r].used = <<>>
    <3>1. used[1] = schema
      BY <2>1
    <3> QED BY <3>1
  <2>2. CASE req[r].used # <<>>
    <3>1. Len(req[r].used) \in Nat \ {0}
      BY <1>1, <2>2
    <3>2. used[1] = req[r].used[1]
      BY <1>1, <3>1
    <3> QED BY <2>2, <3>2
  <2> QED BY <2>1, <2>2
<1> HIDE DEF used, q
<1>5. req'[r] = q /\ \A o \in Request \ {r} : req'[o] = req[o]
  BY <1>1, <1>3, BecomeOnly DEF TypeOK
<1>6. req[w].version <= used[1].version
  BY <1>4 DEF Served
<1>7. req'[w].version = req[w].version
  <2>1. CASE w = r
    <3>1. q.version = req[r].version
      <4> HIDE DEF used
      <4> QED BY <1>1 DEF q, RequestType
    <3> QED BY <1>5, <2>1, <3>1
  <2>2. CASE w # r
    BY <1>5, <2>2
  <2> QED BY <2>1, <2>2
<1> QED BY <1>2, <1>5, <1>6, <1>7 DEF Served

LEMMA OwnStep ==
    ASSUME ListInv, VersionsInv', Times, Orders, Own, [Next]_vars
    PROVE  Own'
<1>0. VersionsInv /\ TypeOK /\ req \in [Request -> RequestType]
  BY DEF ListInv, VersionsInv, TypeOK
<1>1. /\ scenario' = scenario
      /\ \A o : Home(o)' = Home(o)
      /\ \A o, kind : Kind(o, kind)' = Kind(o, kind)
  BY <1>0, TablesExtend DEF Home, Kind, plan
<1>2. NothingDeleted' => NothingDeleted
  <2> SUFFICES ASSUME NothingDeleted', NEW i \in 1 .. Len(tables) - 1
               PROVE  tables[i] \subseteq tables[i + 1]
    BY DEF NothingDeleted
  <2>1. i \in 1 .. Len(tables') - 1 /\ i \in 1..Len(tables) /\ i + 1 \in 1..Len(tables)
    BY <1>0, TablesExtend
  <2> QED BY <1>0, <2>1, TablesExtend DEF NothingDeleted
<1>3. ASSUME NEW w \in Request, Wrote(w), req'[w].version = req[w].version
      PROVE  Recorded(w)'
  BY <1>0, <1>3, RecordedStays DEF Own
<1>4. ASSUME NEW r \in Request, NEW w \in Request, MaxLag < Window, NothingDeleted',
             Asks(r, w), \A x \in Request : Answered(x) => req'[x] = req[x],
             req'[r].after = req[r].after, req'[r].row = req[r].row,
             req'[r].used = req[r].used,
             req'[r].answer = "notFound" => req[r].answer = "notFound"
      PROVE  Served(r, w)'
  <2>1. Served(r, w) /\ w \in req[r].after
    BY <1>2, <1>4 DEF Own, Asks, Earlier
  <2> QED BY <1>0, <1>1, <1>4, <2>1, StaysServed
\* What a step changes is at the request that takes it.
<1>5. ASSUME NEW o \in Request, ~Answered(o), \A x \in Request \ {o} : req'[x] = req[x],
             Wrote(o)' => Recorded(o)',
             MaxLag < Window /\ NothingDeleted' =>
                \A w \in Request : Asks(o, w)' => Served(o, w)'
      PROVE  Own'
  <2>1. \A x \in Request : Answered(x) => req'[x] = req[x]
    BY <1>5
  <2>2. ASSUME NEW w \in Request, Wrote(w)' PROVE Recorded(w)'
    <3>1. CASE w = o
      BY <1>5, <2>2, <3>1
    <3>2. CASE w # o
      <4>1. Wrote(w)
        BY <1>1, <1>5, <2>2, <3>2 DEF Wrote, At
      <4> QED BY <1>3, <1>5, <3>2, <4>1
    <3> QED BY <3>1, <3>2
  <2>3. ASSUME NEW r \in Request, NEW w \in Request, MaxLag < Window, NothingDeleted',
               Asks(r, w)'
        PROVE  Served(r, w)'
    <3>1. CASE r = o
      BY <1>5, <2>3, <3>1
    <3>2. CASE r # o
      <4>1. req'[r] = req[r] /\ w \in req[r].after
        BY <1>5, <2>3, <3>2 DEF Asks, Earlier
      <4>2. Answered(w)
        BY <4>1 DEF Orders
      <4>3. Asks(r, w)
        BY <1>1, <2>1, <2>3, <4>1, <4>2 DEF Asks, Earlier
      <4> QED BY <1>4, <2>1, <2>3, <4>1, <4>3
    <3> QED BY <3>1, <3>2
  <2> QED BY <2>2, <2>3 DEF Own
<1>6. ASSUME NEW r \in Request, Begin(r) PROVE Own'
  <2> DEFINE after == {o \in Request : Answered(o)}
             known == IF Kind(r, "list") THEN Primary \cap Replica ELSE {}
             first == FirstStep(plan[r].kind)
             q == [Waiting EXCEPT !.pc = first, !.after = after, !.known = known]
  <2>1. Become(r, q) /\ ~Answered(r)
    BY <1>6 DEF Begin, At, Answered
  <2>2. Kind(r, "write") => first = "parse"
    BY DEF Kind, FirstStep
  <2> HIDE DEF after, known, first
  <2>3. q.pc = first /\ q.answer = "none" /\ q.row = {} /\ q.used = <<>>
    BY DEF Waiting
  <2> HIDE DEF q
  <2>4. req'[r] = q /\ \A o \in Request \ {r} : req'[o] = req[o]
    BY <1>0, <2>1, BecomeOnly
  <2>5. ~Wrote(r)'
    BY <1>1, <2>2, <2>3, <2>4 DEF Wrote, At
  <2>6. \A w \in Request : Served(r, w)'
    BY <2>3, <2>4 DEF Served
  <2> QED BY <1>5, <2>1, <2>3, <2>4, <2>5, <2>6
<1>7. ASSUME NEW r \in Request, Step(r) PROVE Own'
  <2>1. /\ \A o \in Request \ {r} : req'[o] = req[o]
        /\ req'[r].after = req[r].after
        /\ NewVersion(r) \/ req'[r].version = req[r].version
        /\ ~Answered(r)
    BY <1>0, <1>7, StepCommon
  <2>2. \A x \in Request : Answered(x) => req'[x] = req[x]
    BY <2>1
  <2>3. Consistent(plan[r], r, req[r], History) /\ req[r] \in RequestType
    BY <1>0, OfRequest
  <2>4. req[r].answer = "none"
    BY <2>1, <2>3 DEF Consistent, Answered, At
  <2>5. ASSUME NEW w \in Request, Asks(r, w)'
        PROVE  Asks(r, w) /\ w # r
    <3>1. w \in req[r].after
      BY <2>1, <2>5 DEF Asks, Earlier
    <3>2. Answered(w)
      BY <3>1 DEF Orders
    <3> QED BY <1>1, <2>1, <2>2, <2>5, <3>2 DEF Asks, Earlier
  <2>6. CASE ~Kind(r, "check") /\ (Wrote(r)' => Recorded(r)')
    <3>1. \A w \in Request : ~Asks(r, w)'
      BY <1>1, <2>6 DEF Asks
    <3> QED BY <1>5, <2>1, <2>6, <3>1
  <2>7. CASE NewVersion(r)
    <3>1. PICK v : Become(r, [req[r] EXCEPT !.pc = "exec", !.version = v])
      BY <2>7 DEF NewVersion
    <3> DEFINE q == [req[r] EXCEPT !.pc = "exec", !.version = v]
    <3>2. q.pc = "exec" /\ q.answer = "none"
      BY <2>3, <2>4 DEF RequestType
    <3>3. Become(r, q)
      BY <3>1
    <3> HIDE DEF q
    <3>4. req'[r] = q
      BY <1>0, <3>3, BecomeOnly
    <3>5. ~Kind(r, "check") /\ ~Wrote(r)'
      BY <2>7, <3>2, <3>4 DEF NewVersion, Kind, Wrote, At
    <3> QED BY <2>6, <3>5
  <2>8. CASE RecordWrite(r)
    <3>1. ~Kind(r, "check")
      BY <2>3, <2>8 DEF RecordWrite, At, Kind, Consistent, PlaceOfKind
    <3>2. ASSUME Kind(r, "write") PROVE Recorded(r)'
      <4>1. RowOf(plan[r], r, req[r]) \in History /\ RowOf(plan[r], r, req[r]) = Row(r)
        BY <2>3, <2>8, <3>2 DEF RecordWrite, At, Kind, Consistent, RowOf, Row
      <4>2. PICK i \in 1..Len(tables) : Row(r) \in tables[i]
        BY <4>1 DEF History
      <4>3. /\ Home(r) \in Server /\ recorded'[Home(r)] = now
            /\ UNCHANGED <<tables, changedAt>>
        BY <1>0, <2>8, PlanType DEF RecordWrite, InDatabaseUnchanged, TypeOK
      <4>4. req'[r].version = req[r].version
        BY <2>1, <2>8 DEF RecordWrite, NewVersion, At
      <4>5. Row(r)' = Row(r)
        BY <1>1, <4>4 DEF Row, plan
      <4> QED BY <1>1, <4>2, <4>3, <4>5 DEF Recorded, Times
    <3>3. Wrote(r)' => Recorded(r)'
      BY <1>1, <3>2 DEF Wrote
    <3> QED BY <2>6, <3>1, <3>3
  <2>9. CASE Passes(r)
    <3>1. PICK pc, a :
             /\ Moves(r, pc, a)
             /\ Kind(r, "check") /\ a = "notFound" => req[r].answer = "notFound"
             /\ Kind(r, "write") /\ (pc = "invalidate" \/ a = "ok") =>
                   At(r, "invalidate") \/ req[r].answer = "ok"
      BY <2>9 DEF Passes
    <3>2. /\ req'[r].pc = pc /\ req'[r].answer = a /\ req'[r].version = req[r].version
          /\ req'[r].row = req[r].row /\ req'[r].used = req[r].used
      BY <3>1 DEF Moves
    <3>3. Wrote(r)' => Wrote(r)
      BY <1>1, <3>1, <3>2 DEF Wrote, At
    <3>4. Wrote(r)' => Recorded(r)'
      BY <1>3, <3>2, <3>3
    <3>5. ASSUME MaxLag < Window, NothingDeleted', NEW w \in Request, Asks(r, w)'
          PROVE  Served(r, w)'
      <4>1. Asks(r, w) /\ Kind(r, "check")
        BY <2>5, <3>5 DEF Asks
      <4> QED BY <1>4, <2>1, <2>2, <3>1, <3>2, <3>5, <4>1
    <3> QED BY <1>5, <2>1, <3>4, <3>5
  <2>10. CASE ReadRow(r) \/ LoadCached(r) \/ ParseAndStore(r)
    <3>1. Kind(r, "check")
      BY <2>3, <2>10 DEF ReadRow, LoadCached, ParseAndStore, At, Kind, Consistent, PlaceOfKind
    <3>2. ~Wrote(r)'
      BY <1>1, <3>1 DEF Wrote, Kind
    <3>3. tables' = tables
      BY <2>10 DEF ReadRow, LoadCached, ParseAndStore, Quietly, InDatabaseUnchanged
    <3>4. ASSUME MaxLag < Window, NothingDeleted', NEW w \in Request, Asks(r, w)'
          PROVE  Served(r, w)'
      <4>1. Asks(r, w) /\ w # r /\ NothingDeleted /\ Served(r, w)
        BY <1>2, <2>5, <3>4 DEF Own
      <4>2. CASE LoadCached(r)
        <5>1. PICK schema \in Cached(r) : Use(r, schema)
          BY <4>2 DEF LoadCached
        <5>2. PICK t \in req[r].row : schema.version = t.version
          BY <5>1 DEF Cached, Versions
        <5> QED BY <1>0, <4>1, <4>2, <5>1, <5>2, UseServed DEF LoadCached, At
      <4>3. CASE ParseAndStore(r)
        <5>1. PICK row \in req[r].row : Use(r, row)
          BY <4>3 DEF ParseAndStore
        <5> QED BY <1>0, <4>1, <4>3, <5>1, UseServed DEF ParseAndStore, At
      <4>4. CASE ReadRow(r)
        <5> DEFINE found == Wanted(r, ReadTable(Home(r)))
                   q == [req[r] EXCEPT !.pc = "cache", !.row = found]
        <5>1. /\ \A t \in found : req[w].version <= t.version
              /\ found = {} =>
                    /\ req[r].used # <<>>
                    /\ Earlier(req[r].used[1].by, r) =>
                          req[req[r].used[1].by].answer # "ok"
          BY <3>4, <4>1, ReadServes
        <5>2. IF found = {} THEN Answer(r, "notFound") ELSE Become(r, q)
          BY <4>4 DEF ReadRow
        <5> HIDE DEF found
        <5>3. q.row = found /\ q.used = req[r].used /\ q.answer = "none"
          BY <2>3, <2>4 DEF RequestType
        <5> HIDE DEF q
        <5>4. CASE found # {}
          <6>1. req'[r] = q
            BY <1>0, <5>2, <5>4, BecomeOnly
          <6> QED BY <2>1, <4>1, <5>1, <5>3, <6>1 DEF Served
        <5>5. CASE found = {}
          <6>1. Moves(r, "answered", "notFound")
            BY <1>0, <5>2, <5>5, AnswerMoves
          <6>2. req'[r].row = req[r].row /\ req'[r].used = req[r].used
            BY <6>1 DEF Moves
          <6> PICK x : x = req[r].used[1].by
            OBVIOUS
          <6>3. Earlier(x, r)' => Earlier(x, r) /\ req'[x] = req[x]
            <7>1. Earlier(x, r)' => Earlier(x, r)
              BY <1>1, <2>1 DEF Earlier
            <7>2. Earlier(x, r) => x \in Request /\ Answered(x)
              BY <1>0, AfterType DEF Earlier, Orders
            <7> QED BY <2>2, <7>1, <7>2
          <6>4. Earlier(x, r)' => req'[x].answer # "ok"
            BY <5>1, <5>5, <6>3
          <6>5. req'[r].used # <<>> /\ req'[r].used[1].by = x
            BY <5>1, <5>5, <6>2
          <6> QED BY <2>1, <4>1, <6>2, <6>4, <6>5 DEF Served
        <5> QED BY <5>4, <5>5
      <4> QED BY <2>10, <4>2, <4>3, <4>4
    <3> QED BY <1>5, <2>1, <3>2, <3>4
  <2> QED BY <1>0, <1>7, <2>7, <2>8, <2>9, <2>10, StepPasses DEF Tells
<1>8. CASE req' = req
  <2>1. ASSUME NEW w \in Request, Wrote(w)' PROVE Recorded(w)'
    BY <1>1, <1>3, <1>8, <2>1 DEF Wrote, At
  <2>2. ASSUME NEW r \in Request, NEW w \in Request, MaxLag < Window, NothingDeleted',
               Asks(r, w)'
        PROVE  Served(r, w)'
    <3>1. Asks(r, w)
      BY <1>1, <1>8, <2>2 DEF Asks, Earlier
    <3> QED BY <1>4, <1>8, <2>2, <3>1
  <2> QED BY <2>1, <2>2 DEF Own
<1> QED BY <1>6, <1>7, <1>8 DEF Next, ReplicaApply, Tick, vars

\* A server serves its own schemas: however requests overlap, statements are sent
\* again and the replica lags below the window, no check resolves a version that its
\* server had overwritten before, finds none, or loses one on the way.
THEOREM OwnSchemasAreServed == Spec => []OwnSchemaServed
<1>1. Init => Orders /\ Own
  <2> SUFFICES ASSUME Init PROVE Orders /\ Own
    OBVIOUS
  <2>1. /\ \A r \in Request : req[r] = Waiting
        /\ \A s \in Server : lastId[s] = 0
        /\ TypeOK
    BY InitType DEF Init
  <2>2. /\ Waiting.version = 0 /\ Waiting.after = {} /\ Waiting.answer = "none"
        /\ Waiting.pc = "idle"
    BY DEF Waiting
  <2>3. PastIds
    <3> SUFFICES ASSUME NEW s \in Server PROVE 0 < Clock(s) * Ulids + Ulids
      BY <2>1 DEF PastIds
    <3>1. Clock(s) \in Nat /\ Ulids \in Nat \ {0}
      BY <2>1, ClockType
    <3>2. Clock(s) * Ulids \in Nat
      BY <3>1
    <3> QED BY <3>1, <3>2
  <2>4. \A r \in Request : Home(r) \in Server
    BY <2>1, PlanType DEF TypeOK
  <2>5. Orders
    BY <2>1, <2>2, <2>3, <2>4 DEF Orders
  <2>6. Own
    BY <2>1, <2>2 DEF Own, Wrote, Asks, At
  <2> QED BY <2>5, <2>6
<1>2. Orders /\ VersionsInv /\ TypeOK' /\ [Next]_vars => Orders'
  BY OrdersStep
<1>3. ListInv /\ VersionsInv' /\ Times /\ Orders /\ Own /\ [Next]_vars => Own'
  BY OwnStep
<1>4. ListInv => VersionsInv /\ TypeOK
  BY DEF ListInv, VersionsInv
<1>5. ASSUME ListInv, Orders, Own PROVE OwnSchemaServed
  <2> SUFFICES ASSUME MaxLag < Window, NothingDeleted, NEW r \in Request, NEW w \in Request,
                      Kind(r, "check"), Kind(w, "write"), req[w].answer = "ok", Earlier(w, r)
               PROVE  /\ req[r].used # <<>> => ~Earlier(req[r].used[1].by, w)
                      /\ req[r].answer = "notFound" =>
                            /\ req[r].used # <<>>
                            /\ Earlier(req[r].used[1].by, r) =>
                                  req[req[r].used[1].by].answer # "ok"
    BY DEF OwnSchemaServed
  <2>1. Served(r, w) /\ VersionsInv /\ TypeOK
    BY <1>4, <1>5 DEF Own, Asks
  <2>2. ASSUME req[r].used # <<>>, Earlier(req[r].used[1].by, w) PROVE FALSE
    <3> DEFINE t == req[r].used[1]
               x == t.by
    <3>1. req[r].used \in Seq(RowType) /\ Consistent(plan[r], r, req[r], History)
      BY <2>1, OfRequest DEF RequestType
    <3>2. 1 \in 1..Len(req[r].used)
      BY <2>2, <3>1
    <3>3. t \in History
      BY <3>1, <3>2 DEF Consistent
    <3>4. x \in Request /\ t.version = req[x].version
      BY <2>1, <3>3, HistoryType DEF VersionsInv, OwnRows, RowType, Row
    <3>5. req[w].version # 0
      <4>1. Consistent(plan[w], w, req[w], History) /\ RowOf(plan[w], w, req[w]) = Row(w)
        BY <2>1, OfRequest
      <4>2. Row(w) \in History
        BY <4>1 DEF Consistent, Kind
      <4>3. Row(w).version # 0
        BY <2>1, <4>2 DEF VersionsInv, OwnRows
      <4> QED BY <4>3 DEF Row
    <3>6. req[x].version < req[w].version
      BY <1>5, <2>2, <3>4, <3>5 DEF Orders
    <3>7. req[w].version <= req[x].version
      BY <2>1, <2>2, <3>4 DEF Served
    <3>8. req[x].version \in Nat /\ req[w].version \in Nat
      BY <2>1, <3>4, AfterType
    <3> QED BY <3>6, <3>7, <3>8
  <2> QED BY <2>1, <2>2 DEF Served
<1> QED BY <1>1, <1>2, <1>3, <1>4, <1>5, ListInductive, TimesInductive, PTL DEF Spec
=============================================================================
