---------------------------- MODULE SchemaService ----------------------------
(***************************************************************************)
(* The schema versions of one tenant: requests that write, validate, delete *)
(* and list them, and checks that evaluate under one of them, on several    *)
(* servers with a primary, a replica that lags and a cache of parsed        *)
(* schemas each.                                                            *)
(*                                                                         *)
(* Statements on the primary go through ResilientDB, which sends them again *)
(* after an error of the connection, even when they have taken effect.      *)
(* A version is a ULID: the time in milliseconds and an entropy that grows  *)
(* within a millisecond of one server.                                      *)
(***************************************************************************)
EXTENDS Integers, Sequences, FiniteSets

CONSTANTS
    Server,
    Request,
    Dsl,        \* the texts of schemas, with what becomes of reading each
    Scenario,   \* what is asked, whose connections break, how far servers' clocks are
                \* ahead, and bounds: until when, how often a check asks for its schema,
                \* how many entropies a millisecond may begin with
    Window,     \* window of the WriteTracker
    MaxLag,     \* bound: how long the replica takes to apply a commit
    MaxRetries, \* RetryConfig.MaxRetries
    PageSize    \* versions per page of List

ASSUME SchemaAssumptions ==
    /\ \A d \in Dsl : d.outcome \in {"accepted", "invalid", "hangs"}
    /\ Scenario \subseteq
          [plan : [Request -> [kind : {"write", "validate", "delete", "check", "list",
                                       "data", "none"},
                               server : Server, dsl : Dsl]],
           faulty : SUBSET Request, skew : [Server -> Nat],
           until : Nat, uses : Nat \ {0}, entropy : Nat \ {0}]
    /\ IsFiniteSet(Request)
    /\ Window \in Nat /\ MaxLag \in Nat /\ MaxRetries \in Nat
    /\ PageSize \in Nat \ {0}

VARIABLES
    now,
    scenario,   \* what is asked
    tables,     \* contents of the table schemas on the primary, commit by commit
    changedAt,  \* when each of them became the content
    applied,    \* the content the replica has reached
    lastId,     \* per server: the last ULID, 0 before
    recorded,   \* per server: time of the last RecordWrite, -1 if none
    cache,      \* per server: the parsed schemas
    req         \* per request: where it is and what it holds

vars == <<now, scenario, tables, changedAt, applied, lastId, recorded, cache, req>>

plan == scenario.plan

Never == -1

\* after and known are history: the requests answered when the request began, and
\* the rows the replica and the primary both had when a listing did.
Waiting == [pc |-> "idle", attempt |-> 0, version |-> 0, row |-> {}, used |-> <<>>,
            pages |-> <<>>, answer |-> "none", after |-> {}, known |-> {}]

Init ==
    /\ now = 0
    /\ scenario \in Scenario
    /\ tables = <<{}>>
    /\ changedAt = <<0>>
    /\ applied = 1
    /\ lastId = [s \in Server |-> 0]
    /\ recorded = [s \in Server |-> Never]
    /\ cache = [s \in Server |-> {}]
    /\ req = [r \in Request |-> Waiting]

-----------------------------------------------------------------------------
Primary == tables[Len(tables)]
Replica == tables[applied]

HasRecentWrite(s) == recorded[s] # Never /\ now - recorded[s] < Window

\* ReaderFor
ReadTable(s) == IF HasRecentWrite(s) THEN Primary ELSE Replica

Home(r) == plan[r].server
At(r, pc) == req[r].pc = pc
Kind(r, kind) == plan[r].kind = kind
Answered(r) == At(r, "answered")

Become(r, q) == req' = [req EXCEPT ![r] = q]
Goto(r, pc) == Become(r, [req[r] EXCEPT !.pc = pc])
Answer(r, a) == Become(r, [req[r] EXCEPT !.pc = "answered", !.answer = a])

InDatabaseUnchanged == UNCHANGED <<now, scenario, tables, changedAt, applied>>
Quietly == InDatabaseUnchanged /\ UNCHANGED <<lastId, recorded, cache>>

FirstStep(kind) ==
    CASE kind \in {"write", "validate"} -> "parse"
      [] kind = "delete" -> "exec"
      [] kind = "check"  -> "read"
      [] kind = "list"   -> "page"
      [] kind = "data"   -> "record"

Begin(r) ==
    /\ At(r, "idle") /\ ~Kind(r, "none")
    /\ Become(r, [Waiting EXCEPT !.pc = FirstStep(plan[r].kind),
                                 !.after = {o \in Request : Answered(o)},
                                 !.known = IF Kind(r, "list") THEN Primary \cap Replica
                                           ELSE {}])
    /\ Quietly

\* Mutant: after an error the text is parsed from its beginning again.
ParseRecovering(r) ==
    LET outcome == plan[r].dsl.outcome
    IN  /\ At(r, "parse")
        /\ \/ outcome = "hangs" /\ Goto(r, "hung")
           \/ outcome = "invalid" /\ Goto(r, "parse")
           \/ outcome = "accepted" /\ Kind(r, "validate") /\ Answer(r, "ok")
        /\ Quietly

\* Lexer, parser and validator; a request whose text parsing hangs on goes no
\* further, a write whose text is accepted goes on with NewVersion.
ParseDSL(r) ==
    LET outcome == plan[r].dsl.outcome
    IN  /\ At(r, "parse")
        /\ \/ outcome = "hangs" /\ Goto(r, "hung")
           \/ outcome = "invalid" /\ Answer(r, "invalid")
           \/ outcome = "accepted" /\ Kind(r, "validate") /\ Answer(r, "ok")
        /\ Quietly

-----------------------------------------------------------------------------
\* Room for every request after the first entropy of a millisecond.
Ulids == scenario.entropy + Cardinality(Request)

Unused(ids) == {i \in ids : \A o \in Request : req[o].version # i}

Clock(s) == now + scenario.skew[s] + 1

\* Mutant: ULIDs of one millisecond are in any order.
FreshIdsUnordered(s) == Unused({Clock(s) * Ulids + e : e \in 0 .. Ulids - 1})

\* A ULID of the same millisecond counts on, one of a new one begins anywhere; no
\* two servers find the same one.
FreshIds(s) ==
    LET new == Unused({Clock(s) * Ulids + e : e \in 0 .. Ulids - 1})
    IN  IF lastId[s] \div Ulids = Clock(s)
        THEN {i \in new : i > lastId[s] /\ \A j \in new : j > lastId[s] => i <= j}
        ELSE {i \in new : i < Clock(s) * Ulids + scenario.entropy}

\* The version is drawn before the statement, once.
NewVersion(r) ==
    /\ At(r, "parse") /\ Kind(r, "write") /\ plan[r].dsl.outcome = "accepted"
    /\ \E v \in FreshIds(Home(r)) :
          /\ Become(r, [req[r] EXCEPT !.pc = "exec", !.version = v])
          /\ lastId' = [lastId EXCEPT ![Home(r)] = v]
    /\ InDatabaseUnchanged /\ UNCHANGED <<recorded, cache>>

Row(r) == [version |-> req[r].version, dsl |-> plan[r].dsl, by |-> r]

Versions(T) == {t.version : t \in T}

Commit(T) ==
    /\ tables' = Append(tables, T)
    /\ changedAt' = Append(changedAt, now)
    /\ UNCHANGED <<now, scenario, applied, lastId, recorded, cache>>

\* Mutant: the version is drawn again for every attempt.
RetryWithNewVersion(r) ==
    IF req[r].attempt < MaxRetries
    THEN Become(r, [req[r] EXCEPT !.attempt = @ + 1,
                                  !.pc = IF Kind(r, "write") THEN "parse" ELSE "exec"])
    ELSE Answer(r, "error")

\* Mutant: one attempt too many.
RetryOnceMore(r) ==
    \/ /\ req[r].attempt <= MaxRetries
       /\ Become(r, [req[r] EXCEPT !.attempt = @ + 1])
    \/ Answer(r, "error")

\* A transient error: the statement is sent again, unless there were enough
\* attempts or the context ends during the delay.
Retry(r) ==
    \/ /\ req[r].attempt < MaxRetries
       /\ Become(r, [req[r] EXCEPT !.attempt = @ + 1])
    \/ Answer(r, "error")

Faulty(r) == r \in scenario.faulty

\* The result of the statement arrives, or the connection breaks before it does.
Acknowledge(r) == Goto(r, "record") \/ (Faulty(r) /\ Retry(r))

Insert(r) ==
    /\ At(r, "exec") /\ Kind(r, "write")
    /\ req[r].version \notin Versions(Primary)
    /\ Commit(Primary \cup {Row(r)})
    /\ Acknowledge(r)

\* The unique constraint refuses the row of an attempt that took effect.
InsertDuplicate(r) ==
    /\ At(r, "exec") /\ Kind(r, "write")
    /\ req[r].version \in Versions(Primary)
    /\ Answer(r, "error")
    /\ Quietly

DeleteAll(r) ==
    /\ At(r, "exec") /\ Kind(r, "delete")
    /\ Primary # {}
    /\ Commit({})
    /\ Acknowledge(r)

\* No row is affected: also when an attempt before took effect.
DeleteNothing(r) ==
    /\ At(r, "exec") /\ Kind(r, "delete")
    /\ Primary = {}
    /\ Answer(r, "notFound")
    /\ Quietly

\* The statement does not take effect; any other error is final.
StatementFails(r) ==
    /\ At(r, "exec") /\ Faulty(r)
    /\ Retry(r)
    /\ Quietly

\* Mutant: RecordWrite is forgotten.
RecordNothing(r) ==
    /\ At(r, "record")
    /\ IF Kind(r, "data") THEN Answer(r, "ok") ELSE Goto(r, "invalidate")
    /\ Quietly

\* RecordWrite; writes of relations and attributes do it as well.
RecordWrite(r) ==
    /\ At(r, "record")
    /\ recorded' = [recorded EXCEPT ![Home(r)] = now]
    /\ IF Kind(r, "data") THEN Answer(r, "ok") ELSE Goto(r, "invalidate")
    /\ InDatabaseUnchanged /\ UNCHANGED <<lastId, cache>>

\* invalidateCache of the own server, and the answer.
Invalidate(r) ==
    /\ At(r, "invalidate")
    /\ cache' = [cache EXCEPT ![Home(r)] = {}]
    /\ Answer(r, "ok")
    /\ InDatabaseUnchanged /\ UNCHANGED <<lastId, recorded>>

-----------------------------------------------------------------------------
\* Mutant: the evaluator asks for the latest version again.
WantedLatest(r, T) == {t \in T : \A o \in T : o.version <= t.version}

\* The row of a GetSchemaEntity: the latest version for Check, which hands the
\* version it got on to the evaluator.
Wanted(r, T) ==
    IF req[r].used = <<>>
    THEN {t \in T : \A o \in T : o.version <= t.version}
    ELSE {t \in T : t.version = req[r].used[1].version}

ReadRow(r) ==
    LET found == Wanted(r, ReadTable(Home(r)))
    IN  /\ At(r, "read")
        /\ IF found = {} THEN Answer(r, "notFound")
           ELSE Become(r, [req[r] EXCEPT !.pc = "cache", !.row = found])
        /\ Quietly

Use(r, schema) ==
    Become(r, [req[r] EXCEPT !.pc = "using", !.row = {}, !.used = Append(@, schema)])

\* Mutant: the cache is asked for the tenant alone.
CachedOfTenant(r) == cache[Home(r)]

Cached(r) ==
    {c \in cache[Home(r)] : c.version \in Versions(req[r].row)}

LoadCached(r) ==
    /\ At(r, "cache")
    /\ \E schema \in Cached(r) : Use(r, schema)
    /\ Quietly

\* The stored text is parsed, which it was once before it was stored.
ParseAndStore(r) ==
    /\ At(r, "cache")
    /\ Cached(r) = {}
    /\ \E row \in req[r].row :
          /\ Use(r, row)
          /\ cache' = [cache EXCEPT ![Home(r)] = @ \cup {row}]
    /\ InDatabaseUnchanged /\ UNCHANGED <<lastId, recorded>>

AskAgain(r) ==
    /\ At(r, "using")
    /\ Len(req[r].used) < scenario.uses
    /\ Goto(r, "read")
    /\ Quietly

Decide(r) ==
    /\ At(r, "using")
    /\ Answer(r, "ok")
    /\ Quietly

-----------------------------------------------------------------------------
\* The versions below the token, which is the last version of the page before.
Below(r, T) ==
    LET pages == req[r].pages
    IN  {v \in Versions(T) : \A i \in 1..Len(pages) : \A w \in pages[i] : v < w}

Greatest(n, S) == {v \in S : Cardinality({w \in S : v <= w}) <= n}

\* Mutant: the token is the first version that is not shown.
ShownBelowNext(r, T) ==
    LET rest == Below(r, T)
    IN  IF req[r].pages = <<>> THEN Greatest(PageSize, rest)
        ELSE Greatest(PageSize, rest \ Greatest(1, rest))

Shown(r, T) == Greatest(PageSize, Below(r, T))

\* List: one version more than the page tells whether there is a token.  Each page
\* is a request of its own and may come to any server.
ListPage(r, s) ==
    LET T == ReadTable(s)
        page == Shown(r, T)
        q == [req[r] EXCEPT !.pages = Append(@, page)]
    IN  /\ At(r, "page")
        /\ IF Cardinality(Below(r, T)) > PageSize
           THEN Become(r, q)
           ELSE Become(r, [q EXCEPT !.pc = "answered", !.answer = "ok"])
        /\ Quietly

\* A query fails: QueryRow is not retried, Query fails after its retries.
ReadFails(r) ==
    /\ At(r, "read") \/ At(r, "page")
    /\ Faulty(r)
    /\ Answer(r, "error")
    /\ Quietly

-----------------------------------------------------------------------------
Step(r) ==
    \/ ParseDSL(r)
    \/ NewVersion(r)
    \/ Insert(r)
    \/ InsertDuplicate(r)
    \/ DeleteAll(r)
    \/ DeleteNothing(r)
    \/ StatementFails(r)
    \/ RecordWrite(r)
    \/ Invalidate(r)
    \/ ReadRow(r)
    \/ LoadCached(r)
    \/ ParseAndStore(r)
    \/ AskAgain(r)
    \/ Decide(r)
    \/ \E s \in Server : ListPage(r, s)
    \/ ReadFails(r)

ReplicaApply ==
    /\ applied < Len(tables)
    /\ applied' = applied + 1
    /\ UNCHANGED <<now, scenario, tables, changedAt, lastId, recorded, cache, req>>

\* Time passes, but not so far that the replica would be later than MaxLag.
Tick ==
    /\ now < scenario.until
    /\ \A i \in applied + 1 .. Len(tables) : now < changedAt[i] + MaxLag
    /\ now' = now + 1
    /\ UNCHANGED <<scenario, tables, changedAt, applied, lastId, recorded, cache, req>>

Next ==
    \/ \E r \in Request : Begin(r) \/ Step(r)
    \/ ReplicaApply
    \/ Tick

Fairness == \A r \in Request : WF_vars(Step(r))

Spec == Init /\ [][Next]_vars /\ Fairness

-----------------------------------------------------------------------------
\* Every row there ever was.
History == UNION {tables[i] : i \in 1..Len(tables)}

RowType == [version : Nat, dsl : Dsl, by : Request]

RequestType ==
    [pc : {"idle", "parse", "exec", "record", "invalidate", "read", "cache", "using",
           "page", "hung", "answered"},
     attempt : 0..MaxRetries, version : Nat, row : SUBSET RowType, used : Seq(RowType),
     pages : Seq(SUBSET Nat), answer : {"none", "ok", "invalid", "error", "notFound"},
     after : SUBSET Request, known : SUBSET RowType]

TypeOK ==
    /\ now \in Nat
    /\ scenario \in Scenario
    /\ tables \in Seq(SUBSET RowType) /\ tables # <<>>
    /\ changedAt \in Seq(Nat) /\ Len(changedAt) = Len(tables)
    /\ applied \in 1..Len(tables)
    /\ lastId \in [Server -> Nat]
    /\ recorded \in [Server -> Nat \cup {Never}]
    /\ cache \in [Server -> SUBSET RowType]
    /\ req \in [Request -> RequestType]

\* However often an INSERT is sent again, a write stores its text under one version,
\* only a text that is accepted, and a write that is answered has stored it under
\* the version it answers (schema_repository.go, Create through ResilientDB).
StoredOnce ==
    /\ \A t \in History :
          /\ Kind(t.by, "write")
          /\ t.version = req[t.by].version
          /\ t.dsl = plan[t.by].dsl
          /\ t.dsl.outcome = "accepted"
    /\ \A t, u \in History : t.by = u.by \/ t.version = u.version => t = u
    /\ \A r \in Request :
          Kind(r, "write") /\ req[r].answer = "ok" => Row(r) \in History

\* All that one check asks of its schema is of the version it resolved first and of
\* the text stored under it, whatever is written, deleted or invalidated while it
\* runs (checker.go, Check: the resolved version ensures consistent schema usage).
OneVersion ==
    \A r \in Request : \A i \in 1..Len(req[r].used) :
        /\ req[r].used[i] = req[r].used[1]
        /\ req[r].used[i] \in History

NothingDeleted == \A i \in 1 .. Len(tables) - 1 : tables[i] \subseteq tables[i + 1]

Earlier(w, r) == w \in req[r].after /\ Home(w) = Home(r)

\* Own schemas are served: a check never resolves a version whose write its server
\* had answered before it began a write that it answered before the check, nor does
\* it find no schema, nor lose one of its server's on the way, while the replica's
\* lag is below the window and nothing is deleted (monotonic ULIDs, RecordWrite,
\* ReaderFor; clocks of other servers may be ahead).  A write that is answered with
\* an error may have stored its version all the same; nobody records it, and a check
\* can lose it.
OwnSchemaServed ==
    MaxLag < Window /\ NothingDeleted =>
        \A r, w \in Request :
            Kind(r, "check") /\ Kind(w, "write") /\ req[w].answer = "ok" /\ Earlier(w, r) =>
                LET used == req[r].used
                IN  /\ used # <<>> => ~Earlier(used[1].by, w)
                    /\ req[r].answer = "notFound" =>
                          /\ used # <<>>
                          /\ Earlier(used[1].by, r) => req[used[1].by].answer # "ok"

\* A listing goes down version by version, shows only what was stored, and shows
\* every version both databases had when it began, whichever servers answer its
\* pages and whatever is written meanwhile (schema_handler.go, List).
ListsAll ==
    \A r \in Request :
        LET pages == req[r].pages
        IN  /\ \A i, j \in 1..Len(pages) : i < j =>
                  \A v \in pages[i], w \in pages[j] : w < v
            /\ \A i \in 1..Len(pages) : pages[i] \subseteq Versions(History)
            /\ Kind(r, "list") /\ req[r].answer = "ok" /\ NothingDeleted =>
                  Versions(req[r].known) \subseteq UNION {pages[i] : i \in 1..Len(pages)}

\* Every request that has begun is answered, however connections break, unless its
\* text is one the parser hangs on.
AllAnswered ==
    \A r \in Request :
        ~At(r, "idle") ~> Answered(r) \/ At(r, "hung")
=============================================================================
