# Keruberosu in TLA+

This directory is a formal model of Keruberosu, a permission service in the style of
Google Zanzibar on PostgreSQL: TLA+ modules for its stateful parts, TLC configurations
that check them on small instances, and TLAPS proofs of what holds for every size.
Paths below are relative to the root of the repository.

`PROJECT.json` relates every definition to the source lines it models (`map`), every
property to the run that checks it and to a broken variant of the code it catches
(`mutants`; the variants are the definitions marked `Mutant:` in the modules), and lists
the hazards the properties are for.

## The system

| Component | State | Operations | Talks to |
|---|---|---|---|
| relation repository, closure table (`internal/repositories/postgres/relation_repository.go`) | tables `relations` and `entity_closure` | Write, Delete, BatchWrite(InTx), BatchDelete, DeleteByFilter, RebuildClosure; queries | PostgreSQL through the cluster; called by the data handler, the evaluator, lookups, the admin command |
| transaction log (migration 5) | table `transactions`, `NOTIFY snapshot_changed` | triggers on every row change | every server that LISTENs |
| snapshot manager (`internal/infrastructure/cache/snapshot_manager.go`) | `currentToken`, `lastRefresh` | Start, GetCurrentToken, refreshFromDB, handleNotifications, Stop | the log, the checker |
| checker (`internal/services/authorization/checker.go`) | none; entries of the check cache | Check, CheckMultiple | snapshot manager, cache, evaluator |
| LRU cache (`pkg/cache/memorycache`) | `items`, `evictList`, `currentSize` | Get, Set, Delete, Clear | checker, schema service |
| cluster and write tracker (`internal/infrastructure/database`) | last write per tenant and server | RecordWrite, HasRecentWrite, cleanup, ReaderFor | repositories |
| data handler (`internal/handlers/data_handler.go`) | none | Write (alone, or one transaction over tuples and attributes), Delete, Read | repositories |
| evaluator (`authorization/evaluator.go`, `cel.go`) | none; depth and visited set of a request | EvaluateRule over union, intersection, exclusion, relation, hierarchy, CEL and rule calls | repositories, schema service |
| lookups (`authorization/lookup.go`) | page cursor | LookupEntity, LookupSubject | evaluator, repository queries |
| expander (`authorization/expander.go`) | none | Expand | repositories, schema service |
| schema service (`services/schema_service.go`) | schema versions, parsed-schema cache | Write, Read, Validate, Delete, GetSchemaEntity | parser, cache, repository |
| parser and validator (`services/parser`) | none | parse, validate, generate | schema service |
| ResilientDB (`infrastructure/database/resilient_db.go`) | none | one retry of a statement after a connection error | cluster |
| server start and stop (`cmd/server/main.go`) | the objects above | main | all |

What is hard in it: the closure table is changed incrementally by several statements of
transactions that overlap at READ COMMITTED; transaction ids commit out of order while
caches are keyed by the highest visible one; notifications get lost, race with refreshes
that run without the lock, and restarts forget everything in memory; replicas lag; errors
stop a batch halfway; cycles and several paths between two nodes; recursion through
rules, usersets and hierarchies.

For each component, what makes it correct:

- closure table: its rows are the transitive closure of the tracked relations, with the
  lengths of shortest paths; a rebuild repairs any table;
- log, snapshot manager, checker: no answer is older than its token promises, a client sees
  its own write, staleness is bounded whatever is lost or reordered;
- LRU cache: map, list and size agree, the least recently used entry goes first, a user
  sees a store that only ever forgets;
- evaluator: the answer is what the schema means, in every order tuples come and with writes
  between the reads; it ends on cyclic data; a depth error is no false alarm;
- lookups: nothing twice, nothing lost over the pages, an end;
- expander: the tree grants what the evaluator grants, and the depth limit ends it on cycles;
- schema service: a write stores its text under one version; a check never uses two
  versions' rules, nor one older than its own server's last write; a listing shows
  every version once;
- parser, validator, generator: a text is read as the grammar means it, reading ends, what is
  generated is read as the same schema; an accepted permission never fails for the schema;
- ResilientDB: a retry never applies a statement twice that has taken effect;
- server: what is started is stopped, in an order that loses nothing.

## Modules

| Module | Models | Composes |
|---|---|---|
| `ClosureOps` | the rows of `entity_closure` and the SQL of `updateClosureOnAdd`/`updateClosureOnDelete`, and the reference notions (least closure, shortest depth) | |
| `ClosureTable` | the write methods of the repository, one transaction at a time | `ClosureOps` |
| `ClosureConcurrent` | the same methods, statement by statement, in transactions that overlap | `ClosureOps` |
| `WriteLog` | transaction ids, commits, NOTIFY, replica lag, write tracker, choice of the database | |
| `CheckCache` | snapshot manager and cached checks on several servers | `WriteLog` |
| `MemoryCache` | the LRU cache with expiry | implements `LossyStore` |
| `LossyStore` | what users of the interface `pkg/cache.Cache` may rely on | |
| `Permissions` | parsed schemas and rules, and what the evaluator and the lookups ask of them | |
| `Evaluator` | one check, call by call, every read of the database a step, with commits between; for any meaning of the permissions that satisfies `MeaningAssumption` | `Permissions` |
| `LeastMeaning` | that meaning, computed: the questions a request leads to and the answers its equations force | `Evaluator`; put into it by `Evaluator.cfg` |
| `Lookup` | `LookupEntity` and `LookupSubject` over all pages of one listing, for any queries and checks that satisfy `QueriesAssumption` | |
| `LookupQueries` | those queries and checks: which relations a rule makes a lookup query for, the SQL, and what `Check` answers | `Permissions`; put into `Lookup` by `MCLookup` |
| `Expander` | `Expand`, as the tree of one state of the database, and who a tree says is granted it | `Evaluator` |
| `Validator` | what `ValidateSchema` refuses, with its search for circular permissions | |
| `Converter` | a parsed text as the entities and rules the evaluator uses | |
| `CheckedSchema` | the schema of a check as text, validated and converted, and the property that relates evaluator and validator | `LeastMeaning`, `Expander`, `Validator`, `Converter` |
| `SchemaParser` | `parser.go` over the tokens of `lexer.go`, with its error recovery | |
| `Generator` | `generator.go`, tokens for tokens | |
| `SchemaService` | schema versions of a tenant: requests that write, validate, delete, list and use them on several servers, `ResilientDB`, replica, write tracker, schema cache | |
| `SchemaRequests` | the same requests with the parser, the validator and the generator in place of their outcome | `SchemaService`, `SchemaParser`, `Validator`, `Generator` |
| `ClosureTableProofs`, `ClosureConcurrentProofs`, `CheckCacheProofs`, `MemoryCacheProofs`, `EvaluatorProofs`, `LookupProofs`, `SchemaServiceProofs` | theorems | the module of the name |
| `ExpanderProofs` | theorem | `Expander`, `EvaluatorProofs` |
| `MC*` | instances for TLC | |

### How state and actions correspond to the code

`ClosureTable`. `relations` and `closure` are the committed tables, `wRelations` and
`wClosure` what the running transaction sees, `readd` the relations that
`updateClosureOnDelete` or `RebuildClosure` still has to add again, `refs` the deleted tuples
that `DeleteByFilter` still has to clean up after, `left` what is left of a batch. `Begin*`
start a method, `InsertTuple`, `DeleteTuple`, `CleanupRef` and `ReaddEdge` are one turn of its
loops with all the statements of the turn, `Commit` and `Rollback` end it. The order in which
the relations are re-added is the order rows come back from a query without ORDER BY, so any.

`ClosureConcurrent`. `tx[x]` is the transaction: rows it has inserted (`ins`) and deleted
(`wiped`), the rows it has computed but waits for the locks of (`plan`), and where it is. Each
statement takes a snapshot when it begins (`Plan*`, `Select*`, `Read*`) and applies when
the rows are free (`Apply*`). Depths are left out, and a transaction handles one relation. Two details of the
code have no effect here and are left out too: on a cycle the list of affected descendants may hold the entity twice, which would
repeat its statements (`relation_repository.go:1034`), and a rebuild gives up after 100 passes (`:397`), more than an
instance can need; `ClosureTable` has that limit.

`WriteLog`. `id` is the transaction id taken at the first row, `pos` the place of the commit:
two sequences, because transactions commit in another order than they take ids. `queue` holds
notifications not yet delivered, `applied` how far the replica is, `recorded` the tracker.
`WriteRow`, `CommitWrite`, `RecordWrite`, `AnswerWrite` are the steps of a write handler.

`CheckCache`. `token` and `lastRefresh` are the fields of the `SnapshotManager`, `cache` the
entries of the checker under the one question all requests ask, `req` the requests. A request
goes through `FetchLatestToken`, `RefreshFromDB` (the query and the assignment under the
lock are two steps), `CacheGet`, `Read` and `CacheSet`; an answer is represented by the oldest
state of the database its evaluation has read. `Restart` empties what a server has in memory.

`MemoryCache`. `items`, `evictList` and `currentSize` are the fields; an operation that
runs under the lock is a step, and the loop of `Set` that evicts is one step per victim.

`Evaluator`. `stack` holds the running calls of `EvaluateRule` and `evaluateRelation`,
`result` what the last one returned (with `"depth"`, `"schema"`, `"cel"` and `"db"` for the
errors). `EvalStep` is one piece of code between two reads or calls. `CommitOther` is another
request, `ReadFails` a failing query. What the permissions mean is not an evaluation: `Holds` is the answer to
one question given the answers to those it leads to, and `Meaning` any solution of these equations
(`MeaningAssumption`), a pair of sets for the tuples stored at some time and all the time: what may be
granted and what must be. A solution always exists: start with "nothing may, everything must" and
apply `Holds` until nothing changes (`LeastMeaning`). It is the strictest one, so on a cycle that
nothing enters the question may not be granted and need not be denied, and negations nest as deep as they like.
`Question` are the questions of a request and `CallsOf` the calls that are one level deeper, operands
included; `Level` follows those calls down from the request.

`Lookup`. `cursor`, `candidates`, `more` and `page` are the locals of the loops of
`lookupEntityOptimized`, `lookupEntityFallback` and their subject twins; `listed` is what the
client has of the pages before. `ReadAccessible` is a query of candidates by SQL, `ReadBatch`
one of the fallback, `CheckCandidate` a call of `Check`, `EndBatch` what happens when the
batch or the page is full. What the queries select and what `Check` answers are operators among
the constants of `Lookup`: the paging depends on no more than that their ids are of the listed type and
that a tuple more takes no candidate away (`QueriesAssumption`, evaluated by TLC for the definitions of
`LookupQueries`, whose `Check` is used through what `Evaluator` shows of it). `Check` answers "allowed", "denied" or
"failed": a check that runs out of levels, or finds no attribute, fails, under a negation too, and its candidate is not
listed. It leaves out the shortcut for rules like `parent.parent`, which no schema of the instances has. `AllFollowed` is the premise of `QueryCovers`: from
this candidate, `userset_chain` follows what the evaluator follows.

`Expander`. `ExpandRule` is the tree of a question from those of the questions it leads to: its operator and
its children, the subjects of a relation, or a leaf for an attribute or a rule. `Trees` counts the levels
down; as in the code an operand of a rule is a level too, and the limit is all that ends a
cycle. It reads the committed tuples at once. `TreeGrants` is who the finished tree says is granted it, found from its
leaves up, with nothing but the tree at hand; `ExpandAgrees` compares it with the answer of an evaluation in the same state.

`SchemaParser`. A parsing function takes the position of the current token and gives back
where it stops and the node, or that it failed; the recovery is in those positions, since
where a failed function stops is where its caller goes on. A loop of the code that would
not advance is the result `Hangs`. `Generator` and `Validator` are functions of the parsed
schema; the validator's depth-first search for circular permissions keeps its visited set and path.

`SchemaService`. `tables` is the table `schemas` of the primary after each commit (the
replica has reached `tables[applied]`), `lastId` the ULID generator of a server, `recorded` its
write tracker, `cache` its parsed schemas. `req[r].pc` is where a request is: in
`parse` (`ParseDSL`, `NewVersion`), in a statement (`exec`, with `attempt` counting the retries of
`ResilientDB`), before `RecordWrite`, before `invalidateCache`; a check reads the row
(`read`), looks into the cache (`cache`) and evaluates (`using`), where it may ask
for its schema again. `Acknowledge` is where a connection breaks after the statement
took effect, `StatementFails` where it breaks before. What is asked, which requests
meet broken connections and how far the clocks of the servers differ is chosen at the start (`scenario`).

## Runs

| Run | Asks | Instance |
|---|---|---|
| `Closure` | Are rows and depths exact when each pair of nodes has one tracked relation (`ClosureExact`, `DepthsShortest`), and what is left of that with parallel and excluded relations (`ClosureTransitive`, `RebuildRepairs`; `RebuildShortest`: after every pass of a rebuild)? | 4 nodes, 6 or 7 tuples by behaviour, batches of 2, 4 passes |
| `ClosureParallelLost` | Does every tracked relation have its row? It does not (`ClosureComplete`) | 5 tuples, two of them parallel |
| `ConcurrentTx` | What holds when two methods overlap: has every relation its row (`DirectRows`), every row a path (`NoExtraRows`), and do rebuilds and one write leave the exact closure after every commit (`RebuildDuringWrite`)? | 2 transactions, 4 links on 3 nodes |
| `ConcurrentRebuildStale` | Is the table exact after a rebuild and a delete overlap? It is not (`ExactWhenIdle`) | one delete, one rebuild |
| `CacheLocal` | Do tokens keep their promises without a replica? (`CoversToken`, `ServesNotified`) | 1 server, 2 writes, 2 checks |
| `CacheReplica` | And the tracker with one? (`ReadYourWrites`, `StalenessBounded`) | 1 server, 1 write, 2 checks, lag 1, window 2, a restart |
| `CacheUntracked` | Does every client see its write? Not after a write of tuples and attributes together (`ReadYourWrites`) | as above, without the restart |
| `MemoryCache` | Does the cache keep its parts together, its limit and its order, and implement the store? | 4 keys of 1, 2, 3 and 5 units in a cache of 4 |
| `Evaluator` | Are answers what the schema means, with commits and failures in between, and does evaluation end (`AnswerBounded`, `DepthErrorIsReal`, `Answered`)? Does the expanded tree grant the same (`ExpandAgrees`), and do accepted permissions never fail for the schema (`ValidNeverFails`)? | teams and folders in cycles, negation, attributes, rule calls, circular permissions; 2 commits |
| `Lookup` | Does a listing hold everything, once, and end (`PagesAscend`, `Complete`, `Finished`)? Does the SQL propose what `Check` allows, up to the longest chain of usersets it follows (`QueryCovers`)? | 4 ids, 3 nested teams with a limit of 2, 3 nested folders, pages of 1 and 2, batches of 2, one failure, one commit |
| `LookupSkips` | Does it with a contextual tuple too? It does not (`FindsAll`) | a contextual tuple about the last document |
| `Schemas` | Is each write stored once (`StoredOnce`), does a check stay with one version (`OneVersion`) and see its server's last one (`OwnSchemaServed`), are listings complete (`ListsAll`), texts read as they are meant (`ReadsAsMeant`) and requests answered (`AllAnswered`)? | about 2250 texts validated one by one; 8 mixtures of up to 3 requests on 2 servers |

The four runs whose answer is "no" are the `findings` of `PROJECT.json`, each with the line
of the code and the words it disagrees with.

### Bounds, and why they are enough

- Closure: with four nodes there are two paths of different lengths between two nodes, a
  cycle, and a node below a cycle; a batch of two can add or delete both ends of a path. No
  tuple of an instance repeats another's role. A rebuild has up to four passes, more than
  it needs to settle here. Excluded, parallel and subject-relation tuples each
  occur; which tuples a behaviour may use is chosen at its start (`tuples`), so the exactness of
  well-keyed ones and what is left without that are checked by one run.
- Overlapping transactions: an anomaly of two transactions needs two; the four links are
  a chain, its shortcut and a way back, so one transaction can touch an edge on, above,
  below and beside the other's. Each may be a write, a delete or a rebuild; two retries of
  the same method are two transactions of the same kind.
- Tokens: two writes are what it takes for ids to commit out of order, two checks for one to
  overtake the other between its token and its entry. One server is enough because servers
  share nothing but the log, and `TokensCover` proves the property for any number. The limits in
  time are the smallest at which the window is larger than the lag (`CacheReplica`: lag 1,
  window 2, time 3), which is what the configured window is for.
- LRU cache: one key does not fit at all, any two of the others fit or do not, so `Set` evicts
  none, one or several. TTLs are zero and one tick.
- Evaluator: depth 6 of 100 is more than the longest chain without a repetition in the teams
  and less than a cycle allows, so both the depth error and the answer after cycles happen.
  Two commits let a tuple go while another comes, and each request has its own tuples that may. Negations
  nest three deep (`shown`, `hidden`, `open`). `MaxTuplesPerQuery` is not reached; `AnswerBounded` and
  `ExpandAgrees` are for queries that are not cut off (`Whole`), also in their proofs.
- Lookup: with four ids and pages of one or two a listing takes several pages and several
  batches a page; users are reached directly, through teams, through folders, and
  hidden by a ban. The requests go through SQL (`read`, `view`, `viewer`) and
  the fallback (`deep`, `open`), with attributes, contextual tuples and a subject set. One failure and one
  commit per listing, at any point. `maxUsersetDepth` is 2 of 10 and `MaxDepth` 8 of 100, so that as in the code the
  evaluator follows longer chains than the SQL: from team 1 a chain is exactly as long as the SQL follows (and
  `QueryCovers` promises its members), from team 3 it is one too long. Other stores have a userset
  that names a permission (`team#view`), a parent of a type the schema does not name, and a folder above
  the document's own, which the SQL proposes and `Check` denies. In the stores of the first three kinds the SQL
  does lose what `Check` allows: without any one of the three conjuncts of `AllFollowed` TLC finds
  `QueryCovers` violated by this instance.
- Schemas: a lost acknowledgement needs one retry, a hidden version one write more than the
  page holds (pages of 1, two versions). Two servers are what it takes for clocks to differ,
  for a cache that is not invalidated and for a page from another database; lag 1 is below the window of 2, and
  three ticks reach the window's end. A check asks for its schema twice, before and after
  whatever the others do. A millisecond has one or two first entropies: two make
  the order of ULIDs of different servers free, one makes collisions of the same server
  certain without its monotonic counter. Connections break only for the requests a
  scenario names, so that each is explored with and without. The texts are all rules of
  up to four tokens over operators and parentheses, up to three over calls, all generated rules that
  nest twice, those with one token missing, and one text for each place where parsing or validation fails.

### Fairness

`Evaluator`, `Lookup` and `SchemaService` state fairness. `Evaluator` has weak fairness of the steps of
the evaluation itself: a goroutine that can go on does, and nothing else (no commit, no failure) is
assumed to happen. `Lookup` has it of the steps that change the listing: the server goes
on, and the client sends each page token back, as a client that wants the whole
listing does. `SchemaService` has it of each request's own steps, for the same reason, and of nothing
else: not of the replica, nor of the clock; that connections never stop
breaking is possible, and the retries are what ends then. The other modules have safety properties and no fairness; nothing in the code
obliges a client to write, a replica to catch up or a notification to arrive.

## Proofs

The theorems hold for all values of the constants that satisfy the `ASSUME` of the module.

- `ClosureTableProofs`. `TypeCorrect`. `AlwaysTransitive`: the inductive invariant says so of the
  committed table and of the working copy, since `updateClosureOnAdd` composes what
  it reads and `updateClosureOnDelete` drops all rows of the nodes it touches. `ExactClosure`
  assumes `WellKeyed` (no excluded relation between plain nodes, no two tracked relations between the same two);
  its invariant `ExactInv` is needed because in the middle of a transaction the working table is not
  exact: it is the least closure of the working relations without those still to be added again,
  and perhaps with some of the tuples a filter has still to clean up. `RebuildExact` needs no
  assumption: `RebuildInv` says the same of a rebuild alone. `SoundClosure` assumes only
  `NoExcludedEdge`: with parallel relations rows may be missing, and none is left over.
  They rest on four lemmas about the SQL: adding an edge to a transitive table, adding it to a
  least closure, and the same two for dropping the descendants.
  `ShortestDepths` and `RebuiltDepths` do without induction over paths. Depths are the lengths
  of shortest paths if each edge has depth 1, the triangle inequality holds, and every other row has a first
  hop: an edge to a node one step nearer (`LengthsShortest`). The four INSERTs together give each pair the
  smaller of its old depth and that of the way over the new edge (`AddRow`), which keeps these three
  (`AddLengths`); dropping the descendants does too (`DropLengths`). In a rebuild the invariant holds after the
  first pass already: the test that compares row counts (`relation_repository.go:413`), which cannot
  see a depth, is not what makes the depths right.
- `ClosureConcurrentProofs`. `TypeCorrect`; `DirectRowsKept` from `RowsInv`: no row is locked by two
  transactions, and each transaction, by kind and program counter, still restores the rows of relations that it has
  deleted (`Restores`). `NoExtraRowsLeft` from `PathsInv`, which says what a transaction on its way
  has planned and inserted in terms of paths over the committed relations and its own one
  (`Accounted`). `RebuildExactDuringWrite` from `ExactInv`: while no delete and at most one
  write have committed, the table is closed, a rebuild has deleted only what follows from the relations it
  has read, and ends with a pass that changed no row count and so left what it sees closed (`Repairs`);
  the rows of a write join what is above and below its edge in the committed table, as long as no
  other write commits (`Joins`). Any number of rebuilds may overlap one another and the write.
- `CheckCacheProofs`. `TypeCorrect`, and `TokensCover` for configurations without a replica.
  `IInv` strengthens the property with the order of the log (ids are distinct and
  below the next one; a notification is only of a committed write), with what each token means
  (`TokensOK`: a server's token is an id that is visible) and with what a request on its way
  has seen, so that a key is never ahead of the reads that fill its entry.
  `StalenessIsBounded`, `NotifiedServed` and `OwnWritesRead` come from `FreshInv`. It ties
  the clock to the log: a state read at an instant has every commit older than the lag (`HasSeen`), an entry has
  what its expiry less `StaleAfter` promises, and a client's token is that of a write which the
  replica has applied or the server still remembers (`LogTimes`, `HasOwn`). The first has no hypothesis.
  `NotifiedServed` is for configurations without a replica, where `cluster.go` has one database to choose.
  `OwnWritesRead` assumes `WindowCovers`: the window of the write tracker is longer than the lag of
  the replica, which is what it is configured for, and every write is recorded, which `CacheUntracked` shows that one path
  of the data handler does not do.
- `MemoryCacheProofs`. `ListAndItemsAgree` and the refinement `CacheImplementsStore`, both from
  `Linked`: the list has no key twice and its keys are those of the map, and while
  `Set` evicts the list is not empty. `SizeIsExact` and `LimitKept` from `Sizes`: there is a
  running sum over the list (`Ledger`) that ends in `currentSize`; removing the element of any position and pushing in front
  give such a sum again. `EvictionOrder` and `NewEntryKept` from `Uses`: the order of
  the list is an order of last uses (`Descends`, `Asymmetric`). `TypeCorrect`.
- `EvaluatorProofs`. `TypeCorrect`, `BoundedAnswers` and `RealDepthErrors`, for every schema, request, set of tuples and
  number of commits, and for every meaning with `MeaningAssumption`. `EvaluatorInv` ties each running call
  to its caller (`Tied`): if the question the call asks may be granted, the caller may be given "true", and unless
  it must be granted, "false" (`Fits`). A caller in a loop remembers more: the tuples
  it has left behind do not grant it (`Denied`). With commits in between, "may" and "must" change as the
  evaluation goes on, so the invariant speaks of all bounds of the stored tuples that
  the commits have not left yet (`Around`): a commit only takes bounds away, and the history at the
  end is one of them (`EndsWithin`). `Reached` says that each call is an operand of a question of the
  level that its depth counts, or is one, so a call that is refused for its depth has a question above it on the last level.
- `ExpanderProofs`. `TreesExplainChecks`: `ExpandAgrees`, for every schema and depth limit. By induction over the
  levels left, a node is granted when its question may be granted and only when it must
  be (`Agrees`); of an exclusion it is the two halves together that carry over. The theorem needs that
  with nothing written no question may be granted and denied (`ExpanderAssumption`), which the
  meaning of `LeastMeaning` has by the way it is computed, and that the rows of a table have four columns.
- `LookupProofs`. `TypeCorrect`, `AscendingPages` and `CompleteListing`, for every request, page size, batch
  size and table, and for all queries and checks with `QueriesAssumption`. `Complete` speaks of the end of a listing;
  its invariant `Kept` says where, before that, an id is that should be listed and is not (`Ahead`): after the cursor and among the
  candidates, or after all of them, and then the batch was full and another will be read. It rests on what `LIMIT`
  does (`SmallestFacts`: what is left out is above all that is returned, which is then as many as allowed), also
  when two limited results are merged and limited again (`SmallestOfBoth`). A commit of another
  request only shrinks what counts as proposed and allowed throughout.
- `SchemaServiceProofs`. `TypeCorrect`, then `StoredOnceCorrect` and `OneVersionCorrect` from one invariant,
  `VersionsInv`. Neither property is inductive: that a version is stored once depends on
  which version a request holds between its attempts (no two requests the same, `OwnVersions`,
  because `FreshIds` takes none that is used; every stored row is the row of the request that
  holds its version, `OwnRows`), and that a check keeps its schema depends on the row it has read and on
  the caches, which hold stored rows only (`CachedRows`, `Consistent`). Two rows of one version are
  one row (`OneRowPerVersion`), which is why a cache keyed by the version may answer at all.
  `ListsAllCorrect` uses `ListInv`: while nothing is deleted, a version that both
  databases had at the beginning is in every table a later page may come from
  (`KnownStays`), and is on a page or below all pages and then not the last (`ShownOrBelow`,
  by `GreatestFirst`). The theorems hold for any number of servers and requests, any
  clock skew, lag, window, number of retries and size of pages.
  `OwnSchemasAreServed` is for every lag below the window. `Times` bounds how long the replica
  can be without a commit, `Orders` says that the versions of one server ascend from write to write, and `Own` that an answered
  write is recorded for as long as the replica may be without it, and what a check on its way has found.

Induction over data is out of the prover's reach, but the places that need it over numbers
(`Min` of a set, the uniqueness of a running sum, the greatest version, the levels of calls and of trees) take a
least counterexample, which exists because `<` is well-founded on the naturals. What a rule means is
recursive over rules; in its place stand the equations of its operands and calls.

What stays with TLC: the temporal properties `Answered`, `Finished` and `AllAnswered` (they need
ENABLED or fairness); `ValidNeverFails`, `QueryCovers` and `ReadsAsMeant`, which compare two recursive definitions over
rules or texts (the validator and the evaluator, the extraction of relations and the check, the generator
and the parser); and that `LeastMeaning` and `LookupQueries` satisfy the assumptions of
`Evaluator`, `Expander` and `Lookup`, which TLC evaluates for the instances.

## What the models assume of PostgreSQL and of ULIDs

READ COMMITTED: a statement sees what was committed when it began, and the changes of its
own transaction; a row that a transaction has written is locked until its end; a
statement that waited for a row deleted and inserted again does not see the new version; a
deadlock ends one of the transactions. `txid_current()` is taken at the first row a transaction
writes. NOTIFY is delivered after the commit, in order of commits, and only to connections
that listen at the time. A replica applies commits in their order.

Of ULIDs: the entropies that two servers draw in the same millisecond differ (80 random bits;
`FreshIds` takes no version in use), and those of one server grow within a millisecond.

## What the code does that its reader may not expect

Checked by a run that finds a violation:

- deleting one of two relations between the same nodes removes the row the other needs
  (`relation_repository.go:1099`);
- a rebuild that overlaps a delete may bring the deleted row back (`relation_repository.go:357`);
- a write of tuples and attributes in one transaction is not recorded by the tracker
  (`data_handler.go:94`);
- a listing with a contextual tuple may pass over ids of the database (`lookup.go:319`).

Built into the models, and into the premises of the properties:

- plain tuples of excluded relations are not tracked when written one by one, yet are added when a
  delete re-adds the relations of a descendant (`relation_repository.go:1070`): `WellKeyed` and
  `NoExcludedEdge` exclude them;
- two writes that overlap miss the rows that lead over both of their edges, and a write that overlaps a
  delete of the same missing relation can lose its row: hence the premises of `RebuildDuringWrite` and
  `DirectRows`;
- a refresh may put an older token back (`snapshot_manager.go:107`), which ends the
  promise of `ServesNotified`; with a replica, an answer from before a write may be cached under
  the token of after it, so `CoversToken` is for configurations without one; a restart forgets
  recent writes, so `ReadYourWrites` is for times without one;
- when the snapshot manager cannot start, the checker gets a nil pointer in a non-nil
  interface (`cmd/server/main.go:127`), not the "TTL-only mode" of the log message; the models
  start with a manager that runs;
- `parent.parent` and the like, where a type's relation leads to the type itself, are answered by one recursive
  query over `relations` (`FindHierarchicalWithSubject`, `evaluator.go:355`), hence by any ancestor
  and without subject sets: `AnswerBounded` leaves out answers that took the shortcut;
- an evaluation reads several times and not from one snapshot. With AND and NOT, an answer
  may be right in no single state; `AnswerBounded` says what is still true of it;
- a query for usersets stops at `MaxTuplesPerQuery` rows, without an order: a check of an entity with more
  may deny what it should allow;
- `LookupEntity` takes the SQL even when the request has a subject relation, which the query
  does not match, and finds nothing; `LookupSubject` does not (`lookup.go:142`): `QueryCovers` is for requests without one;
- the SQL of the lookups follows ten nested usersets where the evaluator follows a hundred
  (`relation_repository.go:18`, `evaluator.go:50`), and only usersets that name a relation, where the evaluator also
  takes a permission (`evaluator.go:156`); it looks for the relations of the parent's types in the schema, where the evaluator
  takes the parent it finds, and tuples are stored without a look at the schema. What is allowed by way of these
  is missing from the listing: hence the premise `AllFollowed` of `QueryCovers`. Nor does the SQL see
  contextual memberships, hence its premise that there are none;
- a query of the fallback that fails ends the listing without an error: `Complete` is for
  listings in which none does;
- in the body of an entity, `relation`, `attribute`, `permission` or `action` without a name
  behind it makes the parser loop for ever, collecting errors: the failed function does not
  advance and neither does `parseEntity` (`parser.go:229`), unlike the top level, whose
  comments (`parser.go:83`, `:91`) name the danger. `AllAnswered` excepts those requests (`hung`);
- an INSERT that is sent again after it took effect is refused as a duplicate: the writer gets an error though its
  schema is stored and served, and neither `RecordWrite` nor the invalidation follows
  (`resilient_db.go:50`); a repeated DELETE that took effect answers "not found".
  `StoredOnce` says that nothing is stored twice, and only a write that is answered is
  promised to be there. A check can find that unrecorded version on the primary and no longer on the
  replica: the last conjunct of `OwnSchemaServed` therefore speaks of
  versions whose write was answered without an error;
- versions are ULIDs of the server's clock (`schema_repository.go:35`): with clocks apart, a later write
  on another server may never become the latest version, hence the form of `OwnSchemaServed`, which
  speaks of one server's writes;
- a version resolved on the primary may not be there yet when it is read again on the
  replica, after the window or on another server (`cluster.go:59`): "not found" in the
  middle of a check, possible only for versions of other servers while the lag is below the window;
- a check that is under way can store a schema in the cache after a write has cleared it. Nothing
  else evicts it before its time, but its key holds the version, so it is never wrong (`OneVersion`);
- `SubjectPermission` and the lookups resolve the latest version for each permission or candidate, so one answer may mix
  two versions (`permission_handler.go:310`, `lookup.go:292`);
- `Expand` counts an operand of a rule as a level of depth, the evaluator does not
  (`expander.go:260`): a rule that is checked may be too deep to expand;
- string literals in rule bodies lose their escapes when the body is put together again
  (`parser.go:181`); texts are tokens here, so the models do not show it.

## Not modelled

| Part | Why |
|---|---|
| server start and stop | one sequence without concurrency; what it gets wrong (a nil manager) is named above |
| characters, comments, positions, escapes and spacing of texts | the parser is modelled over tokens |
| handlers other than the paths of `Write` and of listing schemas | conversion between messages and entities |
| attribute repository | one upsert or delete per call; its commits are writes of `WriteLog`, its `RecordWrite` the request `data` of `SchemaService` |
| delays, `BeginTx` and `PingContext` of `ResilientDB` | delays have no length; the two repeat without an effect that could be lost |
| metrics, configuration, connection set-up | no control the properties depend on |
| depths and batches of overlapping transactions | `ClosureTable` has them one at a time; together they are out of TLC's reach |
| commits between the reads of `Expand` | its tree then describes no single state; the same question is asked of the evaluator |
| `CheckMultiple`, validation of requests | loops and checks over what is modelled |

## Plan

1. Done: closure table (one at a time, overlapping), log and cached checks, LRU cache, evaluator, lookups, expander,
   parser, validator, generator, schema service with `ResilientDB`; theorems about all safety properties
   of the closure table, the cached checks, the LRU cache, the evaluator, the expander, the paging of lookups and the
   schema service.
2. `QueryCovers` as a theorem, under the premise it has, with the extraction of a rule as a constant that solves its equations.
3. One instance in place of `CacheLocal` and `CacheReplica`, as `Closure` does for the closure
   table, and then a run that shows the parser's loop as a violation of `AllAnswered` without its exception.
4. The start and the stop of the server, with the manager that did not start.
