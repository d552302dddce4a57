----------------------------- MODULE LookupProofs -----------------------------
(***************************************************************************)
(* Theorems about Lookup for all queries and checks that satisfy            *)
(* QueriesAssumption, and all sizes of pages and batches.                   *)
(*                                                                         *)
(* The paging rests on one fact about LIMIT (SmallestFacts): what a query   *)
(* leaves out is above all it returns, and then it returns as many as it    *)
(* may.  So an id that is not among the candidates is behind them, and the  *)
(* batch is a full one.                                                     *)
(***************************************************************************)
EXTENDS Lookup, FiniteSetTheorems, WellFoundedInduction, TLAPS

\* A set of numbers has a least one, which is what Min picks.
LEMMA MinFacts ==
    ASSUME NEW S, S \subseteq Nat, S # {}
    PROVE  Min(S) \in S /\ \A x \in S : Min(S) <= x
<1>1. PICK m \in S : \A x \in S : ~ (<<x, m>> \in OpToRel(<, Nat))
  BY NatLessThanWellFounded, WFMin
<1>2. ASSUME NEW x \in S, x < m PROVE FALSE
  BY <1>1, <1>2 DEF OpToRel
<1>3. m \in S /\ \A x \in S : m <= x
  BY <1>2
<1>4. QED  BY <1>3 DEF Min

\* What LIMIT n leaves out of S is above the n rows it returns.
LEMMA SmallestFacts ==
    ASSUME NEW S, S \subseteq Nat, IsFiniteSet(S), NEW n \in Nat
    PROVE  /\ Smallest(n, S) \subseteq S
           /\ \A i \in S \ Smallest(n, S) :
                 /\ Cardinality(Smallest(n, S)) >= n
                 /\ \A j \in Smallest(n, S) : j < i
<1> DEFINE Below(i) == {j \in S : j < i}
           L == Smallest(n, S)
<1>1. \A i \in S : i \in L <=> Cardinality(Below(i)) < n
  BY DEF Smallest
<1>2. L \subseteq S
  BY DEF Smallest
<1> HIDE DEF L
<1>3. \A i \in Nat : Cardinality(Below(i)) \in Nat /\ IsFiniteSet(Below(i))
  <2> SUFFICES ASSUME NEW i \in Nat
               PROVE  Cardinality(Below(i)) \in Nat /\ IsFiniteSet(Below(i))
    OBVIOUS
  <2>1. Below(i) \in SUBSET S
    OBVIOUS
  <2> HIDE DEF Below
  <2> QED BY <2>1, FS_Subset, FS_CardinalityType
<1>4. ASSUME NEW i \in S, i \notin L, NEW j \in L
      PROVE  j < i
  <2>1. SUFFICES ASSUME i < j PROVE FALSE
    BY <1>2, <1>4
  <2>2. Below(i) \in SUBSET Below(j)
    <3>1. ASSUME NEW k \in S, k < i PROVE k < j
      BY <1>2, <2>1, <3>1
    <3> QED BY <3>1
  <2>3. IsFiniteSet(Below(j)) /\ Cardinality(Below(i)) \in Nat /\ Cardinality(Below(j)) \in Nat
    BY <1>2, <1>3
  <2>4. Cardinality(Below(i)) <= Cardinality(Below(j))
    <3> HIDE DEF Below
    <3> QED BY <2>2, <2>3, FS_Subset
  <2>5. Cardinality(Below(j)) < n /\ ~(Cardinality(Below(i)) < n)
    BY <1>1, <1>2, <1>4
  <2> HIDE DEF Below
  <2> QED BY <2>3, <2>4, <2>5
<1>5. ASSUME NEW i \in S, i \notin L
      PROVE  Cardinality(L) >= n
  <2>1. S \ L \subseteq Nat /\ S \ L # {}
    BY <1>5
  <2>2. PICK m \in S \ L : \A x \in S \ L : m <= x
    BY <2>1, MinFacts
  <2>3. Below(m) \in SUBSET L
    <3>1. ASSUME NEW k \in S, k < m PROVE k \in L
      BY <2>2, <3>1
    <3> QED BY <3>1
  <2>4. IsFiniteSet(L)
    BY <1>2, FS_Subset
  <2>5. Cardinality(Below(m)) \in Nat /\ ~(Cardinality(Below(m)) < n)
    BY <1>1, <1>3, <2>2
  <2>6. Cardinality(Below(m)) <= Cardinality(L) /\ Cardinality(L) \in Nat
    <3> HIDE DEF Below
    <3> QED BY <2>3, <2>4, FS_Subset, FS_CardinalityType
  <2> HIDE DEF Below
  <2> QED BY <2>5, <2>6
<1>6. QED
  BY <1>2, <1>4, <1>5 DEF L

\* The same when two queries are limited first and their results together again.
LEMMA SmallestOfBoth ==
    ASSUME NEW S, S \subseteq Nat, IsFiniteSet(S),
           NEW U, U \subseteq Nat, IsFiniteSet(U), NEW n \in Nat,
           NEW i \in S, i \notin Smallest(n, Smallest(n, S) \cup Smallest(n, U))
    PROVE  LET L == Smallest(n, Smallest(n, S) \cup Smallest(n, U))
           IN  Cardinality(L) >= n /\ \A j \in L : j < i
<1> DEFINE P == Smallest(n, S)
           M == P \cup Smallest(n, U)
           L == Smallest(n, M)
<1>1. /\ P \subseteq S /\ Smallest(n, U) \subseteq U
      /\ \A k \in S \ P : Cardinality(P) >= n /\ \A j \in P : j < k
  BY SmallestFacts
<1>2. IsFiniteSet(P) /\ IsFiniteSet(M) /\ M \subseteq Nat
  <2>1. IsFiniteSet(P) /\ IsFiniteSet(Smallest(n, U))
    <3> HIDE DEF P
    <3> QED BY <1>1, FS_Subset
  <2> QED BY <1>1, <2>1, FS_Union
<1>3. /\ L \subseteq M
      /\ \A k \in M \ L : Cardinality(L) >= n /\ \A j \in L : j < k
  <2> HIDE DEF M
  <2> QED BY <1>2, SmallestFacts
<1>4. i \notin L
  OBVIOUS
<1>5. CASE i \in M
  BY <1>3, <1>4, <1>5
<1>6. CASE i \notin M
  <2>1. i \in S \ P
    BY <1>6
  <2>2. Cardinality(P) >= n /\ \A k \in P : k < i
    BY <1>1, <2>1
  <2>3. ASSUME NEW j \in L PROVE j < i
    <3>1. SUFFICES ASSUME i < j PROVE FALSE
      BY <1>2, <1>3, <1>6
    <3> DEFINE B == {k \in M : k < j}
    <3>2. Cardinality(B) < n
      BY DEF Smallest
    <3>3. P \in SUBSET B
      <4>1. ASSUME NEW k \in P PROVE k < j
        BY <1>1, <1>2, <1>3, <2>2, <3>1
      <4> QED BY <4>1
    <3>4. IsFiniteSet(B)
      <4>1. B \in SUBSET M
        OBVIOUS
      <4> HIDE DEF B, M
      <4> QED BY <1>2, <4>1, FS_Subset
    <3> HIDE DEF B, P
    <3>5. Cardinality(P) <= Cardinality(B) /\ Cardinality(P) \in Nat /\ Cardinality(B) \in Nat
      BY <1>2, <3>3, <3>4, FS_Subset, FS_CardinalityType
    <3> QED BY <2>2, <3>2, <3>5
  <2>4. Cardinality(L) >= n
    <3>1. CASE M = L
      <4>1. P \in SUBSET M
        OBVIOUS
      <4> HIDE DEF P, M, L
      <4>2. Cardinality(P) <= Cardinality(M) /\ Cardinality(P) \in Nat /\ Cardinality(M) \in Nat
        BY <1>2, <4>1, FS_Subset, FS_CardinalityType
      <4> QED BY <2>2, <3>1, <4>2
    <3>2. CASE M # L
      BY <1>3, <3>2
    <3> QED BY <3>1, <3>2
  <2> QED BY <2>3, <2>4
<1> QED BY <1>5, <1>6

-----------------------------------------------------------------------------
(***************************************************************************)
(* What is known of the request and of the tuples stored meanwhile.         *)
(***************************************************************************)
Origin(s, V) ==
    /\ s \in Scenario /\ req = s.req
    /\ V \in SUBSET Volatile /\ IsFiniteSet(V) /\ Cardinality(V) <= MaxCommits
    /\ always = s.stored \ V
    /\ ever = s.stored \cup V
    /\ always \subseteq stored /\ stored \subseteq ever

Begun == \E s, V : Origin(s, V)

LEMMA InTables ==
    ASSUME NEW s, NEW V \in SUBSET Volatile, Cardinality(V) <= MaxCommits,
           NEW T, s.stored \ V \subseteq T, T \subseteq s.stored \cup V
    PROVE  T \in Tables(s)
<1>1. T = (s.stored \ V) \cup (T \cap V) /\ T \cap V \in SUBSET V
  OBVIOUS
<1>2. T \in {(s.stored \ V) \cup W : W \in SUBSET V}
  BY <1>1
<1>3. V \in {U \in SUBSET Volatile : Cardinality(U) <= MaxCommits}
  OBVIOUS
<1>4. QED  BY <1>2, <1>3 DEF Tables

\* The candidates are numbers; a tuple that is stored all the time is among those
\* stored now, so what it proposes is proposed now, and what holds throughout holds now.
LEMMA RequestFacts ==
    ASSUME Begun
    PROVE  /\ IsFiniteSet(IdsOfType(req)) /\ IdsOfType(req) \subseteq Nat \ {0}
           /\ AttributedIds(req) \subseteq IdsOfType(req)
           /\ ContextualIds(req) \subseteq IdsOfType(req)
           /\ QueriedIds(req, stored) \subseteq IdsOfType(req)
           /\ RelatedIds(req, stored) \subseteq IdsOfType(req)
           /\ QueriedIds(req, always) \subseteq QueriedIds(req, stored)
           /\ RelatedIds(req, always) \subseteq RelatedIds(req, stored)
           /\ \A i \in IdsOfType(req) :
                 Verified(req, i, always, ever) => Verified(req, i, stored, stored)
<1>1. PICK s, V : Origin(s, V)
  BY DEF Begun
<1>2. s \in Scenario /\ req = s.req
  BY <1>1 DEF Origin
<1>3. always \in Tables(s) /\ stored \in Tables(s) /\ ever \in Tables(s)
  BY <1>1, InTables DEF Origin
<1>4. always \subseteq stored /\ stored \subseteq ever
  BY <1>1 DEF Origin
<1>5. QED
  BY <1>2, <1>3, <1>4, QueriesAssumption DEF QueriesAssumption

LEMMA SizeFacts ==
    ASSUME Begun
    PROVE  limit \in Nat \ {0} /\ batchSize \in Nat \ {0}
<1>1. req.pageSize \in Int
  BY LookupAssumption DEF LookupAssumption, Begun, Origin
<1>2. limit \in Nat \ {0}
  BY <1>1, LookupAssumption DEF LookupAssumption, limit
<1>3. Max({3 * limit, defaultBatchSize}) \in Nat \ {0}
  <2> DEFINE S == {3 * limit, defaultBatchSize}
  <2>1. S \subseteq Nat \ {0}
    BY <1>2, LookupAssumption DEF LookupAssumption
  <2>2. \E x \in S : \A y \in S : x >= y
    BY <1>2, LookupAssumption DEF LookupAssumption
  <2>3. Max(S) \in S
    BY <2>2 DEF Max
  <2> QED BY <2>1, <2>3
<1>4. batchSize \in Nat \ {0}
  <2> DEFINE S == {Max({3 * limit, defaultBatchSize}), maxBatchSize}
  <2>1. S \subseteq Nat \ {0} /\ S # {}
    BY <1>3, LookupAssumption DEF LookupAssumption
  <2> HIDE DEF S
  <2>2. Min(S) \in S
    BY <2>1, MinFacts
  <2> QED BY <2>1, <2>2 DEF batchSize, S
<1>5. QED  BY <1>2, <1>4

-----------------------------------------------------------------------------
(***************************************************************************)
(* The invariants.                                                          *)
(***************************************************************************)
State == TypeOK /\ Begun

\* The cursor divides what was looked at from what is still to come.
Ordered ==
    /\ PagesAscend
    /\ \A i \in page \cup listed : i <= cursor
    /\ \A i \in candidates : cursor < i
    /\ pc # "check" => candidates = {}
    /\ pc = "done" => page = {}

\* An id that should be listed and is not lies ahead: among the candidates, or behind
\* them, and then the batch was a full one and another will be asked for.
Ahead(i) ==
    /\ pc # "done"
    /\ cursor < i
    /\ pc = "check" => \/ i \in candidates
                       \/ more /\ \A j \in candidates : j < i

Kept ==
    ~readFailed =>
        \A i \in Proposed \ (listed \cup failed \cup page) :
            \/ ~Verified(req, i, always, ever)
            \/ \E c \in ContextualIds(req) : c > i
            \/ Ahead(i)

LookupInv == State /\ Ordered /\ Kept

LEMMA InitInv == Init => LookupInv
<1> SUFFICES ASSUME Init PROVE LookupInv
  OBVIOUS
<1>1. PICK s \in Scenario :
        /\ stored = s.stored /\ req = s.req /\ pc = "read" /\ cursor = 0 /\ candidates = {}
        /\ more = FALSE /\ page = {} /\ listed = {} /\ failed = {} /\ readFailed = FALSE
        /\ ever = s.stored /\ always = s.stored
  BY DEF Init
<1>2. Begun
  <2>1. IsFiniteSet({}) /\ Cardinality({}) = 0
    BY FS_EmptySet
  <2>2. Origin(s, {})
    BY <1>1, <2>1, LookupAssumption DEF Origin, LookupAssumption
  <2> QED BY <2>2 DEF Begun
<1>3. TypeOK
  <2>1. stored \subseteq Tuple
    BY <1>1, LookupAssumption DEF LookupAssumption
  <2>2. Cardinality(page) <= limit
    BY <1>1, <1>2, SizeFacts, FS_EmptySet
  <2> QED BY <1>1, <2>1, <2>2 DEF TypeOK
<1>4. Ordered
  BY <1>1 DEF Ordered, PagesAscend
<1>5. Kept
  <2>1. Proposed \subseteq Nat \ {0}
    BY <1>2, RequestFacts DEF Proposed
  <2> QED BY <1>1, <2>1 DEF Kept, Ahead
<1> QED BY <1>2, <1>3, <1>4, <1>5 DEF LookupInv, State

-----------------------------------------------------------------------------
(***************************************************************************)
(* A batch of candidates.  It follows the cursor, and what is proposed and  *)
(* not in it is behind it.                                                  *)
(***************************************************************************)
Batch(all, full) ==
    /\ all \subseteq After(IdsOfType(req))
    /\ \A i \in After(Proposed) :
          \/ i \in all
          \/ full /\ \A j \in all : j < i
          \/ \E c \in ContextualIds(req) : c > i

LEMMA AfterFacts ==
    ASSUME State, NEW S, S \subseteq IdsOfType(req)
    PROVE  /\ After(S) \subseteq After(IdsOfType(req))
           /\ After(S) \subseteq Nat
           /\ IsFiniteSet(After(S))
<1>1. After(S) \in SUBSET IdsOfType(req) /\ After(S) \subseteq After(IdsOfType(req))
  BY DEF After
<1> QED BY <1>1, RequestFacts, FS_Subset DEF State

LEMMA AccessibleBatch ==
    ASSUME State, Optimized(req)
    PROVE  LET all == Smallest(limit + 1, After(QueriedIds(req, stored)))
                      \cup After(ContextualIds(req))
           IN  Batch(all, Cardinality(all) > limit)
<1> DEFINE Q == After(QueriedIds(req, stored))
           L == Smallest(limit + 1, Q)
           C == After(ContextualIds(req))
           all == L \cup C
<1>1. /\ QueriedIds(req, stored) \subseteq IdsOfType(req)
      /\ ContextualIds(req) \subseteq IdsOfType(req)
      /\ IdsOfType(req) \subseteq Nat
      /\ QueriedIds(req, always) \subseteq QueriedIds(req, stored)
  BY RequestFacts DEF State
<1>2. /\ Q \subseteq After(IdsOfType(req)) /\ Q \subseteq Nat /\ IsFiniteSet(Q)
      /\ C \subseteq After(IdsOfType(req)) /\ C \subseteq Nat /\ IsFiniteSet(C)
  BY <1>1, AfterFacts
<1>3. limit \in Nat /\ limit + 1 \in Nat
  BY SizeFacts DEF State
<1> HIDE DEF Q, C
<1>4. /\ L \subseteq Q
      /\ \A i \in Q \ L : Cardinality(L) >= limit + 1 /\ \A j \in L : j < i
  BY <1>2, <1>3, SmallestFacts
<1> HIDE DEF L
<1>5. all \subseteq After(IdsOfType(req))
  BY <1>2, <1>4
<1>6. Cardinality(L) <= Cardinality(all) /\ Cardinality(L) \in Nat /\ Cardinality(all) \in Nat
  <2>1. IsFiniteSet(L)
    BY <1>2, <1>4, FS_Subset
  <2>2. IsFiniteSet(all) /\ L \in SUBSET all
    BY <1>2, <2>1, FS_Union
  <2> HIDE DEF all
  <2> QED BY <2>1, <2>2, FS_Subset, FS_CardinalityType
<1>7. ASSUME NEW i \in After(Proposed), i \notin all,
             ~ \E c \in ContextualIds(req) : c > i
      PROVE  Cardinality(all) > limit /\ \A j \in all : j < i
  <2>1. i \in Proposed /\ cursor < i
    BY DEF After
  <2>2. i \notin ContextualIds(req)
    BY <1>7, <2>1 DEF After, C
  <2>3. i \in QueriedIds(req, stored)
    BY <1>1, <2>1, <2>2 DEF Proposed
  <2>4. i \in Q \ L
    BY <1>7, <2>1, <2>3 DEF Q, After
  <2>5. \A j \in C : j < i
    BY <1>1, <1>7, <2>2, <2>3 DEF C, After
  <2> QED BY <1>3, <1>4, <1>6, <2>4, <2>5
<1> QED BY <1>5, <1>7 DEF Batch, Q, C, L

LEMMA MergedBatch ==
    ASSUME State, ~Optimized(req)
    PROVE  LET db == Smallest(batchSize, Smallest(batchSize, After(RelatedIds(req, stored)))
                                         \cup Smallest(batchSize, After(AttributedIds(req))))
           IN  Batch(db \cup After(ContextualIds(req)), Cardinality(db) >= batchSize)
<1> DEFINE R == After(RelatedIds(req, stored))
           A == After(AttributedIds(req))
           C == After(ContextualIds(req))
           M == Smallest(batchSize, R) \cup Smallest(batchSize, A)
           db == Smallest(batchSize, M)
           all == db \cup C
<1>1. /\ RelatedIds(req, stored) \subseteq IdsOfType(req)
      /\ AttributedIds(req) \subseteq IdsOfType(req)
      /\ ContextualIds(req) \subseteq IdsOfType(req)
      /\ IdsOfType(req) \subseteq Nat
      /\ RelatedIds(req, always) \subseteq RelatedIds(req, stored)
  BY RequestFacts DEF State
<1>2. /\ R \subseteq After(IdsOfType(req)) /\ R \subseteq Nat /\ IsFiniteSet(R)
      /\ A \subseteq After(IdsOfType(req)) /\ A \subseteq Nat /\ IsFiniteSet(A)
      /\ C \subseteq After(IdsOfType(req))
  BY <1>1, AfterFacts
<1>3. batchSize \in Nat
  BY SizeFacts DEF State
<1> HIDE DEF R, A, C
<1>4. \A i \in R \cup A : i \notin db => Cardinality(db) >= batchSize /\ \A j \in db : j < i
  <2>1. ASSUME NEW i \in R, i \notin db
        PROVE  Cardinality(db) >= batchSize /\ \A j \in db : j < i
    BY <1>2, <1>3, <2>1, SmallestOfBoth
  <2>2. ASSUME NEW i \in A, i \notin db
        PROVE  Cardinality(db) >= batchSize /\ \A j \in db : j < i
    <3>1. M = Smallest(batchSize, A) \cup Smallest(batchSize, R)
      OBVIOUS
    <3> QED BY <1>2, <1>3, <2>2, <3>1, SmallestOfBoth
  <2> QED BY <2>1, <2>2
<1>5. db \subseteq R \cup A
  <2>1. Smallest(batchSize, R) \subseteq R /\ Smallest(batchSize, A) \subseteq A
    BY <1>2, <1>3, SmallestFacts
  <2>2. db \subseteq M
    BY DEF Smallest
  <2> QED BY <2>1, <2>2
<1> HIDE DEF db
<1>6. all \subseteq After(IdsOfType(req))
  BY <1>2, <1>5
<1>7. ASSUME NEW i \in After(Proposed), i \notin all,
             ~ \E c \in ContextualIds(req) : c > i
      PROVE  Cardinality(db) >= batchSize /\ \A j \in all : j < i
  <2>1. i \in Proposed /\ cursor < i
    BY DEF After
  <2>2. i \notin ContextualIds(req)
    BY <1>7, <2>1 DEF After, C
  <2>3. i \in RelatedIds(req, stored) \cup AttributedIds(req)
    BY <1>1, <2>1, <2>2 DEF Proposed
  <2>4. i \in R \cup A
    BY <2>1, <2>3 DEF R, A, After
  <2>5. \A j \in C : j < i
    BY <1>1, <1>7, <2>2, <2>3 DEF C, After
  <2> QED BY <1>4, <1>7, <2>4, <2>5
<1> QED BY <1>6, <1>7 DEF Batch, R, A, C, db

-----------------------------------------------------------------------------
(***************************************************************************)
(* The steps.  A read begins a batch; nothing but CommitOther changes what   *)
(* is proposed.                                                             *)
(***************************************************************************)
Fixed == UNCHANGED <<stored, req, history>>

LEMMA FixedBegun == ASSUME Begun, Fixed PROVE Begun'
BY DEF Begun, Origin, Fixed, history

LEMMA FixedProposed ==
    ASSUME Fixed
    PROVE  Proposed' = Proposed /\ limit' = limit
BY DEF Proposed, limit, Fixed, history

LEMMA BatchRead ==
    ASSUME LookupInv, pc = "read", pc' = "check", more' \in BOOLEAN,
           readFailed' \in BOOLEAN, readFailed => readFailed',
           candidates' \subseteq After(IdsOfType(req)),
           readFailed' \/ Batch(candidates', more'),
           Fixed, UNCHANGED <<cursor, page, listed, failed>>
    PROVE  LookupInv'
<1> USE DEF LookupInv
<1>1. Begun'
  BY FixedBegun DEF State
<1>2. req' = req /\ stored' = stored /\ always' = always /\ ever' = ever
  BY DEF Fixed, history
<1>3. TypeOK'
  BY <1>2, FixedProposed DEF State, TypeOK, After
<1>4. Ordered'
  BY DEF Ordered, PagesAscend, After
<1>5. Kept'
  <2> SUFFICES ASSUME ~readFailed',
                      NEW i \in Proposed, i \notin listed \cup failed \cup page,
                      Verified(req, i, always, ever), ~ \E c \in ContextualIds(req) : c > i
               PROVE  Ahead(i)'
    BY <1>2, FixedProposed DEF Kept
  <2>1. cursor < i
    BY DEF Kept, Ahead, State, TypeOK
  <2>2. i \in After(Proposed)
    BY <2>1 DEF After
  <2>3. i \in candidates' \/ (more' /\ \A j \in candidates' : j < i)
    BY <2>2 DEF Batch
  <2> QED BY <2>1, <2>3 DEF Ahead
<1> QED BY <1>1, <1>3, <1>4, <1>5 DEF State

LEMMA ReadAccessibleInv == ASSUME LookupInv, ReadAccessible PROVE LookupInv'
<1> DEFINE all == Smallest(limit + 1, After(QueriedIds(req, stored)))
                  \cup After(ContextualIds(req))
<1>1. Batch(all, Cardinality(all) > limit)
  BY AccessibleBatch DEF LookupInv, ReadAccessible
<1>2. readFailed \in BOOLEAN
  BY DEF LookupInv, State, TypeOK
<1>3. /\ pc = "read" /\ pc' = "check" /\ candidates' = all
      /\ more' = (Cardinality(all) > limit)
      /\ Fixed /\ UNCHANGED <<cursor, page, listed, failed, readFailed>>
  BY DEF ReadAccessible, Fixed, history
<1> HIDE DEF all
<1>4. Batch(candidates', more') /\ more' \in BOOLEAN
  BY <1>1, <1>3
<1>5. candidates' \subseteq After(IdsOfType(req))
  BY <1>4 DEF Batch
<1> QED BY <1>2, <1>3, <1>4, <1>5, BatchRead

\* A batch of which one part is missing is still one of ids behind the cursor.
LEMMA ReadBatchInv ==
    ASSUME LookupInv, NEW relationsFail \in BOOLEAN, NEW attributesFail \in BOOLEAN,
           ReadBatch(relationsFail, attributesFail)
    PROVE  LookupInv'
<1> DEFINE rel == IF relationsFail THEN {}
                  ELSE Smallest(batchSize, After(RelatedIds(req, stored)))
           attr == IF attributesFail THEN {}
                   ELSE Smallest(batchSize, After(AttributedIds(req)))
           db == Smallest(batchSize, rel \cup attr)
           all == db \cup After(ContextualIds(req))
           full == Cardinality(db) >= batchSize
<1>1. /\ pc = "read" /\ ~Optimized(req) /\ pc' = "check" /\ candidates' = all /\ more' = full
      /\ readFailed' = (readFailed \/ relationsFail \/ attributesFail)
      /\ Fixed /\ UNCHANGED <<cursor, page, listed, failed>>
  BY DEF ReadBatch, Fixed, history
<1>2. readFailed \in BOOLEAN /\ State
  BY DEF LookupInv, State, TypeOK
<1>3. readFailed' \/ Batch(all, full)
  BY <1>1, <1>2, MergedBatch
<1>4. all \subseteq After(IdsOfType(req))
  BY <1>2, RequestFacts DEF Smallest, After, State
<1>5. full \in BOOLEAN
  OBVIOUS
<1> HIDE DEF all, full
<1>6. readFailed' \/ Batch(candidates', more')
  BY <1>1, <1>3
<1> QED BY <1>1, <1>2, <1>4, <1>5, <1>6, BatchRead

LEMMA CheckCandidateInv == ASSUME LookupInv, CheckCandidate PROVE LookupInv'
<1> DEFINE first == Min(candidates)
<1> USE DEF LookupInv
<1>1. /\ pc = "check" /\ candidates # {} /\ Cardinality(page) < limit
      /\ candidates' = candidates \ {first} /\ cursor' = first
      /\ \/ /\ page' = IF Verified(req, first, stored, stored) THEN page \cup {first} ELSE page
            /\ UNCHANGED failed
         \/ failed' = failed \cup {first} /\ UNCHANGED page
      /\ Fixed /\ UNCHANGED <<pc, more, listed, readFailed>>
  BY DEF CheckCandidate, Fixed, history
<1>2. Begun'
  BY <1>1, FixedBegun DEF State
<1>3. req' = req /\ stored' = stored /\ always' = always /\ ever' = ever
  BY <1>1 DEF Fixed, history
<1>4. IdsOfType(req) \subseteq Nat /\ IsFiniteSet(IdsOfType(req))
  BY RequestFacts DEF State
<1>5. /\ candidates \subseteq IdsOfType(req) /\ page \subseteq IdsOfType(req)
      /\ listed \subseteq IdsOfType(req) /\ cursor \in Nat
  BY <1>4 DEF State, TypeOK
<1>6. first \in candidates /\ \A i \in candidates : first <= i
  BY <1>1, <1>4, <1>5, MinFacts
<1> HIDE DEF first
<1>7. cursor < first /\ first \in Nat
  BY <1>4, <1>5, <1>6 DEF Ordered
<1>8. Cardinality(page') <= limit
  <2>1. IsFiniteSet(page)
    BY <1>4, <1>5, FS_Subset
  <2>2. Cardinality(page) \in Nat /\ limit \in Nat
    BY <2>1, FS_CardinalityType, SizeFacts DEF State
  <2>3. first \notin page
    BY <1>4, <1>5, <1>7 DEF Ordered
  <2>4. Cardinality(page \cup {first}) = Cardinality(page) + 1
    BY <2>1, <2>3, FS_AddElement
  <2> QED BY <1>1, <2>2, <2>4
<1>9. TypeOK'
  <2>1. candidates' \cup page' \cup listed' \cup failed' \subseteq IdsOfType(req)
    BY <1>1, <1>5, <1>6 DEF State, TypeOK
  <2> QED BY <1>1, <1>3, <1>5, <1>6, <1>8, <2>1, FixedProposed DEF State, TypeOK
<1>10. Ordered'
  <2>1. \A i \in page' : i \in page \/ i = first
    BY <1>1
  <2>2. \A i \in page \cup listed : i <= cursor /\ i \in Nat
    BY <1>4, <1>5 DEF Ordered
  <2>3. \A i \in page', j \in listed : j < i
    BY <1>5, <1>7, <2>1, <2>2 DEF Ordered, PagesAscend
  <2>4. \A i \in page' \cup listed : i <= first
    BY <1>5, <1>7, <2>1, <2>2
  <2>5. \A i \in candidates' : first < i
    BY <1>1, <1>4, <1>5, <1>6, <1>7
  <2> QED BY <1>1, <2>3, <2>4, <2>5 DEF Ordered, PagesAscend
<1>11. Kept'
  <2> SUFFICES ASSUME ~readFailed,
                      NEW i \in Proposed, i \notin listed \cup failed' \cup page',
                      Verified(req, i, always, ever), ~ \E c \in ContextualIds(req) : c > i
               PROVE  Ahead(i)'
    BY <1>1, <1>3, FixedProposed DEF Kept
  <2>1. Ahead(i)
    BY <1>1 DEF Kept
  <2>2. i \in IdsOfType(req)
    BY RequestFacts DEF Proposed, State
  <2>3. i # first
    BY <1>1, <2>2, RequestFacts DEF State
  <2>4. CASE i \in candidates
    BY <1>1, <1>4, <1>5, <1>6, <1>7, <2>1, <2>3, <2>4 DEF Ahead
  <2>5. CASE more /\ \A j \in candidates : j < i
    BY <1>1, <1>6, <2>1, <2>5 DEF Ahead
  <2> QED BY <1>1, <2>1, <2>4, <2>5 DEF Ahead
<1> QED BY <1>2, <1>9, <1>10, <1>11 DEF State

LEMMA EndBatchInv == ASSUME LookupInv, EndBatch PROVE LookupInv'
<1> DEFINE return == FullPage \/ ~more \/ Optimized(req)
<1> USE DEF LookupInv
<1>1. /\ pc = "check" /\ candidates' = {}
      /\ listed' = IF return THEN listed \cup page ELSE listed
      /\ page' = IF return THEN {} ELSE page
      /\ pc' = IF FullPage \/ more THEN "read" ELSE "done"
      /\ Fixed /\ UNCHANGED <<cursor, more, failed, readFailed>>
  BY DEF EndBatch, Fixed, history
<1>2. candidates = {} \/ FullPage
  BY DEF EndBatch
<1>3. Begun'
  BY <1>1, FixedBegun DEF State
<1>4. req' = req /\ stored' = stored /\ always' = always /\ ever' = ever
  BY <1>1 DEF Fixed, history
<1>5. TypeOK'
  <2>1. Cardinality(page') <= limit
    BY <1>1, FS_EmptySet, SizeFacts DEF State, TypeOK
  <2> QED BY <1>1, <1>4, <2>1, FixedProposed DEF State, TypeOK
<1>6. Ordered'
  BY <1>1 DEF Ordered, PagesAscend
<1>7. Kept'
  <2> SUFFICES ASSUME ~readFailed,
                      NEW i \in Proposed, i \notin listed' \cup failed \cup page',
                      Verified(req, i, always, ever), ~ \E c \in ContextualIds(req) : c > i
               PROVE  Ahead(i)'
    BY <1>1, <1>4, FixedProposed DEF Kept
  <2>1. Ahead(i)
    BY <1>1 DEF Kept
  <2>2. FullPage \/ more
    BY <1>1, <1>2, <2>1 DEF Ahead
  <2> QED BY <1>1, <2>1, <2>2 DEF Ahead
<1> QED BY <1>3, <1>5, <1>6, <1>7 DEF State

\* What is stored all the time becomes less, and what may be stored more: less is
\* proposed, and fewer candidates are allowed throughout.
LEMMA CommitOtherInv ==
    ASSUME LookupInv, NEW t \in Volatile, CommitOther(t)
    PROVE  LookupInv'
<1> USE DEF LookupInv
<1>1. PICK s, V : Origin(s, V)
  BY DEF State, Begun
<1>2. /\ s \in Scenario /\ req = s.req /\ V \in SUBSET Volatile /\ IsFiniteSet(V)
      /\ Cardinality(V) <= MaxCommits /\ always = s.stored \ V /\ ever = s.stored \cup V
      /\ always \subseteq stored /\ stored \subseteq ever
  BY <1>1 DEF Origin
<1>3. /\ pc # "done" /\ Cardinality(ever \ always) < MaxCommits /\ t \notin ever \ always
      /\ stored' = IF t \in stored THEN stored \ {t} ELSE stored \cup {t}
      /\ ever' = ever \cup {t} /\ always' = always \ {t}
      /\ UNCHANGED <<req, pc, cursor, candidates, more, page, listed, failed, readFailed>>
  BY DEF CommitOther
<1> DEFINE W == V \cup {t}
<1>4. Origin(s, W)'
  <2>1. ever \ always = V
    BY <1>2
  <2>2. IsFiniteSet(W) /\ Cardinality(W) = Cardinality(V) + 1 /\ Cardinality(V) \in Nat
    BY <1>2, <1>3, <2>1, FS_AddElement, FS_CardinalityType
  <2>3. Cardinality(W) <= MaxCommits
    <3>1. Cardinality(V) < MaxCommits
      BY <1>3, <2>1
    <3> HIDE DEF W
    <3> QED BY <2>2, <3>1, LookupAssumption DEF LookupAssumption
  <2>4. always' = s.stored \ W /\ ever' = s.stored \cup W
    BY <1>2, <1>3
  <2>5. always' \subseteq stored' /\ stored' \subseteq ever'
    BY <1>2, <1>3
  <2> QED BY <1>2, <1>3, <2>2, <2>3, <2>4, <2>5 DEF Origin
<1>5. Begun'
  BY <1>4 DEF Begun
<1>6. TypeOK'
  <2>1. stored' \subseteq Tuple
    BY <1>3, LookupAssumption DEF State, TypeOK, LookupAssumption
  <2>2. limit' = limit
    BY <1>3 DEF limit
  <2> QED BY <1>2, <1>3, <2>1, <2>2 DEF State, TypeOK
<1>7. Ordered'
  BY <1>3 DEF Ordered, PagesAscend
<1>8. /\ always \in Tables(s) /\ always' \in Tables(s)
      /\ ever \in Tables(s) /\ ever' \in Tables(s)
  <2>1. always \in Tables(s) /\ ever \in Tables(s)
    BY <1>2, InTables
  <2>2. /\ Cardinality(W) <= MaxCommits
        /\ s.stored \ W = always' /\ s.stored \cup W = ever'
    BY <1>4 DEF Origin
  <2>3. always' \in Tables(s) /\ ever' \in Tables(s)
    BY <1>2, <2>2, InTables
  <2> QED BY <2>1, <2>3
<1>9. Proposed' \subseteq Proposed /\ Proposed \subseteq IdsOfType(req)
  <2>1. always' \subseteq always
    BY <1>3
  <2>2. /\ QueriedIds(req, always') \subseteq QueriedIds(req, always)
        /\ RelatedIds(req, always') \subseteq RelatedIds(req, always)
    <3>1. \A T, U \in Tables(s) :
             T \subseteq U =>
                 /\ QueriedIds(req, T) \subseteq QueriedIds(req, U)
                 /\ RelatedIds(req, T) \subseteq RelatedIds(req, U)
      BY <1>2, QueriesAssumption DEF QueriesAssumption
    <3> QED BY <1>8, <2>1, <3>1
  <2>3. /\ QueriedIds(req, always) \cup RelatedIds(req, always) \subseteq IdsOfType(req)
        /\ AttributedIds(req) \cup ContextualIds(req) \subseteq IdsOfType(req)
    BY <1>2, <1>8, QueriesAssumption DEF QueriesAssumption
  <2> QED BY <1>3, <2>2, <2>3 DEF Proposed
<1>10. \A i \in IdsOfType(req) :
          Verified(req, i, always', ever') => Verified(req, i, always, ever)
  <2>1. always' \subseteq always /\ always \subseteq ever /\ ever \subseteq ever'
    BY <1>2, <1>3
  <2> QED BY <1>2, <1>8, <2>1, QueriesAssumption DEF QueriesAssumption
<1>11. Kept'
  BY <1>3, <1>9, <1>10 DEF Kept, Ahead
<1> QED BY <1>5, <1>6, <1>7, <1>11 DEF State

-----------------------------------------------------------------------------
LEMMA StepInv == LookupInv /\ [Next]_vars => LookupInv'
<1> SUFFICES ASSUME LookupInv, [Next]_vars PROVE LookupInv'
  OBVIOUS
<1>1. CASE ReadAccessible
  BY <1>1, ReadAccessibleInv
<1>2. CASE \E r, a \in BOOLEAN : ReadBatch(r, a)
  BY <1>2, ReadBatchInv
<1>3. CASE CheckCandidate
  BY <1>3, CheckCandidateInv
<1>4. CASE EndBatch
  BY <1>4, EndBatchInv
<1>5. CASE \E t \in Volatile : CommitOther(t)
  BY <1>5, CommitOtherInv
<1>6. CASE UNCHANGED vars
  BY <1>6 DEF vars, history, LookupInv, State, TypeOK, Begun, Origin, Ordered, PagesAscend, Kept,
              Ahead, Proposed, limit
<1> QED BY <1>1, <1>2, <1>3, <1>4, <1>5, <1>6 DEF Next, ListStep, ReadFails

LEMMA LookupInvariant == Spec => []LookupInv
<1>1. Init => LookupInv
  BY InitInv
<1>2. LookupInv /\ [Next]_vars => LookupInv'
  BY StepInv
<1> QED BY <1>1, <1>2, PTL DEF Spec

\* The cursor and all ids are of the listed type, a page is never longer than its
\* limit, and the histories bracket the table.
THEOREM TypeCorrect == Spec => []TypeOK
<1>1. LookupInv => TypeOK
  BY DEF LookupInv, State
<1> QED BY <1>1, LookupInvariant, PTL

\* Pages ascend and share no id, for all limits, batch sizes, queries and commits in
\* between (page_token and mergeSortedUnique in lookup.go).
THEOREM AscendingPages == Spec => []PagesAscend
<1>1. LookupInv => PagesAscend
  BY DEF LookupInv, Ordered
<1> QED BY <1>1, LookupInvariant, PTL

\* A listing that comes to its end holds all that was proposed and allowed throughout
\* and whose check did not fail, but for ids below a contextual one: neither LIMIT, nor
\* the merge of two limited queries, nor a page that fills in the middle of a batch
\* loses one.
THEOREM CompleteListing == Spec => []Complete
<1>1. LookupInv => Complete
  BY DEF LookupInv, Ordered, Kept, Ahead, Complete
<1> QED BY <1>1, LookupInvariant, PTL
===============================================================================
