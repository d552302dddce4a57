--------------------------- MODULE CheckCacheProofs ---------------------------
(***************************************************************************)
(* Type correctness of CheckCache, CoversToken when reads go to the primary *)
(* and how fresh its answers are, for every number of servers, writes and   *)
(* requests.                                                                *)
(***************************************************************************)
EXTENDS CheckCache, WellFoundedInduction, TLAPS

LessNat == {p \in Nat \X Nat : p[1] < p[2]}

\* The less-than relation of the naturals is well-founded.
LEMMA LessNatWellFounded == IsWellFoundedOn(LessNat, Nat)
BY NatLessThanWellFounded DEF OpToRel, LessNat

\* A set of naturals with an upper bound has a greatest member.
LEMMA GreatestNatural ==
    ASSUME NEW S \in SUBSET Nat, S # {}, NEW n \in Nat, \A i \in S : i <= n
    PROVE  \E i \in S : \A j \in S : j <= i
<1> DEFINE T == {n - i : i \in S}
<1>1. T \subseteq Nat /\ T # {}
  <2>1. \A i \in S : n - i \in Nat
    OBVIOUS
  <2>2. T # {}
    OBVIOUS
  <2> QED BY <2>1, <2>2
<1>2. \E x \in T : \A y \in T : ~ (<<y, x>> \in LessNat)
  <2> HIDE DEF T
  <2> QED BY <1>1, LessNatWellFounded, WFMin
<1>3. PICK i \in S : \A y \in T : ~ (<<y, n - i>> \in LessNat)
  BY <1>2
<1>4. ASSUME NEW j \in S PROVE j <= i
  <2>1. n - j \in T /\ n - j \in Nat /\ n - i \in Nat
    OBVIOUS
  <2>2. ~ (<<n - j, n - i>> \in LessNat)
    BY <1>3, <2>1
  <2>3. ~ (n - j < n - i)
    BY <2>1, <2>2 DEF LessNat
  <2> QED BY <2>3
<1> QED BY <1>4

\* fetchLatestToken finds an id that is visible.
LEMMA LatestIdVisible ==
    ASSUME VisibleIds \subseteq Nat, NEW n \in Nat, \A i \in VisibleIds : i <= n
    PROVE  LatestId \in VisibleIds
<1>1. VisibleIds # {}
  BY DEF VisibleIds
<1>2. \E i \in VisibleIds : \A j \in VisibleIds : j <= i
  BY <1>1, GreatestNatural
<1> QED BY <1>2 DEF LatestId

-----------------------------------------------------------------------------
\* What the steps of a run do to the ids and positions of the writes.
Grows ==
    /\ commits' \in Nat /\ commits <= commits'
    /\ nextId' \in Nat /\ nextId <= nextId'
    /\ \A t \in Tx : id'[t] = id[t] \/ (id[t] = 0 /\ id'[t] = nextId)
    /\ \A t \in Tx : pos'[t] = pos[t] \/ pos[t] = 0

\* The ids are distinct, positions lie within the log, and only committed writes
\* are announced.
IdsOK ==
    /\ BaseId < nextId
    /\ \A t \in Tx : id[t] < nextId
    /\ \A t \in Tx : status[t] = "idle" => id[t] = 0
    /\ \A t \in Tx : pos[t] <= commits
    /\ \A t \in Tx : status[t] = "open" => pos[t] = 0
    /\ \A t \in Tx : status[t] = "idle" => pos[t] = 0
    /\ \A t \in Tx : status[t] \in {"committed", "recorded", "answered"} => pos[t] > 0
    /\ \A t, u \in Tx : t # u /\ id[t] = id[u] => id[t] = 0
    /\ \A t \in Tx : id[t] # 0 => id[t] > BaseId

QueueOK == \A s \in Server : \A j \in 1..Len(queue[s]) : pos[queue[s][j]] > 0

LogInv == LogTypeOK /\ IdsOK /\ QueueOK

\* The elements of a queue after its head was taken.
LEMMA TailElements ==
    ASSUME NEW q \in Seq(Tx), Len(q) >= 1, NEW j \in 1..Len(Tail(q))
    PROVE  j + 1 \in 1..Len(q) /\ Tail(q)[j] = q[j + 1]
<1>1. Len(Tail(q)) = Len(q) - 1
  OBVIOUS
<1> QED BY <1>1

\* A write step keeps the log in order.
LEMMA WriteStepLog ==
    ASSUME LogInv, NEW t \in Tx, WriteStep(t)
    PROVE  LogInv' /\ Grows
<1> USE LogAssumption DEF LogInv, Grows
<1>1. CASE WriteRow(t)
  <2>1. LogTypeOK'
    BY <1>1 DEF WriteRow, LogTypeOK, Status
  <2>2. IdsOK'
    BY <1>1 DEF WriteRow, LogTypeOK, IdsOK
  <2>3. QueueOK'
    BY <1>1 DEF WriteRow, QueueOK
  <2>4. Grows
    BY <1>1 DEF WriteRow, LogTypeOK, IdsOK
  <2> QED BY <2>1, <2>2, <2>3, <2>4
<1>2. CASE CommitWrite(t)
  <2>1. LogTypeOK'
    BY <1>2 DEF CommitWrite, LogTypeOK, Status
  <2>2. IdsOK'
    <3>1. /\ \A u \in Tx : status'[u] = IF u = t THEN "committed" ELSE status[u]
          /\ \A u \in Tx : pos'[u] = IF u = t THEN commits + 1 ELSE pos[u]
          /\ commits' = commits + 1 /\ nextId' = nextId /\ id' = id
          /\ \A u \in Tx : pos[u] \in Nat
          /\ commits \in Nat
      BY <1>2 DEF CommitWrite, LogTypeOK
    <3>2. \A u \in Tx : pos'[u] <= commits'
      BY <3>1 DEF IdsOK
    <3>3. \A u \in Tx : status'[u] \in {"idle", "open"} => pos'[u] = 0 /\ u # t
      BY <3>1 DEF IdsOK
    <3>4. \A u \in Tx : status'[u] \in {"committed", "recorded", "answered"} => pos'[u] > 0
      BY <3>1 DEF IdsOK
    <3> QED BY <1>2, <3>1, <3>2, <3>3, <3>4 DEF IdsOK, CommitWrite
  <2>3. QueueOK'
    <3> SUFFICES ASSUME NEW s \in Server, NEW j \in 1..Len(queue'[s])
                 PROVE  pos'[queue'[s][j]] > 0
      BY DEF QueueOK
    <3>1. queue[s] \in Seq(Tx) /\ queue'[s] = Append(queue[s], t)
      BY <1>2 DEF CommitWrite, LogTypeOK
    <3>2. CASE j = Len(queue[s]) + 1
      BY <1>2, <3>1, <3>2 DEF CommitWrite, LogTypeOK
    <3>3. CASE j # Len(queue[s]) + 1
      <4>1. j \in 1..Len(queue[s]) /\ queue'[s][j] = queue[s][j] /\ queue[s][j] \in Tx
        BY <3>1, <3>3
      <4>2. pos[queue[s][j]] > 0
        BY <4>1 DEF QueueOK
      <4> QED BY <1>2, <4>1, <4>2 DEF CommitWrite, LogTypeOK
    <3> QED BY <3>2, <3>3
  <2>4. Grows
    BY <1>2 DEF CommitWrite, LogTypeOK, IdsOK
  <2> QED BY <2>1, <2>2, <2>3, <2>4
<1>3. CASE AbortWrite(t)
  <2>1. LogTypeOK'
    BY <1>3 DEF AbortWrite, LogTypeOK, Status
  <2>2. IdsOK'
    BY <1>3 DEF AbortWrite, LogTypeOK, IdsOK
  <2> QED BY <1>3, <2>1, <2>2 DEF AbortWrite, QueueOK, LogTypeOK
<1>4. CASE RecordWrite(t)
  <2>1. LogTypeOK'
    BY <1>4 DEF RecordWrite, LogTypeOK, Status
  <2>2. IdsOK'
    BY <1>4 DEF RecordWrite, LogTypeOK, IdsOK
  <2> QED BY <1>4, <2>1, <2>2 DEF RecordWrite, QueueOK, LogTypeOK
<1>5. CASE AnswerWrite(t)
  <2>1. LogTypeOK'
    BY <1>5 DEF AnswerWrite, LogTypeOK, Status
  <2>2. IdsOK'
    BY <1>5 DEF AnswerWrite, LogTypeOK, IdsOK
  <2> QED BY <1>5, <2>1, <2>2 DEF AnswerWrite, QueueOK, LogTypeOK
<1> QED BY <1>1, <1>2, <1>3, <1>4, <1>5 DEF WriteStep

\* The steps that change no write keep the log in order as long as they keep the
\* types and announce nothing new.
LEMMA QuietLog ==
    ASSUME LogInv, LogTypeOK', QueueOK',
           UNCHANGED <<status, id, pos, nextId, commits>>
    PROVE  LogInv' /\ Grows
BY DEF LogInv, IdsOK, Grows, LogTypeOK

\* fetchLatestToken returns the id of a committed write or the id at the start.
LEMMA LatestIdCommitted ==
    ASSUME LogInv
    PROVE  /\ LatestId \in Nat
           /\ LatestId = BaseId \/ \E t \in Tx : pos[t] > 0 /\ LatestId = id[t]
<1>1. VisibleIds \subseteq Nat
  BY LogAssumption DEF VisibleIds, LogInv, LogTypeOK
<1>2. \A i \in VisibleIds : i <= nextId
  BY LogAssumption DEF VisibleIds, LogInv, LogTypeOK, IdsOK
<1>3. LatestId \in VisibleIds
  BY <1>1, <1>2, LatestIdVisible DEF LogInv, LogTypeOK
<1> QED BY <1>1, <1>3 DEF VisibleIds

\* The helpers of the cache keep it well formed.
LEMMA CacheType ==
    ASSUME NEW C, IsCache(C), NEW k
    PROVE  /\ IsCache(Drop(C, k))
           /\ \A e \in [seen : Nat, expires : Nat] : k \in Key => IsCache(Put(C, k, e))
BY DEF IsCache, Drop, Put

\* ReadState is a state of the database.
LEMMA ReadStateType ==
    ASSUME LogTypeOK, NEW s
    PROVE  /\ ReadState(s) \in Nat
           /\ ReadState(s) <= commits
           /\ ~Replicated => ReadState(s) = commits
BY DEF LogTypeOK, ReadState

\* An idle request may be replaced by a well-formed one.
LEMMA GotoType ==
    ASSUME req \in [Check -> Request], NEW c \in Check, NEW r \in Request, Goto(c, r)
    PROVE  /\ req' \in [Check -> Request]
           /\ req'[c] = r
           /\ \A d \in Check : d # c => req'[d] = req[d]
BY DEF Goto

\* The empty request, and what the actions make of a request.
LEMMA RequestType ==
    /\ NoRequest \in Request
    /\ \A r \in Request, k \in Key : LookUp(r, k) \in Request
    /\ now \in Nat => \A r \in Request : Evaluate(r) \in Request
    /\ \A r \in Request : r.key[2] \in Nat
<1>1. 0 \in 0..MaxReads /\ NoKey[2] = 0
  BY CacheAssumption DEF NoKey
<1>2. NoRequest \in Request
  BY <1>1 DEF NoRequest, Request
<1>3. \A r \in Request, k \in Key : LookUp(r, k) \in Request
  BY DEF LookUp, Request
<1>4. now \in Nat => \A r \in Request : Evaluate(r) \in Request
  BY DEF Evaluate, Request
<1>5. \A r \in Request : r.key[2] \in Nat
  <2>1. ASSUME NEW r \in Request PROVE r.key \in Key \cup {NoKey}
    BY DEF Request
  <2>2. \A k \in Key : k[2] \in Nat
    BY DEF Key
  <2> QED BY <1>1, <2>1, <2>2
<1> QED BY <1>2, <1>3, <1>4, <1>5

-----------------------------------------------------------------------------
\* No write that is still open, or that is still to come, has the id i.
Settled(i) == i < nextId /\ \A t \in Tx : i # 0 /\ id[t] = i => pos[t] > 0

\* Every token in use names a write that has committed, and a request that has
\* begun runs on a server.
TokensOK ==
    /\ \A s \in Server : Settled(token[s])
    /\ \A c \in Check : Settled(req[c].key[2])
    /\ \A c \in Check : req[c].pc = "idle" \/ req[c].server \in Server
    /\ \A s \in Server : \A k \in DOMAIN cache[s] : Settled(k[2])

\* What a request that has read something holds covers its key.
Answering(c) == At(c, "done") \/ (At(c, "eval") /\ req[c].reads > 0)

AnswersOK ==
    /\ \A s \in Server : \A k \in DOMAIN cache[s] : Covers(k, cache[s][k].seen)
    /\ \A c \in Check : Answering(c) => Covers(req[c].key, req[c].seen)
    /\ \A c \in Check : req[c].pc \in {"idle", "fetch", "store", "get"} => req[c].reads = 0

IInv ==
    /\ TypeOK
    /\ IdsOK
    /\ QueueOK
    /\ TokensOK
    /\ ~Replicated => AnswersOK

\* Settled ids stay settled, and what covers a settled key keeps covering it.
LEMMA SettledStays ==
    ASSUME LogTypeOK, Grows
    PROVE  /\ \A i \in Nat : Settled(i) =>
                 i < nextId' /\ \A t \in Tx : i # 0 /\ id'[t] = i => pos'[t] > 0
           /\ \A k, n : k[2] \in Nat /\ Settled(k[2]) /\ Covers(k, n) =>
                 \A t \in Tx : id'[t] # 0 /\ k[2] = id'[t] => pos'[t] > 0 /\ pos'[t] <= n
<1>1. \A i \in Nat : Settled(i) =>
         i < nextId' /\ \A t \in Tx : i # 0 /\ id'[t] = i => pos'[t] = pos[t] /\ pos[t] > 0 /\ id[t] = i
  BY DEF LogTypeOK, Grows, Settled
<1>2. ASSUME NEW k, NEW n, k[2] \in Nat, Settled(k[2]), Covers(k, n), NEW t \in Tx,
             id'[t] # 0, k[2] = id'[t]
      PROVE  pos'[t] > 0 /\ pos'[t] <= n
  BY <1>1, <1>2 DEF Covers, Promises
<1> QED BY <1>1, <1>2

\* A step that leaves tokens, caches and requests alone keeps the invariants.
LEMMA KeepTokens ==
    ASSUME TypeOK, Grows, UNCHANGED <<token, cache, req>>
    PROVE  /\ TokensOK => TokensOK'
           /\ TokensOK /\ AnswersOK => AnswersOK'
<1>1. /\ LogTypeOK
      /\ \A s \in Server : token[s] \in Nat
      /\ \A c \in Check : req[c].key[2] \in Nat
      /\ \A s \in Server : \A k \in DOMAIN cache[s] : k[2] \in Nat
  BY RequestType DEF TypeOK, IsCache, Key
<1>2. TokensOK => TokensOK'
  BY <1>1, SettledStays DEF TokensOK, Settled
<1>3. ASSUME TokensOK, AnswersOK PROVE AnswersOK'
  <2>1. ASSUME NEW s \in Server, NEW k \in DOMAIN cache[s] PROVE Covers(k, cache[s][k].seen)'
    BY <1>1, <1>3, SettledStays DEF TokensOK, AnswersOK, Covers, Promises
  <2>2. ASSUME NEW c \in Check, Answering(c) PROVE Covers(req[c].key, req[c].seen)'
    BY <1>1, <1>3, <2>2, SettledStays DEF TokensOK, AnswersOK, Covers, Promises
  <2> QED BY <1>3, <2>1, <2>2 DEF AnswersOK, Answering, At
<1> QED BY <1>2, <1>3

-----------------------------------------------------------------------------
\* The invariant holds when the servers start.
LEMMA InitIInv == Init => IInv
<1> SUFFICES ASSUME Init PROVE IInv
  OBVIOUS
<1> USE LogAssumption, CacheAssumption DEF Init, LogInit, CacheInit
<1>1. LogTypeOK
  <2>1. tracked \in [Tx -> BOOLEAN]
    BY DEF LogInit
  <2> QED BY <2>1 DEF LogTypeOK, Status
<1>2. TypeOK
  <2>1. \A s \in Server : IsCache(cache[s])
    BY DEF IsCache
  <2>2. req \in [Check -> Request]
    BY RequestType
  <2> QED BY <1>1, <2>1, <2>2 DEF TypeOK
<1>3. IdsOK
  BY DEF IdsOK
<1>4. QueueOK
  BY DEF QueueOK
<1>5. TokensOK
  <2>1. nextId = BaseId + 1 /\ BaseId \in Nat /\ \A t \in Tx : id[t] = 0
    OBVIOUS
  <2>2. Settled(BaseId) /\ Settled(0)
    BY <2>1 DEF Settled
  <2>3. \A c \in Check : req[c].key[2] = 0 /\ req[c].pc = "idle"
    BY DEF NoRequest, NoKey
  <2> QED BY <2>2, <2>3 DEF TokensOK
<1>6. AnswersOK
  BY DEF AnswersOK, Answering, At, NoRequest
<1> QED BY <1>2, <1>3, <1>4, <1>5, <1>6 DEF IInv

\* The steps of the log alone.
LEMMA LogStepIInv ==
    ASSUME IInv, LogStep, UNCHANGED cacheVars
    PROVE  IInv'
<1> USE DEF cacheVars
<1>1. LogInv
  BY DEF IInv, TypeOK, LogInv
<1>2. LogInv' /\ Grows
  <2>1. CASE \E t \in Tx : WriteStep(t)
    BY <1>1, <2>1, WriteStepLog
  <2>2. CASE ReplicaApply
    BY <1>1, <2>2, QuietLog DEF ReplicaApply, LogInv, LogTypeOK, QueueOK
  <2>3. ASSUME NEW s \in Server, LoseNotifications(s) PROVE LogInv' /\ Grows
    <3>1. QueueOK'
      <4>1. \A r \in Server : queue'[r] = IF r = s THEN <<>> ELSE queue[r]
        BY <1>1, <2>3 DEF LoseNotifications, LogInv, LogTypeOK
      <4>2. Len(<<>>) = 0
        OBVIOUS
      <4>3. \A r \in Server : \A j \in 1..Len(queue'[r]) : r # s
        BY <4>1, <4>2
      <4> QED BY <1>1, <2>3, <4>1, <4>3 DEF LoseNotifications, LogInv, QueueOK
    <3>2. LogTypeOK'
      BY <1>1, <2>3 DEF LoseNotifications, LogInv, LogTypeOK
    <3> QED BY <1>1, <2>3, <3>1, <3>2, QuietLog DEF LoseNotifications
  <2>4. ASSUME NEW s \in Server, Cleanup(s) PROVE LogInv' /\ Grows
    <3>1. QueueOK'
      BY <1>1, <2>4 DEF Cleanup, LogInv, QueueOK
    <3>2. LogTypeOK'
      BY <1>1, <2>4 DEF Cleanup, LogInv, LogTypeOK
    <3> QED BY <1>1, <2>4, <3>1, <3>2, QuietLog DEF Cleanup
  <2> QED BY <2>1, <2>2, <2>3, <2>4 DEF LogStep
<1>3. TypeOK'
  BY <1>2 DEF IInv, TypeOK, LogInv
<1>4. TokensOK' /\ (~Replicated => AnswersOK')
  BY <1>2, KeepTokens DEF IInv
<1> QED BY <1>2, <1>3, <1>4 DEF IInv, LogInv

\* Time changes nothing the invariant speaks of but the clock.
LEMMA TickIInv ==
    ASSUME IInv, Tick
    PROVE  IInv'
<1> USE DEF cacheVars, Tick, LogTick
<1>1. LogInv
  BY DEF IInv, TypeOK, LogInv
<1>2. LogTypeOK' /\ QueueOK'
  BY <1>1 DEF LogInv, LogTypeOK, QueueOK
<1>3. LogInv' /\ Grows
  BY <1>1, <1>2, QuietLog
<1>4. TypeOK'
  BY <1>3 DEF IInv, TypeOK, LogInv
<1>5. TokensOK' /\ (~Replicated => AnswersOK')
  BY <1>3, KeepTokens DEF IInv
<1> QED BY <1>3, <1>4, <1>5 DEF IInv, LogInv

\* A notification installs the id of a committed write.
LEMMA NotificationIInv ==
    ASSUME IInv, NEW s \in Server, HandleNotification(s)
    PROVE  IInv'
<1> USE DEF HandleNotification
<1>1. LogInv
  BY DEF IInv, TypeOK, LogInv
<1> DEFINE t == Head(queue[s])
<1>2. /\ queue[s] \in Seq(Tx) /\ Len(queue[s]) >= 1
      /\ t = queue[s][1] /\ t \in Tx
      /\ Tail(queue[s]) \in Seq(Tx)
  BY <1>1 DEF LogInv, LogTypeOK
<1>3. pos[t] > 0 /\ id[t] \in Nat /\ pos[t] \in Nat /\ id[t] < nextId
  BY <1>1, <1>2 DEF LogInv, QueueOK, LogTypeOK, IdsOK
<1> HIDE DEF t
<1>4. LogTypeOK'
  BY <1>1, <1>2 DEF LogInv, LogTypeOK
<1>5. QueueOK'
  <2> SUFFICES ASSUME NEW r \in Server, NEW j \in 1..Len(queue'[r])
               PROVE  pos[queue'[r][j]] > 0
    BY DEF QueueOK
  <2>1. CASE r # s
    BY <1>1, <2>1 DEF LogInv, LogTypeOK, QueueOK
  <2>2. CASE r = s
    <3>1. queue'[r] = Tail(queue[s])
      BY <1>1, <2>2 DEF LogInv, LogTypeOK
    <3>2. j + 1 \in 1..Len(queue[s]) /\ queue'[r][j] = queue[s][j + 1]
      BY <1>2, <3>1, TailElements
    <3> QED BY <1>1, <3>2 DEF LogInv, QueueOK
  <2> QED BY <2>1, <2>2
<1>6. LogInv' /\ Grows
  BY <1>1, <1>4, <1>5, QuietLog
<1>7. TypeOK'
  BY <1>3, <1>4 DEF IInv, TypeOK, LogTypeOK, t
<1>8. Settled(id[t])
  BY <1>1, <1>2, <1>3 DEF Settled, LogInv, IdsOK
<1>9. TokensOK'
  BY <1>8 DEF IInv, TokensOK, Settled, TypeOK, t
<1>10. ~Replicated => AnswersOK'
  BY DEF IInv, AnswersOK, Answering, At, Covers, Promises
<1> QED BY <1>6, <1>7, <1>9, <1>10 DEF IInv, LogInv

-----------------------------------------------------------------------------
\* What a request may be replaced by.
Sound(r) ==
    /\ r.pc = "done" \/ (r.pc = "eval" /\ r.reads > 0) => Covers(r.key, r.seen)
    /\ r.pc \in {"idle", "fetch", "store", "get"} => r.reads = 0

\* What a cache may be replaced by.
SoundCache(C) ==
    /\ IsCache(C)
    /\ \A k \in DOMAIN C : Settled(k[2])
    /\ ~Replicated => \A k \in DOMAIN C : Covers(k, C[k].seen)

\* A step of a request keeps the invariant if what it stores is settled and
\* sound.
LEMMA RequestKeeps ==
    ASSUME IInv, UNCHANGED <<logVars, restarts>>, processed' \in [Server -> Nat],
           NEW c \in Check, NEW r \in Request, Goto(c, r),
           r.server \in Server, Settled(r.key[2]), ~Replicated => Sound(r),
           token' \in [Server -> Nat], \A s \in Server : Settled(token'[s]),
           lastRefresh' \in [Server -> Nat],
           DOMAIN cache' = Server, \A s \in Server : SoundCache(cache'[s])
    PROVE  IInv'
<1> USE DEF logVars
<1>1. LogTypeOK'
  BY DEF IInv, TypeOK, LogTypeOK
<1>2. /\ req' \in [Check -> Request]
      /\ req'[c] = r
      /\ \A d \in Check : d # c => req'[d] = req[d]
  BY GotoType DEF IInv, TypeOK
<1>3. TypeOK'
  <2>1. \A s \in Server : IsCache(cache'[s])
    BY DEF SoundCache
  <2> QED BY <1>1, <1>2, <2>1 DEF IInv, TypeOK, IsCache
<1>4. IdsOK' /\ QueueOK'
  BY DEF IInv, IdsOK, QueueOK
<1>5. TokensOK'
  <2>1. \A d \in Check : /\ Settled(req'[d].key[2])
                         /\ req'[d].pc = "idle" \/ req'[d].server \in Server
    BY <1>2 DEF IInv, TokensOK
  <2> QED BY <2>1 DEF TokensOK, Settled, SoundCache
<1>6. ASSUME ~Replicated PROVE AnswersOK'
  <2>1. \A d \in Check : Sound(req'[d])
    BY <1>2, <1>6 DEF IInv, AnswersOK, Answering, At, Sound
  <2>2. \A s \in Server : \A k \in DOMAIN cache'[s] : Covers(k, cache'[s][k].seen)
    BY <1>6 DEF SoundCache
  <2> QED BY <2>1, <2>2 DEF AnswersOK, Answering, At, Sound, Covers, Promises
<1> QED BY <1>3, <1>4, <1>5, <1>6 DEF IInv

\* What the invariant says of the caches and the tokens as they are.
LEMMA Current ==
    ASSUME IInv
    PROVE  /\ token \in [Server -> Nat] /\ \A s \in Server : Settled(token[s])
           /\ lastRefresh \in [Server -> Nat] /\ processed \in [Server -> Nat]
           /\ DOMAIN cache = Server /\ \A s \in Server : SoundCache(cache[s])
           /\ \A c \in Check : req[c] \in Request /\ Settled(req[c].key[2])
           /\ \A c \in Check : req[c].pc = "idle" \/ req[c].server \in Server
           /\ ~Replicated => \A c \in Check : Sound(req[c])
BY DEF IInv, TypeOK, TokensOK, AnswersOK, Answering, At, Sound, SoundCache

\* Removing an entry keeps a cache sound.
LEMMA DropSound ==
    ASSUME NEW C, SoundCache(C), NEW k
    PROVE  SoundCache(Drop(C, k))
BY CacheType DEF SoundCache, Drop

\* A request takes the current token, which no open write can have.
LEMMA BeginCheckIInv ==
    ASSUME IInv, NEW c \in Check, NEW s \in Server, BeginCheck(c, s)
    PROVE  IInv'
<1> DEFINE r == [NoRequest EXCEPT !.server = s]
           p == [r EXCEPT !.floor = processed[s]]
<1>1. r \in Request /\ r.reads = 0 /\ r.key = NoKey /\ r.pc = "idle"
      /\ r.server = s
  BY RequestType DEF IInv, TypeOK, NoRequest, Request
<1>5. p \in Request /\ p.reads = 0 /\ p.server = s
  BY <1>1, Current DEF Request
<1>2. Settled(0) /\ NoKey[2] = 0
  BY DEF IInv, TypeOK, LogTypeOK, Settled, NoKey
<1> HIDE DEF r, p
<1>3. CASE Goto(c, [r EXCEPT !.pc = "fetch"])
  <2> DEFINE f == [r EXCEPT !.pc = "fetch"]
  <2>1. f \in Request /\ f.key = NoKey /\ f.reads = 0 /\ f.pc = "fetch" /\ f.server = s
    BY <1>1 DEF Request
  <2>2. Sound(f)
    BY <2>1 DEF Sound
  <2> HIDE DEF f
  <2> QED BY <1>2, <2>1, <2>2, <1>3, Current, RequestKeeps DEF BeginCheck, f
<1>4. CASE Goto(c, LookUp(p, <<"manager", token[s]>>))
  <2> DEFINE k == <<"manager", token[s]>>
             g == LookUp(p, k)
  <2>1. k \in Key /\ k[2] = token[s]
    BY Current DEF Key
  <2> HIDE DEF k
  <2>2. g \in Request
    BY <1>5, <2>1, RequestType
  <2>3. g.key = k /\ g.reads = 0 /\ g.pc = "get" /\ g.server = s
    BY <1>5 DEF LookUp, Request
  <2>4. Sound(g)
    BY <2>3 DEF Sound
  <2>5. Settled(g.key[2])
    BY <2>1, <2>3, Current
  <2>6. Goto(c, g)
    BY <1>4 DEF k
  <2> HIDE DEF g
  <2> QED BY <2>2, <2>4, <2>5, <2>3, <2>6, Current, RequestKeeps DEF BeginCheck
<1> QED BY <1>3, <1>4 DEF BeginCheck, r, p

\* A token a client sends names a write that was answered, so it is committed.
LEMMA BeginClientCheckIInv ==
    ASSUME IInv, NEW c \in Check, NEW s \in Server, NEW t \in Tx, BeginClientCheck(c, s, t)
    PROVE  IInv'
<1> DEFINE r == [NoRequest EXCEPT !.server = s]
           k == <<"client", id[t]>>
           g == LookUp(r, k)
<1>1. r \in Request /\ r.reads = 0 /\ r.server = s
  BY RequestType DEF NoRequest, Request
<1>2. k \in Key /\ k[2] = id[t] /\ id[t] \in Nat
  BY DEF IInv, TypeOK, LogTypeOK, Key
<1>3. Settled(id[t])
  BY DEF BeginClientCheck, IInv, TypeOK, LogTypeOK, IdsOK, Settled
<1>4. Goto(c, g)
  BY DEF BeginClientCheck
<1> HIDE DEF r, k
<1>5. g \in Request /\ g.key = k /\ g.reads = 0 /\ g.pc = "get" /\ g.server = s
  BY <1>1, <1>2, RequestType DEF LookUp, Request
<1>6. Sound(g)
  BY <1>5 DEF Sound
<1> HIDE DEF g
<1> QED BY <1>2, <1>3, <1>4, <1>5, <1>6, Current, RequestKeeps DEF BeginClientCheck

\* What fetchLatestToken returns is settled.
LEMMA LatestIdSettled ==
    ASSUME LogInv
    PROVE  Settled(LatestId)
<1>1. CASE LatestId = BaseId
  <2>1. BaseId \in Nat /\ BaseId < nextId /\ \A t \in Tx : id[t] # 0 => id[t] # BaseId
    BY LogAssumption DEF LogInv, IdsOK, LogTypeOK
  <2>2. Settled(BaseId)
    BY <2>1 DEF Settled
  <2> QED BY <1>1, <2>2
<1>2. ASSUME NEW t \in Tx, pos[t] > 0, LatestId = id[t] PROVE Settled(LatestId)
  <2>1. Settled(id[t])
    BY <1>2 DEF LogInv, IdsOK, LogTypeOK, Settled
  <2> QED BY <1>2, <2>1
<1> QED BY <1>1, <1>2, LatestIdCommitted

\* The highest visible id belongs to a commit.
LEMMA FetchLatestTokenIInv ==
    ASSUME IInv, NEW c \in Check, FetchLatestToken(c)
    PROVE  IInv'
<1> DEFINE k == <<"manager", LatestId>>
           r == [req[c] EXCEPT !.pc = "store", !.key = k]
<1>1. LogInv
  BY DEF IInv, TypeOK, LogInv
<1>2. k \in Key /\ k[2] = LatestId
  BY <1>1, LatestIdCommitted DEF Key
<1>3. Settled(LatestId)
  BY <1>1, LatestIdSettled
<1>4. req[c].pc = "fetch" /\ Goto(c, r)
  BY DEF FetchLatestToken, At
<1> HIDE DEF k
<1>5. r \in Request /\ r.key = k /\ r.pc = "store" /\ r.reads = req[c].reads
      /\ r.server \in Server
  BY <1>2, <1>4, Current DEF Request
<1> HIDE DEF r
<1>6. ~Replicated => Sound(r)
  BY <1>4, <1>5, Current DEF Sound
<1> QED BY <1>2, <1>3, <1>4, <1>5, <1>6, Current, RequestKeeps DEF FetchLatestToken

\* The fetched id becomes the token of the server.
LEMMA RefreshFromDBIInv ==
    ASSUME IInv, NEW c \in Check, RefreshFromDB(c)
    PROVE  IInv'
<1> DEFINE k == req[c].key
           s == req[c].server
           g == LookUp(req[c], k)
<1>1. req[c] \in Request /\ Settled(k[2]) /\ req[c].pc = "store" /\ k[2] \in Nat
  BY Current, RequestType DEF RefreshFromDB, At
<1>2. Goto(c, g)
  BY DEF RefreshFromDB
<1>3. now \in Nat
  BY DEF IInv, TypeOK, LogTypeOK
<1>4. /\ token' \in [Server -> Nat] /\ lastRefresh' \in [Server -> Nat]
      /\ processed' \in [Server -> Nat]
  BY <1>1, <1>3, Current DEF RefreshFromDB
<1>5. \A x \in Server : token'[x] = token[x] \/ token'[x] = k[2]
  BY Current DEF RefreshFromDB
<1>6. \A x \in Server : Settled(token'[x])
  BY <1>1, <1>5, Current
<1>7. g \in Request /\ g.key = k /\ g.reads = req[c].reads /\ g.pc = "get"
      /\ g.server \in Server
  BY <1>1, Current DEF LookUp, Request
<1> HIDE DEF k, g
<1>8. ~Replicated => Sound(g)
  BY <1>1, <1>7, Current DEF Sound
<1> QED BY <1>1, <1>2, <1>4, <1>6, <1>7, <1>8, Current, RequestKeeps DEF RefreshFromDB

\* A request that starts to evaluate has read nothing yet.
LEMMA EvaluateSound ==
    ASSUME IInv, NEW c \in Check, req[c].pc \in {"fetch", "get"}
    PROVE  /\ Evaluate(req[c]) \in Request
           /\ Evaluate(req[c]).server \in Server
           /\ Settled(Evaluate(req[c]).key[2])
           /\ ~Replicated => Sound(Evaluate(req[c]))
<1> DEFINE r == Evaluate(req[c])
<1>1. now \in Nat
  BY DEF IInv, TypeOK, LogTypeOK
<1>2. req[c] \in Request /\ Settled(req[c].key[2]) /\ (~Replicated => req[c].reads = 0)
  BY Current DEF Sound
<1>3. r \in Request /\ r.key = req[c].key /\ r.reads = req[c].reads /\ r.pc = "eval"
      /\ r.server \in Server
  BY <1>1, <1>2, Current DEF Evaluate, Request
<1> HIDE DEF r
<1>4. ~Replicated => Sound(r)
  BY <1>2, <1>3 DEF Sound
<1> QED BY <1>2, <1>3, <1>4 DEF r

\* A check without a key promises nothing.
LEMMA FetchFailsIInv ==
    ASSUME IInv, NEW c \in Check, FetchFails(c)
    PROVE  IInv'
<1> DEFINE r == Evaluate(req[c])
<1>1. req[c].pc = "fetch" /\ Goto(c, r)
  BY DEF FetchFails, At
<1>2. r \in Request /\ r.server \in Server /\ Settled(r.key[2]) /\ (~Replicated => Sound(r))
  BY <1>1, EvaluateSound
<1> HIDE DEF r
<1> QED BY <1>1, <1>2, Current, RequestKeeps DEF FetchFails

\* A hit passes on what the entry has seen.
LEMMA CacheGetIInv ==
    ASSUME IInv, NEW c \in Check, CacheGet(c)
    PROVE  IInv'
<1> DEFINE s == req[c].server
           k == req[c].key
           hit == k \in DOMAIN cache[s] /\ ~Expired(cache[s][k])
           h == [req[c] EXCEPT !.pc = "done", !.seen = cache[s][k].seen]
<1>1. req[c] \in Request /\ Settled(k[2]) /\ req[c].pc = "get"
  BY Current DEF CacheGet, At
<1>2. CASE hit
  <2>1. Goto(c, h) /\ cache' = cache
    BY <1>2 DEF CacheGet
  <2>2. CASE s \in Server
    <3>1. SoundCache(cache[s])
      BY <2>2, Current
    <3>2. cache[s][k].seen \in Nat /\ (~Replicated => Covers(k, cache[s][k].seen))
      BY <1>2, <3>1 DEF SoundCache, IsCache
    <3>3. h \in Request /\ h.key = k /\ h.pc = "done" /\ h.seen = cache[s][k].seen
          /\ h.server \in Server
      BY <1>1, <2>2, <3>2 DEF Request
    <3> HIDE DEF h, k, s
    <3>4. ~Replicated => Sound(h)
      BY <3>2, <3>3 DEF Sound
    <3> QED BY <1>1, <2>1, <3>3, <3>4, Current, RequestKeeps DEF CacheGet
  <2>3. s \in Server
    BY <1>1, Current
  <2> QED BY <2>2, <2>3
<1>3. CASE ~hit
  <2> DEFINE r == Evaluate(req[c])
  <2>1. Goto(c, r) /\ cache' = [cache EXCEPT ![s] = Drop(@, k)]
    BY <1>3 DEF CacheGet
  <2>2. r \in Request /\ r.server \in Server /\ Settled(r.key[2]) /\ (~Replicated => Sound(r))
    BY <1>1, EvaluateSound
  <2>3. DOMAIN cache' = Server
        /\ \A x \in Server : cache'[x] = cache[x] \/ cache'[x] = Drop(cache[x], k)
    BY <2>1, Current
  <2>4. \A x \in Server : SoundCache(cache'[x])
    BY <2>3, Current, DropSound
  <2> HIDE DEF r
  <2> QED BY <2>1, <2>2, <2>3, <2>4, Current, RequestKeeps DEF CacheGet
<1> QED BY <1>2, <1>3

\* A read sees every commit there is, so also the one the key names.
LEMMA ReadIInv ==
    ASSUME IInv, NEW c \in Check, Read(c)
    PROVE  IInv'
<1> DEFINE q == req[c]
           state == ReadState(q.server)
           n == IF q.reads = 0 \/ state < q.seen THEN state ELSE q.seen
           r == [q EXCEPT !.reads = @ + 1, !.seen = n]
<1>1. /\ q \in Request /\ Settled(q.key[2]) /\ q.pc = "eval" /\ q.reads < MaxReads
      /\ q.server \in Server /\ q.seen \in Nat /\ q.reads \in 0..MaxReads
  <2>1. q \in Request /\ q.pc = "eval" /\ q.reads < MaxReads
    BY Current DEF Read, At
  <2>2. q.seen \in Nat /\ q.reads \in 0..MaxReads
    BY <2>1 DEF Request
  <2> QED BY <2>1, <2>2, Current
<1>2. Goto(c, r)
  BY DEF Read
<1>3. state \in Nat /\ state <= commits /\ (~Replicated => state = commits)
  BY ReadStateType DEF IInv, TypeOK
<1>4. n \in Nat
  BY <1>1, <1>3 DEF Request
<1>5. ASSUME ~Replicated PROVE Covers(q.key, n)
  <2>1. Covers(q.key, commits)
    BY <1>1 DEF IInv, IdsOK, Settled, Covers, Promises
  <2>2. q.reads > 0 => Covers(q.key, q.seen)
    BY <1>1, <1>5, Current DEF Sound
  <2>3. n = commits \/ (q.reads > 0 /\ n = q.seen)
    <3> HIDE DEF q, state
    <3> QED BY <1>1, <1>3, <1>5, CacheAssumption
  <2> QED BY <2>1, <2>2, <2>3
<1> HIDE DEF n
<1>6. /\ r \in Request /\ r.key = q.key /\ r.pc = "eval" /\ r.seen = n
      /\ r.server \in Server
  <2>1. q.reads + 1 \in 0..MaxReads
    <3> HIDE DEF q
    <3> QED BY <1>1, CacheAssumption
  <2> QED BY <1>1, <1>4, <2>1 DEF Request
<1> HIDE DEF r
<1>7. ~Replicated => Sound(r)
  BY <1>5, <1>6 DEF Sound
<1> QED BY <1>1, <1>2, <1>6, <1>7, Current, RequestKeeps DEF Read

\* The entry keeps what the evaluation has seen, under the key it looked up.
LEMMA CacheSetIInv ==
    ASSUME IInv, NEW c \in Check, CacheSet(c)
    PROVE  IInv'
<1> DEFINE q == req[c]
           s == q.server
           e == [seen |-> q.seen, expires |-> now + CacheTTL]
           r == [q EXCEPT !.pc = "done", !.began = 0]
<1>1. /\ q \in Request /\ Settled(q.key[2]) /\ q.pc = "eval" /\ q.reads > 0
      /\ s \in Server
  BY Current DEF CacheSet, At
<1>2. Goto(c, r)
  BY DEF CacheSet
<1>3. ~Replicated => Covers(q.key, q.seen)
  BY <1>1, Current DEF Sound
<1>4. /\ r \in Request /\ r.key = q.key /\ r.pc = "done" /\ r.seen = q.seen
      /\ r.server \in Server
  BY <1>1 DEF Request
<1>5. ~Replicated => Sound(r)
  BY <1>3, <1>4 DEF Sound
<1>6. e \in [seen : Nat, expires : Nat] /\ e.seen = q.seen
  <2>1. q.seen \in Nat
    BY <1>1 DEF Request
  <2>2. now + CacheTTL \in Nat
    BY CacheAssumption DEF IInv, TypeOK, LogTypeOK
  <2> QED BY <2>1, <2>2
<1>7. DOMAIN cache' = Server
      /\ \A x \in Server : cache'[x] = cache[x] \/ (q.key # NoKey /\ cache'[x] = Put(cache[x], q.key, e))
  BY Current DEF CacheSet
<1> HIDE DEF e, r
<1>8. ASSUME NEW x \in Server, q.key # NoKey PROVE SoundCache(Put(cache[x], q.key, e))
  <2>1. q.key \in Key
    BY <1>1, <1>8 DEF Request
  <2>2. SoundCache(cache[x])
    BY Current
  <2>3. IsCache(Put(cache[x], q.key, e))
    BY <1>6, <2>1, <2>2, CacheType DEF SoundCache
  <2> QED BY <1>1, <1>3, <1>6, <2>2, <2>3 DEF SoundCache, Put
<1>9. \A x \in Server : SoundCache(cache'[x])
  BY <1>7, <1>8, Current
<1> QED BY <1>1, <1>2, <1>4, <1>5, <1>7, <1>9, Current, RequestKeeps DEF CacheSet

\* A failed request promises nothing.
LEMMA EvaluationFailsIInv ==
    ASSUME IInv, NEW c \in Check, EvaluationFails(c)
    PROVE  IInv'
<1> DEFINE r == [NoRequest EXCEPT !.pc = "failed", !.server = req[c].server]
<1>1. req[c].pc = "eval" /\ Goto(c, r)
  BY DEF EvaluationFails, At
<1>2. r \in Request /\ r.server \in Server /\ r.key = NoKey /\ r.pc = "failed"
  BY <1>1, Current, RequestType DEF NoRequest, Request
<1>3. Settled(0) /\ NoKey[2] = 0
  BY DEF IInv, TypeOK, LogTypeOK, Settled, NoKey, IdsOK
<1>4. Sound(r)
  BY <1>2 DEF Sound
<1> HIDE DEF r
<1> QED BY <1>1, <1>2, <1>3, <1>4, Current, RequestKeeps DEF EvaluationFails

\* An evicted entry promises nothing more.
LEMMA EvictIInv ==
    ASSUME IInv, NEW s \in Server, NEW k, Evict(s, k)
    PROVE  IInv'
<1> USE DEF logVars
<1>1. DOMAIN cache' = Server
      /\ \A x \in Server : cache'[x] = cache[x] \/ cache'[x] = Drop(cache[x], k)
  BY Current DEF Evict
<1>2. \A x \in Server : SoundCache(cache'[x])
  BY <1>1, Current, DropSound
<1>3. TypeOK'
  BY <1>1, <1>2 DEF IInv, TypeOK, LogTypeOK, Evict, SoundCache, IsCache
<1>4. IdsOK' /\ QueueOK'
  BY DEF IInv, IdsOK, QueueOK, Evict
<1>5. TokensOK'
  BY <1>2 DEF IInv, TokensOK, Settled, Evict, SoundCache
<1>6. ~Replicated => AnswersOK'
  BY <1>2 DEF IInv, AnswersOK, Answering, At, Covers, Promises, Evict, SoundCache
<1> QED BY <1>3, <1>4, <1>5, <1>6 DEF IInv

\* A restarted server has an empty cache and a fresh token.
LEMMA RestartIInv ==
    ASSUME IInv, NEW s \in Server, Restart(s)
    PROVE  IInv'
<1> USE DEF Restart
<1>1. LogInv
  BY DEF IInv, TypeOK, LogInv
<1>2. LogTypeOK'
  BY <1>1 DEF LogInv, LogTypeOK
<1>3. QueueOK'
  <2>1. \A r \in Server : queue'[r] = IF r = s THEN <<>> ELSE queue[r]
    BY <1>1 DEF LogInv, LogTypeOK
  <2>2. Len(<<>>) = 0
    OBVIOUS
  <2>3. \A r \in Server : \A j \in 1..Len(queue'[r]) : r # s
    BY <2>1, <2>2
  <2> QED BY <1>1, <2>1, <2>3 DEF LogInv, QueueOK
<1>4. LogInv' /\ Grows
  BY <1>1, <1>2, <1>3, QuietLog
<1>5. ASSUME NEW c \in Check
      PROVE  /\ req'[c] \in Request
             /\ req'[c] = req[c] \/ (req'[c] = [req[c] EXCEPT !.pc = "failed"] /\ req[c].server = s)
  BY Current DEF Request
<1>6. ASSUME NEW c \in Check
      PROVE  \/ req'[c] = req[c]
             \/ /\ req'[c].pc = "failed" /\ req'[c].key = req[c].key
                /\ req'[c].server \in Server
  <2> DEFINE r == [req[c] EXCEPT !.pc = "failed"]
  <2>1. req[c] \in Request
    BY Current
  <2>2. r.pc = "failed" /\ r.key = req[c].key /\ r.server = req[c].server
    BY <2>1 DEF Request
  <2> HIDE DEF r, Restart
  <2> QED BY <1>5, <2>2 DEF r
<1>7. TypeOK'
  <2>1. req' \in [Check -> Request]
    BY <1>5 DEF Restart
  <2>2. LatestId \in Nat /\ now \in Nat
    BY <1>1, LatestIdCommitted DEF LogInv, LogTypeOK
  <2>3. DOMAIN cache' = Server /\ \A x \in Server : IsCache(cache'[x])
    BY Current DEF SoundCache, IsCache
  <2>4. restarts' \in 0..MaxRestarts
    BY CacheAssumption DEF IInv, TypeOK
  <2> QED BY <1>2, <2>1, <2>2, <2>3, <2>4 DEF IInv, TypeOK
<1>8. TokensOK'
  <2>1. \A x \in Server : Settled(token'[x])
    BY <1>1, LatestIdSettled, Current
  <2>2. \A c \in Check : /\ Settled(req'[c].key[2])
                         /\ req'[c].pc = "idle" \/ req'[c].server \in Server
    BY <1>6, Current
  <2>3. \A x \in Server : \A k \in DOMAIN cache'[x] : Settled(k[2])
    BY Current DEF SoundCache
  <2> QED BY <2>1, <2>2, <2>3 DEF TokensOK, Settled
<1>9. ASSUME ~Replicated PROVE AnswersOK'
  <2>1. \A c \in Check : Sound(req'[c])
    BY <1>9, <1>6, Current DEF Sound
  <2>2. \A x \in Server : \A k \in DOMAIN cache'[x] : Covers(k, cache'[x][k].seen)
    BY <1>9, Current DEF SoundCache
  <2> QED BY <2>1, <2>2 DEF AnswersOK, Answering, At, Sound, Covers, Promises
<1> QED BY <1>4, <1>7, <1>8, <1>9 DEF IInv, LogInv

\* Every step keeps the invariant.
LEMMA NextIInv == IInv /\ [Next]_vars => IInv'
<1> SUFFICES ASSUME IInv, [Next]_vars PROVE IInv'
  OBVIOUS
<1>1. CASE LogStep /\ UNCHANGED cacheVars
  BY <1>1, LogStepIInv
<1>2. ASSUME NEW s \in Server, HandleNotification(s) \/ Restart(s) PROVE IInv'
  BY <1>2, NotificationIInv, RestartIInv
<1>3. ASSUME NEW c \in Check, CheckStep(c) PROVE IInv'
  <2>1. ASSUME NEW s \in Server, BeginCheck(c, s) PROVE IInv'
    BY <2>1, BeginCheckIInv
  <2>2. ASSUME NEW s \in Server, NEW t \in Tx, BeginClientCheck(c, s, t) PROVE IInv'
    BY <2>2, BeginClientCheckIInv
  <2>3. CASE FetchLatestToken(c) \/ RefreshFromDB(c) \/ FetchFails(c)
    BY <2>3, FetchLatestTokenIInv, RefreshFromDBIInv, FetchFailsIInv
  <2>4. CASE CacheGet(c) \/ Read(c) \/ CacheSet(c) \/ EvaluationFails(c)
    BY <2>4, CacheGetIInv, ReadIInv, CacheSetIInv, EvaluationFailsIInv
  <2> QED BY <1>3, <2>1, <2>2, <2>3, <2>4 DEF CheckStep
<1>4. ASSUME NEW s \in Server, NEW k \in DOMAIN cache[s], Evict(s, k) PROVE IInv'
  BY <1>4, EvictIInv
<1>5. CASE Tick
  BY <1>5, TickIInv
<1>6. CASE UNCHANGED vars
  <2>1. LogTypeOK'
    BY <1>6 DEF vars, logVars, IInv, TypeOK, LogTypeOK
  <2>2. TypeOK'
    BY <1>6, <2>1 DEF vars, cacheVars, IInv, TypeOK, IsCache
  <2>3. IdsOK' /\ QueueOK' /\ TokensOK'
    BY <1>6 DEF vars, logVars, cacheVars, IInv, IdsOK, QueueOK, TokensOK, Settled
  <2>4. ~Replicated => AnswersOK'
    BY <1>6 DEF vars, logVars, cacheVars, IInv, AnswersOK, Answering, At, Covers, Promises
  <2> QED BY <2>2, <2>3, <2>4 DEF IInv
<1> QED BY <1>1, <1>2, <1>3, <1>4, <1>5, <1>6 DEF Next

-----------------------------------------------------------------------------
\* The log, the tokens, the caches and the requests keep their types.
THEOREM TypeCorrect == Spec => []TypeOK
<1>1. IInv => TypeOK
  BY DEF IInv
<1> QED BY InitIInv, NextIInv, <1>1, PTL DEF Spec

\* Without a read replica no answer is cached or given under a token whose write
\* it has not seen, for any number of servers, writes and checks.
THEOREM TokensCover == ~Replicated => (Spec => []CoversToken)
<1> SUFFICES ASSUME ~Replicated PROVE Spec => []CoversToken
  OBVIOUS
<1>1. IInv => CoversToken
  BY DEF IInv, AnswersOK, CoversToken, Answering
<1> QED BY InitIInv, NextIInv, <1>1, PTL DEF Spec

-----------------------------------------------------------------------------
(***************************************************************************)
(* How fresh the answers are: what an entry or an evaluation under way has  *)
(* seen at least, by the clock (StalenessBounded), by the notification that *)
(* set the token (ServesNotified) and by the client's own write             *)
(* (ReadYourWrites).                                                        *)
(***************************************************************************)
\* How late a read may be.
Lag == IF Replicated THEN MaxLag ELSE 0

\* The state n has every commit from before the instant i.
HasSeen(n, i) == \A t \in Tx : pos[t] > 0 /\ commitAt[t] < i => pos[t] <= n

\* The window outlasts the lag of the replica and every write is recorded.
WindowCovers == TrackedOnly /\ (Replicated => MaxLag < Window)

\* A state read on the server s for the key k has the write the client made there.
HasOwn(k, s, n) ==
    WindowCovers /\ restarts = 0 =>
        \A t \in Tx : k = <<"client", id[t]>> /\ origin[t] = s => pos[t] <= n

\* Clients only send tokens of answered writes.
KeyOK(k) == k[1] = "client" => \E t \in Tx : status[t] = "answered" /\ k[2] = id[t]

\* A floor is the position of the write that the key names.
FloorOK(i, floor) == floor = 0 \/ \E t \in Tx : id[t] # 0 /\ id[t] = i /\ pos[t] = floor

LogTimes ==
    /\ \A t \in Tx : status[t] # "idle" => id[t] # 0
    /\ \A t \in Tx : commitAt[t] <= now
    /\ Replicated => \A t \in Tx : pos[t] > applied => now <= commitAt[t] + MaxLag
    /\ TrackedOnly => \A t \in Tx : tracked[t]
    /\ \A s \in Server : recorded[s] <= now
    /\ Replicated /\ WindowCovers /\ restarts = 0 =>
          \A t \in Tx : status[t] \in {"recorded", "answered"} =>
              pos[t] <= applied \/ (recorded[origin[t]] # Never
                                    /\ commitAt[t] <= recorded[origin[t]])

FreshRequest(r) ==
    /\ KeyOK(r.key)
    /\ FloorOK(r.key[2], r.floor)
    /\ r.pc \in {"idle", "fetch", "store"} => r.floor = 0
    /\ r.pc \in {"idle", "fetch", "store", "get"} => r.reads = 0
    /\ r.pc = "eval" => r.began <= now /\ now <= r.began + MaxEval
    /\ r.pc = "eval" /\ r.reads > 0 => HasSeen(r.seen, r.began - Lag)
    /\ r.pc = "done" \/ (r.pc = "eval" /\ r.reads > 0) => HasOwn(r.key, r.server, r.seen)

FreshEntry(k, s, e) ==
    /\ KeyOK(k)
    /\ e.expires <= now + CacheTTL
    /\ HasSeen(e.seen, e.expires - StaleAfter)
    /\ HasOwn(k, s, e.seen)

FreshInv ==
    /\ IInv
    /\ LogTimes
    /\ \A s \in Server : FloorOK(token[s], processed[s])
    /\ \A c \in Check : FreshRequest(req[c])
    /\ \A s \in Server : \A k \in DOMAIN cache[s] : FreshEntry(k, s, cache[s][k])

-----------------------------------------------------------------------------
\* The constants that are added to times.
LEMMA Durations ==
    /\ Lag \in Nat /\ MaxEval \in Nat /\ CacheTTL \in Nat /\ MaxLag \in Nat
    /\ StaleAfter = CacheTTL + MaxEval + Lag
    /\ Window \in Nat
BY LogAssumption, CacheAssumption DEF Lag, StaleAfter

\* The types the arguments about times need.
LEMMA Times ==
    ASSUME IInv
    PROVE  /\ now \in Nat /\ commits \in Nat /\ applied \in 0..commits /\ nextId \in Nat
           /\ \A t \in Tx : /\ id[t] \in Nat /\ pos[t] \in Nat /\ commitAt[t] \in Nat
                            /\ origin[t] \in Server /\ pos[t] <= commits
           /\ \A s \in Server : recorded[s] \in Nat \cup {Never}
           /\ restarts \in Nat
BY DEF IInv, TypeOK, LogTypeOK, IdsOK

\* The fields of a request.
LEMMA Fields ==
    ASSUME NEW r \in Request
    PROVE  /\ r.seen \in Nat /\ r.began \in Nat /\ r.floor \in Nat /\ r.reads \in 0..MaxReads
           /\ r.key \in Key \cup {NoKey}
BY DEF Request

\* What the log and the clock do to what has been promised.
LogMoves ==
    /\ \A t \in Tx :
          \/ pos'[t] = pos[t] /\ commitAt'[t] = commitAt[t]
          \/ pos[t] = 0 /\ status[t] = "open" /\ commitAt'[t] = now
    /\ \A t \in Tx : status[t] = "answered" => status'[t] = "answered" /\ id'[t] = id[t]
    /\ \A t \in Tx : id'[t] = id[t] \/ (id[t] = 0 /\ id'[t] = nextId)
    /\ origin' = origin
    /\ restarts' = restarts
    /\ now' \in Nat /\ now <= now'

\* Promises about the past outlast the steps of the log.
LEMMA PromisesStay ==
    ASSUME IInv, LogTimes, LogMoves
    PROVE  /\ \A n : \A i \in Int : i <= now /\ HasSeen(n, i) =>
                 \A t \in Tx : pos'[t] > 0 /\ commitAt'[t] < i => pos'[t] <= n
           /\ \A k : KeyOK(k) =>
                 (k[1] = "client" => \E t \in Tx : status'[t] = "answered" /\ k[2] = id'[t])
           /\ \A i, f : f \in Nat /\ FloorOK(i, f) =>
                 f = 0 \/ \E t \in Tx : id'[t] # 0 /\ id'[t] = i /\ pos'[t] = f
           /\ \A k, s, n : KeyOK(k) /\ HasOwn(k, s, n) =>
                 (WindowCovers /\ restarts' = 0 =>
                    \A t \in Tx : k = <<"client", id'[t]>> /\ origin'[t] = s => pos'[t] <= n)
<1>1. \A n : \A i \in Int : i <= now /\ HasSeen(n, i) =>
         \A t \in Tx : pos'[t] > 0 /\ commitAt'[t] < i => pos'[t] <= n
  BY Times DEF HasSeen, LogMoves
<1>2. \A k : KeyOK(k) =>
         (k[1] = "client" => \E t \in Tx : status'[t] = "answered" /\ k[2] = id'[t])
  BY DEF KeyOK, LogMoves
<1>3. \A i, f : f \in Nat /\ FloorOK(i, f) =>
         f = 0 \/ \E t \in Tx : id'[t] # 0 /\ id'[t] = i /\ pos'[t] = f
  BY Times DEF FloorOK, LogMoves
<1>4. ASSUME NEW k, NEW s, NEW n, KeyOK(k), HasOwn(k, s, n), WindowCovers, restarts' = 0,
             NEW t \in Tx, k = <<"client", id'[t]>>, origin'[t] = s
      PROVE  pos'[t] <= n
  <2>1. PICK u \in Tx : status[u] = "answered" /\ id'[t] = id[u]
    BY <1>4 DEF KeyOK
  <2>2. id[u] # 0 /\ id[u] < nextId /\ pos[u] > 0
    BY <2>1 DEF LogTimes, IInv, IdsOK
  <2>3. id'[t] = id[t]
    BY <2>1, <2>2, Times DEF LogMoves
  <2>4. t = u
    BY <2>1, <2>2, <2>3 DEF IInv, IdsOK
  <2>5. pos'[t] = pos[t]
    BY <2>1, <2>2, <2>4, Times DEF LogMoves
  <2>6. pos[t] <= n
    BY <1>4, <2>3 DEF HasOwn, LogMoves
  <2> QED BY <2>5, <2>6
<1> QED BY <1>1, <1>2, <1>3, <1>4

\* Steps of the log and of the clock leave requests and caches as fresh as they were.
LEMMA StepsOfLog ==
    ASSUME FreshInv, IInv', LogTimes', LogMoves, UNCHANGED <<token, processed, cache, req>>,
           \A c \in Check : At(c, "eval") => now' <= req[c].began + MaxEval
    PROVE  FreshInv'
<1>1. IInv /\ LogTimes
  BY DEF FreshInv
<1>2. \A s \in Server : FloorOK(token[s], processed[s])'
  BY <1>1, PromisesStay, Current DEF FreshInv, FloorOK
<1>3. ASSUME NEW c \in Check PROVE FreshRequest(req[c])'
  <2> DEFINE r == req[c]
  <2>1. FreshRequest(r) /\ r \in Request /\ (r.pc = "eval" => now' <= r.began + MaxEval)
    BY <1>1, Current DEF FreshInv, At
  <2>2. r.floor \in Nat /\ r.began \in Nat /\ r.seen \in Nat
    BY <2>1, Fields
  <2>3. KeyOK(r.key)'
    BY <1>1, <2>1, PromisesStay DEF FreshRequest, KeyOK
  <2>4. FloorOK(r.key[2], r.floor)'
    BY <1>1, <2>1, <2>2, PromisesStay DEF FreshRequest, FloorOK
  <2>5. (r.pc = "eval" => r.began <= now /\ now <= r.began + MaxEval)'
    BY <1>1, <2>1, <2>2, Times DEF FreshRequest, LogMoves
  <2>6. (r.pc = "eval" /\ r.reads > 0 => HasSeen(r.seen, r.began - Lag))'
    <3>1. r.began - Lag \in Int /\ (r.pc = "eval" => r.began - Lag <= now)
      BY <1>1, <2>1, <2>2, Times, Durations DEF FreshRequest
    <3> QED BY <1>1, <2>1, <3>1, PromisesStay DEF FreshRequest, HasSeen
  <2>7. (r.pc = "done" \/ (r.pc = "eval" /\ r.reads > 0) => HasOwn(r.key, r.server, r.seen))'
    BY <1>1, <2>1, PromisesStay DEF FreshRequest, HasOwn
  <2> QED BY <2>1, <2>3, <2>4, <2>5, <2>6, <2>7 DEF FreshRequest
<1>4. ASSUME NEW s \in Server, NEW k \in DOMAIN cache[s]
      PROVE  FreshEntry(k, s, cache[s][k])'
  <2> DEFINE e == cache[s][k]
  <2>1. FreshEntry(k, s, e)
    BY DEF FreshInv
  <2>2. e.seen \in Nat /\ e.expires \in Nat
    <3>1. SoundCache(cache[s])
      BY <1>1, Current
    <3> QED BY <3>1 DEF SoundCache, IsCache
  <2>3. KeyOK(k)'
    BY <1>1, <2>1, PromisesStay DEF FreshEntry, KeyOK
  <2>4. (e.expires <= now + CacheTTL)'
    BY <1>1, <2>1, <2>2, Times, Durations DEF FreshEntry, LogMoves
  <2>5. HasSeen(e.seen, e.expires - StaleAfter)'
    <3>1. e.expires - StaleAfter \in Int /\ e.expires - StaleAfter <= now
      BY <1>1, <2>1, <2>2, Times, Durations DEF FreshEntry
    <3> QED BY <1>1, <2>1, <3>1, PromisesStay DEF FreshEntry, HasSeen
  <2>6. HasOwn(k, s, e.seen)'
    <3>1. KeyOK(k) /\ HasOwn(k, s, e.seen)
      BY <2>1 DEF FreshEntry
    <3>2. WindowCovers /\ restarts' = 0 =>
             \A t \in Tx : k = <<"client", id'[t]>> /\ origin'[t] = s => pos'[t] <= e.seen
      BY <1>1, <3>1, PromisesStay
    <3> QED BY <3>2 DEF HasOwn
  <2> QED BY <2>3, <2>4, <2>5, <2>6 DEF FreshEntry
<1> QED BY <1>2, <1>3, <1>4 DEF FreshInv

-----------------------------------------------------------------------------
\* The steps of a write keep the times of the log in order.
LEMMA WriteStepTimes ==
    ASSUME IInv, LogTimes, NEW t \in Tx, WriteStep(t), UNCHANGED cacheVars
    PROVE  LogTimes' /\ LogMoves
<1> USE DEF cacheVars
<1>1. \A u \in Tx : id[u] \in Nat /\ pos[u] \in Nat /\ commitAt[u] \in Nat /\ origin[u] \in Server
  BY Times
<1>2. CASE WriteRow(t)
  <2>1. nextId # 0
    BY LogAssumption DEF IInv, TypeOK, LogTypeOK
  <2>2. /\ \A u \in Tx : status'[u] = IF u = t THEN "open" ELSE status[u]
        /\ \A u \in Tx : id'[u] = IF u = t THEN nextId ELSE id[u]
        /\ status[t] = "idle" /\ id[t] = 0
    BY <1>2 DEF WriteRow, IInv, TypeOK, LogTypeOK, IdsOK
  <2>3. LogTimes'
    BY <1>2, <2>1, <2>2 DEF WriteRow, LogTimes
  <2> QED BY <1>2, <2>2, <2>3, Times DEF WriteRow, LogMoves
<1>3. CASE CommitWrite(t)
  <2>1. /\ \A u \in Tx : status'[u] = IF u = t THEN "committed" ELSE status[u]
        /\ \A u \in Tx : pos'[u] = IF u = t THEN commits + 1 ELSE pos[u]
        /\ \A u \in Tx : commitAt'[u] = IF u = t THEN now ELSE commitAt[u]
        /\ status[t] = "open" /\ pos[t] = 0
        /\ now' = now /\ applied' = applied /\ recorded' = recorded /\ origin' = origin
        /\ id' = id /\ tracked' = tracked /\ restarts' = restarts
    BY <1>3 DEF CommitWrite, IInv, TypeOK, LogTypeOK, IdsOK
  <2>2. LogMoves
    BY <2>1, Times DEF LogMoves
  <2>3. /\ \A u \in Tx : status'[u] # "idle" => id'[u] # 0
        /\ \A u \in Tx : commitAt'[u] <= now'
        /\ TrackedOnly => \A u \in Tx : tracked'[u]
        /\ \A s \in Server : recorded'[s] <= now'
    BY <1>1, <2>1, Times DEF LogTimes
  <2>4. Replicated => \A u \in Tx : pos'[u] > applied' => now' <= commitAt'[u] + MaxLag
    BY <1>1, <2>1, Times, Durations DEF LogTimes
  <2>5. Replicated /\ WindowCovers /\ restarts' = 0 =>
          \A u \in Tx : status'[u] \in {"recorded", "answered"} =>
              pos'[u] <= applied' \/ (recorded'[origin'[u]] # Never
                                      /\ commitAt'[u] <= recorded'[origin'[u]])
    BY <2>1 DEF LogTimes
  <2> QED BY <2>2, <2>3, <2>4, <2>5 DEF LogTimes
<1>4. CASE AbortWrite(t)
  <2>1. /\ \A u \in Tx : status'[u] = IF u = t THEN "aborted" ELSE status[u]
        /\ status[t] = "open"
        /\ UNCHANGED <<now, origin, tracked, id, pos, commitAt, applied, recorded, restarts>>
    BY <1>4 DEF AbortWrite, IInv, TypeOK, LogTypeOK
  <2>2. LogMoves
    BY <2>1, Times DEF LogMoves
  <2>3. LogTimes'
    BY <2>1 DEF LogTimes
  <2> QED BY <2>2, <2>3
<1>5. CASE RecordWrite(t)
  <2>1. /\ \A u \in Tx : status'[u] = IF u = t THEN "recorded" ELSE status[u]
        /\ \A s \in Server : recorded'[s] = IF s = origin[t] THEN now ELSE recorded[s]
        /\ status[t] = "committed"
        /\ UNCHANGED <<now, origin, tracked, id, pos, commitAt, applied, restarts>>
    BY <1>5 DEF RecordWrite, IInv, TypeOK, LogTypeOK
  <2>2. LogMoves
    BY <2>1, Times DEF LogMoves
  <2>3. now # Never
    BY Times DEF Never
  <2>4. LogTimes'
    BY <1>1, <2>1, <2>3, Times DEF LogTimes
  <2> QED BY <2>2, <2>4
<1>6. CASE AnswerWrite(t)
  <2>1. /\ \A u \in Tx : status'[u] = IF u = t THEN "answered" ELSE status[u]
        /\ status[t] = IF tracked[t] THEN "recorded" ELSE "committed"
        /\ UNCHANGED <<now, origin, tracked, id, pos, commitAt, applied, recorded, restarts>>
    BY <1>6 DEF AnswerWrite, IInv, TypeOK, LogTypeOK
  <2>2. LogMoves
    BY <2>1, Times DEF LogMoves
  <2>3. WindowCovers => status[t] = "recorded"
    BY <2>1 DEF LogTimes, WindowCovers
  <2>4. LogTimes'
    BY <1>1, <2>1, <2>3, Times DEF LogTimes
  <2> QED BY <2>2, <2>4
<1> QED BY <1>2, <1>3, <1>4, <1>5, <1>6 DEF WriteStep

\* So do the replica, lost notifications and the cleanup of the tracker, which
\* forgets a write only when the replica has it.
LEMMA LogStepTimes ==
    ASSUME IInv, LogTimes, LogStep, UNCHANGED cacheVars
    PROVE  LogTimes' /\ LogMoves
<1>1. CASE \E t \in Tx : WriteStep(t)
  BY <1>1, WriteStepTimes
<1>2. CASE ReplicaApply
  <2>1. LogMoves
    BY <1>2, Times DEF ReplicaApply, LogMoves, cacheVars
  <2>2. LogTimes'
    BY <1>2, Times DEF ReplicaApply, LogTimes, cacheVars
  <2> QED BY <2>1, <2>2
<1>3. ASSUME NEW s \in Server, LoseNotifications(s) PROVE LogTimes' /\ LogMoves
  BY <1>3, Times DEF LoseNotifications, LogTimes, LogMoves, cacheVars
<1>4. ASSUME NEW s \in Server, Cleanup(s) PROVE LogTimes' /\ LogMoves
  <2>1. LogMoves
    BY <1>4, Times DEF Cleanup, LogMoves, cacheVars
  <2>2. \A x \in Server : recorded'[x] = IF x = s THEN Never ELSE recorded[x]
    BY <1>4 DEF Cleanup, IInv, TypeOK, LogTypeOK
  <2>3. recorded[s] \in Nat /\ now - recorded[s] >= Window
    BY <1>4, Times DEF Cleanup
  <2>4. ASSUME Replicated, WindowCovers, restarts = 0, NEW t \in Tx,
               status[t] \in {"recorded", "answered"}, origin[t] = s
        PROVE  pos[t] <= applied
    <3>1. pos[t] \in Nat /\ applied \in Nat /\ commitAt[t] \in Nat
      BY Times
    <3>2. commitAt[t] <= recorded[s] \/ pos[t] <= applied
      BY <2>4 DEF LogTimes
    <3>3. MaxLag < Window /\ (pos[t] > applied => now <= commitAt[t] + MaxLag)
      BY <2>4 DEF WindowCovers, LogTimes
    <3> QED BY <2>3, <3>1, <3>2, <3>3, Times, Durations
  <2>5. LogTimes'
    BY <1>4, <2>2, <2>4, Times DEF Cleanup, LogTimes, cacheVars, Never
  <2> QED BY <2>1, <2>5
<1> QED BY <1>1, <1>2, <1>3, <1>4 DEF LogStep

\* And time: no evaluation and no replica is later than its bound.
LEMMA TickTimes ==
    ASSUME IInv, LogTimes, Tick
    PROVE  LogTimes' /\ LogMoves
<1> USE DEF Tick, LogTick, cacheVars
<1>1. LogMoves
  BY Times DEF LogMoves
<1>2. Replicated => \A t \in Tx : pos[t] > applied => now + 1 <= commitAt[t] + MaxLag
  BY Times, Durations
<1>3. LogTimes'
  BY <1>2, Times, Durations DEF LogTimes, Never
<1> QED BY <1>1, <1>3

-----------------------------------------------------------------------------
\* A read sees what was committed before the lag of the replica, and the own
\* writes of its server.
LEMMA ReadFresh ==
    ASSUME IInv, LogTimes, NEW s \in Server
    PROVE  /\ HasSeen(ReadState(s), now - Lag)
           /\ \A k : KeyOK(k) => HasOwn(k, s, ReadState(s))
<1>1. HasSeen(ReadState(s), now - Lag)
  <2> SUFFICES ASSUME NEW t \in Tx, pos[t] > 0, commitAt[t] < now - Lag
               PROVE  pos[t] <= ReadState(s)
    BY DEF HasSeen
  <2>1. CASE Replicated
    BY <2>1, Times, Durations DEF LogTimes, Lag, ReadState
  <2>2. CASE ~Replicated
    BY <2>2, Times DEF ReadState
  <2> QED BY <2>1, <2>2
<1>2. ASSUME NEW k, KeyOK(k), WindowCovers, restarts = 0,
             NEW t \in Tx, k = <<"client", id[t]>>, origin[t] = s
      PROVE  pos[t] <= ReadState(s)
  <2>1. status[t] = "answered"
    <3>1. PICK u \in Tx : status[u] = "answered" /\ id[t] = id[u]
      BY <1>2 DEF KeyOK
    <3> QED BY <3>1 DEF LogTimes, IInv, IdsOK
  <2>2. CASE Replicated /\ ~HasRecentWrite(s)
    <3>1. pos[t] <= applied \/ (recorded[s] # Never /\ commitAt[t] <= recorded[s])
      BY <1>2, <2>1, <2>2 DEF LogTimes
    <3>2. recorded[s] = Never \/ (recorded[s] \in Nat /\ now - recorded[s] >= Window)
      BY <2>2, Times, Durations DEF HasRecentWrite
    <3>3. MaxLag < Window /\ (pos[t] > applied => now <= commitAt[t] + MaxLag)
      BY <1>2, <2>2 DEF WindowCovers, LogTimes
    <3>4. pos[t] <= applied
      BY <3>1, <3>2, <3>3, Times, Durations
    <3> QED BY <2>2, <3>4 DEF ReadState
  <2>3. CASE ~ (Replicated /\ ~HasRecentWrite(s))
    BY <2>3, Times DEF ReadState
  <2> QED BY <2>2, <2>3
<1> QED BY <1>1, <1>2 DEF HasOwn

\* A step of one request keeps every promise if the new record, the new token and
\* the new cache keep theirs.
LEMMA RequestFresh ==
    ASSUME FreshInv, IInv', UNCHANGED <<logVars, restarts>>,
           NEW c \in Check, NEW r \in Request, Goto(c, r), FreshRequest(r),
           \A s \in Server : FloorOK(token'[s], processed'[s]),
           \A s \in Server : \A k \in DOMAIN cache'[s] : FreshEntry(k, s, cache'[s][k])
    PROVE  FreshInv'
<1> USE DEF logVars
<1>1. \A d \in Check : FreshRequest(req'[d])
  BY GotoType DEF FreshInv, IInv, TypeOK
<1>2. LogTimes'
  BY DEF FreshInv, LogTimes, WindowCovers
<1>3. (\A d \in Check : FreshRequest(req[d]))'
  BY <1>1 DEF FreshRequest, KeyOK, FloorOK, HasSeen, HasOwn
<1>4. (\A s \in Server : FloorOK(token[s], processed[s]))'
  BY DEF FloorOK
<1>5. (\A s \in Server : \A k \in DOMAIN cache[s] : FreshEntry(k, s, cache[s][k]))'
  BY DEF FreshEntry, KeyOK, HasSeen, HasOwn
<1> QED BY <1>2, <1>3, <1>4, <1>5 DEF FreshInv

\* What the invariant says of the request c, of the tokens and of the caches.
LEMMA Now ==
    ASSUME FreshInv
    PROVE  /\ IInv /\ LogTimes
           /\ \A c \in Check : req[c] \in Request /\ FreshRequest(req[c])
           /\ \A s \in Server : FloorOK(token[s], processed[s])
           /\ \A s \in Server : \A k \in DOMAIN cache[s] : FreshEntry(k, s, cache[s][k])
BY Current DEF FreshInv

\* A token that a notification has set brings its floor along.
LEMMA BeginCheckFresh ==
    ASSUME FreshInv, NEW c \in Check, NEW s \in Server, BeginCheck(c, s)
    PROVE  FreshInv'
<1> DEFINE r == [NoRequest EXCEPT !.server = s]
           f == [r EXCEPT !.pc = "fetch"]
           p == [r EXCEPT !.floor = processed[s]]
           g == LookUp(p, <<"manager", token[s]>>)
<1>1. IInv' /\ UNCHANGED <<logVars, restarts, token, processed, cache>>
  BY Now, BeginCheckIInv DEF BeginCheck
<1>2. processed[s] \in Nat /\ token[s] \in Nat /\ FloorOK(token[s], processed[s])
  BY Now, Current
<1>3. f \in Request /\ FreshRequest(f)
  <2>1. f \in Request
    BY RequestType DEF NoRequest, Request
  <2>2. f.key = NoKey /\ f.floor = 0 /\ f.reads = 0 /\ f.pc = "fetch"
    BY DEF NoRequest
  <2> HIDE DEF f
  <2> QED BY <2>1, <2>2 DEF FreshRequest, KeyOK, FloorOK, NoKey
<1>4. g \in Request /\ FreshRequest(g)
  <2>1. <<"manager", token[s]>> \in Key
    BY <1>2 DEF Key
  <2>2. g \in Request
    <3>1. p \in Request
      BY <1>2, RequestType DEF NoRequest, Request
    <3> HIDE DEF p
    <3> QED BY <2>1, <3>1, RequestType
  <2>3. g.key = <<"manager", token[s]>> /\ g.floor = processed[s] /\ g.reads = 0
        /\ g.pc = "get"
    BY DEF NoRequest, LookUp
  <2> HIDE DEF g
  <2> QED BY <1>2, <2>2, <2>3 DEF FreshRequest, KeyOK
<1>5. Goto(c, f) \/ Goto(c, g)
  BY DEF BeginCheck
<1> HIDE DEF f, g
<1> QED BY <1>1, <1>3, <1>4, <1>5, Now, RequestFresh

\* The client's token is that of an answered write.
LEMMA BeginClientCheckFresh ==
    ASSUME FreshInv, NEW c \in Check, NEW s \in Server, NEW t \in Tx, BeginClientCheck(c, s, t)
    PROVE  FreshInv'
<1> DEFINE p == [NoRequest EXCEPT !.server = s]
           g == LookUp(p, <<"client", id[t]>>)
<1>1. IInv' /\ UNCHANGED <<logVars, restarts, token, processed, cache>>
  BY Now, BeginClientCheckIInv DEF BeginClientCheck
<1>2. status[t] = "answered" /\ Goto(c, g)
  BY DEF BeginClientCheck
<1>3. <<"client", id[t]>> \in Key
  BY Now, Times DEF Key
<1>4. g \in Request
  <2>1. p \in Request
    BY RequestType DEF NoRequest, Request
  <2> HIDE DEF p
  <2> QED BY <1>3, <2>1, RequestType
<1>5. g.key = <<"client", id[t]>> /\ g.floor = 0 /\ g.reads = 0 /\ g.pc = "get"
  BY DEF NoRequest, LookUp
<1> HIDE DEF g
<1>6. FreshRequest(g)
  BY <1>2, <1>4, <1>5 DEF FreshRequest, KeyOK, FloorOK
<1> QED BY <1>1, <1>2, <1>4, <1>6, Now, RequestFresh

\* A refresh ends what the notification promised.
LEMMA RefreshFresh ==
    ASSUME FreshInv, NEW c \in Check, FetchLatestToken(c) \/ RefreshFromDB(c)
    PROVE  FreshInv'
<1>1. IInv' /\ UNCHANGED <<logVars, restarts, cache>>
  BY Now, FetchLatestTokenIInv, RefreshFromDBIInv DEF FetchLatestToken, RefreshFromDB
<1>2. req[c] \in Request /\ FreshRequest(req[c])
  BY Now
<1>3. CASE FetchLatestToken(c)
  <2> DEFINE k == <<"manager", LatestId>>
             r == [req[c] EXCEPT !.pc = "store", !.key = k]
  <2>1. req[c].pc = "fetch" /\ Goto(c, r)
    BY <1>3 DEF FetchLatestToken, At
  <2>2. LatestId \in Nat
    BY Now, LatestIdCommitted DEF IInv, TypeOK, LogInv
  <2>3. k \in Key
    BY <2>2 DEF Key
  <2>4. r \in Request /\ r.key = k /\ r.pc = "store" /\ r.floor = req[c].floor
        /\ r.reads = req[c].reads
    BY <1>2, <2>3 DEF Request
  <2> HIDE DEF r
  <2>5. FreshRequest(r)
    BY <1>2, <2>1, <2>4 DEF FreshRequest, KeyOK, FloorOK
  <2> QED BY <1>1, <1>3, <2>1, <2>4, <2>5, Now, RequestFresh DEF FetchLatestToken
<1>4. CASE RefreshFromDB(c)
  <2> DEFINE s == req[c].server
             r == LookUp(req[c], req[c].key)
  <2>1. req[c].pc = "store" /\ Goto(c, r)
    BY <1>4 DEF RefreshFromDB, At
  <2>2. r \in Request /\ r.key = req[c].key /\ r.pc = "get" /\ r.floor = req[c].floor
        /\ r.reads = req[c].reads
    BY <1>2 DEF LookUp, Request
  <2> HIDE DEF r
  <2>3. FreshRequest(r)
    BY <1>2, <2>1, <2>2 DEF FreshRequest, FloorOK
  <2>4. \A x \in Server : FloorOK(token'[x], processed'[x])
    <3>1. \A x \in Server : processed'[x] = 0
                            \/ (processed'[x] = processed[x] /\ token'[x] = token[x])
      BY <1>4, Now, Current DEF RefreshFromDB
    <3> QED BY <3>1, Now DEF FloorOK
  <2> QED BY <1>1, <2>1, <2>2, <2>3, <2>4, Now, RequestFresh
<1> QED BY <1>3, <1>4

\* An evaluation that begins now has all its time.
LEMMA EvaluateFresh ==
    ASSUME FreshInv, NEW c \in Check, req[c].pc \in {"fetch", "get"}
    PROVE  Evaluate(req[c]) \in Request /\ FreshRequest(Evaluate(req[c]))
<1> DEFINE r == Evaluate(req[c])
<1>1. req[c] \in Request /\ FreshRequest(req[c]) /\ now \in Nat
  BY Now, Times
<1>2. r \in Request /\ r.pc = "eval" /\ r.began = now /\ r.key = req[c].key
      /\ r.floor = req[c].floor /\ r.reads = req[c].reads
  BY <1>1 DEF Evaluate, Request
<1> HIDE DEF r
<1>3. r.reads = 0
  BY <1>1, <1>2 DEF FreshRequest
<1>4. r.began <= now /\ now <= r.began + MaxEval
  BY <1>1, <1>2, Durations
<1>5. FreshRequest(r)
  BY <1>1, <1>2, <1>3, <1>4 DEF FreshRequest
<1> QED BY <1>2, <1>5 DEF r

LEMMA FetchFailsFresh ==
    ASSUME FreshInv, NEW c \in Check, FetchFails(c)
    PROVE  FreshInv'
<1> DEFINE r == Evaluate(req[c])
<1>1. IInv' /\ UNCHANGED <<logVars, restarts, token, processed, cache>>
  BY Now, FetchFailsIInv DEF FetchFails
<1>2. r \in Request /\ FreshRequest(r)
  BY EvaluateFresh DEF FetchFails, At
<1>3. Goto(c, r)
  BY DEF FetchFails
<1> HIDE DEF r
<1> QED BY <1>1, <1>2, <1>3, Now, RequestFresh

\* A hit is as fresh as its entry, which has not expired.
LEMMA CacheGetFresh ==
    ASSUME FreshInv, NEW c \in Check, CacheGet(c)
    PROVE  FreshInv'
<1> DEFINE s == req[c].server
           k == req[c].key
           hit == k \in DOMAIN cache[s] /\ ~Expired(cache[s][k])
           h == [req[c] EXCEPT !.pc = "done", !.seen = cache[s][k].seen]
           r == Evaluate(req[c])
<1>1. IInv' /\ UNCHANGED <<logVars, restarts, token, processed>>
  BY Now, CacheGetIInv DEF CacheGet
<1>2. req[c].pc = "get" /\ req[c] \in Request /\ FreshRequest(req[c]) /\ s \in Server
  BY Now, Current DEF CacheGet, At
<1>3. CASE hit
  <2>1. Goto(c, h) /\ cache' = cache
    BY <1>3 DEF CacheGet
  <2>2. FreshEntry(k, s, cache[s][k]) /\ cache[s][k].seen \in Nat
    BY <1>2, <1>3, Now, Current DEF SoundCache, IsCache
  <2>3. h \in Request /\ h.key = k /\ h.pc = "done" /\ h.seen = cache[s][k].seen
        /\ h.server = s /\ h.floor = req[c].floor
    BY <1>2, <2>2 DEF Request
  <2> HIDE DEF h
  <2>4. FreshRequest(h)
    BY <1>2, <2>2, <2>3 DEF FreshRequest, FreshEntry
  <2> QED BY <1>1, <2>1, <2>3, <2>4, Now, RequestFresh
<1>4. CASE ~hit
  <2>1. Goto(c, r) /\ cache' = [cache EXCEPT ![s] = Drop(@, k)]
    BY <1>4 DEF CacheGet
  <2>2. r \in Request /\ FreshRequest(r)
    BY <1>2, EvaluateFresh
  <2>3. \A x \in Server : cache'[x] = cache[x] \/ cache'[x] = Drop(cache[x], k)
    BY <2>1, Now, Current
  <2>4. \A x \in Server : \A j \in DOMAIN cache'[x] : FreshEntry(j, x, cache'[x][j])
    BY <2>3, Now DEF Drop
  <2> HIDE DEF r
  <2> QED BY <1>1, <2>1, <2>2, <2>4, Now, RequestFresh
<1> QED BY <1>3, <1>4

\* The oldest state an evaluation has read is still as fresh as its beginning.
LEMMA ReadFreshInv ==
    ASSUME FreshInv, NEW c \in Check, Read(c)
    PROVE  FreshInv'
<1> DEFINE q == req[c]
           state == ReadState(q.server)
           n == IF q.reads = 0 \/ state < q.seen THEN state ELSE q.seen
           r == [q EXCEPT !.reads = @ + 1, !.seen = n]
<1>1. IInv' /\ UNCHANGED <<logVars, restarts, token, processed, cache>>
  BY Now, ReadIInv DEF Read
<1>2. q \in Request /\ FreshRequest(q) /\ q.pc = "eval" /\ q.reads < MaxReads
      /\ q.server \in Server
  BY Now, Current DEF Read, At
<1>3. Goto(c, r)
  BY DEF Read
<1>4. state \in Nat
  BY Now, ReadStateType DEF IInv, TypeOK
<1>5. q.seen \in Nat /\ q.began \in Nat /\ q.reads \in 0..MaxReads
  BY <1>2, Fields
<1>6. HasSeen(state, q.began - Lag) /\ HasOwn(q.key, q.server, state)
  <2>1. HasSeen(state, now - Lag)
    BY <1>2, Now, ReadFresh
  <2>2. q.began <= now /\ now \in Nat
    BY <1>2, Now, Times DEF FreshRequest
  <2>3. HasSeen(state, q.began - Lag)
    <3> HIDE DEF state, q
    <3> QED BY <1>5, <2>1, <2>2, Now, Times, Durations DEF HasSeen
  <2>4. HasOwn(q.key, q.server, state)
    BY <1>2, Now, ReadFresh DEF FreshRequest
  <2> QED BY <2>3, <2>4
<1>7. n = state \/ (n = q.seen /\ q.reads > 0)
  <2> HIDE DEF q, state
  <2> QED BY <1>5, CacheAssumption
<1>8. HasSeen(n, q.began - Lag) /\ HasOwn(q.key, q.server, n) /\ n \in Nat
  BY <1>2, <1>4, <1>5, <1>6, <1>7 DEF FreshRequest
<1> HIDE DEF n
<1>9. r \in Request /\ r.pc = "eval" /\ r.key = q.key /\ r.server = q.server /\ r.seen = n
      /\ r.began = q.began /\ r.floor = q.floor
  <2>1. q.reads + 1 \in 0..MaxReads
    <3> HIDE DEF q
    <3> QED BY <1>2, <1>5, CacheAssumption
  <2> QED BY <1>2, <1>8, <2>1 DEF Request
<1> HIDE DEF r
<1>10. FreshRequest(r)
  BY <1>2, <1>8, <1>9 DEF FreshRequest
<1> QED BY <1>1, <1>3, <1>9, <1>10, Now, RequestFresh

\* An entry is made before the evaluation has taken too long.
LEMMA CacheSetFresh ==
    ASSUME FreshInv, NEW c \in Check, CacheSet(c)
    PROVE  FreshInv'
<1> DEFINE q == req[c]
           s == q.server
           e == [seen |-> q.seen, expires |-> now + CacheTTL]
           r == [q EXCEPT !.pc = "done", !.began = 0]
<1>1. IInv' /\ UNCHANGED <<logVars, restarts, token, processed>>
  BY Now, CacheSetIInv DEF CacheSet
<1>2. q \in Request /\ FreshRequest(q) /\ q.pc = "eval" /\ q.reads > 0
      /\ s \in Server /\ Goto(c, r)
  BY Now, Current DEF CacheSet, At
<1>3. q.seen \in Nat /\ q.began \in Nat /\ now \in Nat
  BY <1>2, Fields, Now, Times
<1>4. r \in Request /\ r.pc = "done" /\ r.key = q.key /\ r.server = s /\ r.seen = q.seen
      /\ r.floor = q.floor
  BY <1>2 DEF Request
<1> HIDE DEF r
<1>5. FreshRequest(r)
  BY <1>2, <1>4 DEF FreshRequest
<1>6. FreshEntry(q.key, s, e)
  <2>1. e.expires = now + CacheTTL /\ e.seen = q.seen
    OBVIOUS
  <2>2. HasSeen(q.seen, e.expires - StaleAfter)
    <3>1. e.expires - StaleAfter <= q.began - Lag
      BY <1>2, <1>3, <2>1, Durations DEF FreshRequest
    <3>2. HasSeen(q.seen, q.began - Lag)
      BY <1>2 DEF FreshRequest
    <3>3. e.expires - StaleAfter \in Int /\ q.began - Lag \in Int
      BY <1>3, <2>1, Durations
    <3> HIDE DEF e, q
    <3> QED BY <3>1, <3>2, <3>3, Now, Times DEF HasSeen
  <2>3. e.expires <= now + CacheTTL
    BY <1>3, <2>1, Durations
  <2> HIDE DEF e
  <2> QED BY <1>2, <2>1, <2>2, <2>3 DEF FreshRequest, FreshEntry
<1>7. \A x \in Server : cache'[x] = cache[x] \/ (x = s /\ cache'[x] = Put(cache[x], q.key, e))
  BY Now, Current DEF CacheSet
<1> HIDE DEF e
<1>8. ASSUME NEW x \in Server, NEW j \in DOMAIN cache'[x]
      PROVE  FreshEntry(j, x, cache'[x][j])
  <2>1. CASE cache'[x] = cache[x]
    BY <2>1, Now
  <2>2. CASE x = s /\ cache'[x] = Put(cache[x], q.key, e)
    <3>1. (j = q.key /\ cache'[x][j] = e)
          \/ (j \in DOMAIN cache[x] /\ cache'[x][j] = cache[x][j])
      BY <2>2 DEF Put
    <3> HIDE DEF q
    <3> QED BY <1>6, <2>2, <3>1, Now
  <2> QED BY <1>7, <2>1, <2>2
<1> QED BY <1>1, <1>2, <1>4, <1>5, <1>8, Now, RequestFresh

LEMMA EvaluationFailsFresh ==
    ASSUME FreshInv, NEW c \in Check, EvaluationFails(c)
    PROVE  FreshInv'
<1> DEFINE r == [NoRequest EXCEPT !.pc = "failed", !.server = req[c].server]
<1>1. IInv' /\ UNCHANGED <<logVars, restarts, token, processed, cache>>
  BY Now, EvaluationFailsIInv DEF EvaluationFails
<1>2. req[c].server \in Server /\ Goto(c, r)
  BY Now, Current DEF EvaluationFails, At
<1>3. r \in Request
  BY <1>2, RequestType DEF NoRequest, Request
<1>4. r.key = NoKey /\ r.floor = 0 /\ r.pc = "failed"
  BY DEF NoRequest
<1> HIDE DEF r
<1>5. FreshRequest(r)
  BY <1>4 DEF FreshRequest, KeyOK, FloorOK, NoKey
<1> QED BY <1>1, <1>2, <1>3, <1>5, Now, RequestFresh
\* Eviction makes no entry older.
LEMMA EvictFresh ==
    ASSUME FreshInv, NEW s \in Server, NEW k, Evict(s, k)
    PROVE  FreshInv'
<1> USE DEF logVars
<1>1. IInv' /\ UNCHANGED <<logVars, restarts, token, processed, req>>
  BY Now, EvictIInv DEF Evict
<1>2. \A x \in Server : cache'[x] = cache[x] \/ cache'[x] = Drop(cache[x], k)
  BY Now, Current DEF Evict
<1>3. \A x \in Server : \A j \in DOMAIN cache'[x] : FreshEntry(j, x, cache'[x][j])
  BY <1>2, Now DEF Drop
<1>4. LogTimes'
  BY <1>1, Now DEF LogTimes, WindowCovers
<1>5. (\A d \in Check : FreshRequest(req[d]))'
  BY <1>1, Now DEF FreshRequest, KeyOK, FloorOK, HasSeen, HasOwn
<1>6. (\A x \in Server : FloorOK(token[x], processed[x]))'
  BY <1>1, Now DEF FloorOK
<1>7. (\A x \in Server : \A j \in DOMAIN cache[x] : FreshEntry(j, x, cache[x][j]))'
  BY <1>1, <1>3 DEF FreshEntry, KeyOK, HasSeen, HasOwn
<1> QED BY <1>1, <1>4, <1>5, <1>6, <1>7 DEF FreshInv

\* A notification makes the position of its write the floor of the token.
LEMMA NotificationFresh ==
    ASSUME FreshInv, NEW s \in Server, HandleNotification(s)
    PROVE  FreshInv'
<1> DEFINE t == Head(queue[s])
<1>1. IInv' /\ UNCHANGED <<now, status, origin, tracked, id, pos, commitAt, applied, recorded,
                          cache, req, restarts>>
  BY Now, NotificationIInv DEF HandleNotification
<1>2. t \in Tx /\ pos[t] > 0
  <2>1. queue[s] \in Seq(Tx) /\ queue[s] # <<>>
    BY Now DEF IInv, TypeOK, LogTypeOK, HandleNotification
  <2>2. t = queue[s][1] /\ 1 \in 1..Len(queue[s]) /\ t \in Tx
    BY <2>1
  <2> QED BY <2>2, Now DEF IInv, QueueOK
<1>3. id[t] # 0
  BY <1>2, Now DEF LogTimes, IInv, IdsOK
<1>4. \A x \in Server : \/ (token'[x] = id[t] /\ processed'[x] = pos[t])
                       \/ (token'[x] = token[x] /\ processed'[x] = processed[x])
  BY Now, Current DEF HandleNotification
<1> HIDE DEF t
<1>5. \A x \in Server : FloorOK(token'[x], processed'[x])
  BY <1>2, <1>3, <1>4, Now DEF FloorOK
<1>6. LogTimes'
  BY <1>1, Now DEF LogTimes, WindowCovers
<1>7. (\A d \in Check : FreshRequest(req[d]))'
  BY <1>1, Now DEF FreshRequest, KeyOK, FloorOK, HasSeen, HasOwn
<1>8. (\A x \in Server : FloorOK(token[x], processed[x]))'
  BY <1>1, <1>5 DEF FloorOK
<1>9. (\A x \in Server : \A j \in DOMAIN cache[x] : FreshEntry(j, x, cache[x][j]))'
  BY <1>1, Now DEF FreshEntry, KeyOK, HasSeen, HasOwn
<1> QED BY <1>1, <1>6, <1>7, <1>8, <1>9 DEF FreshInv

\* A restart forgets the entries and the recorded writes of its server, and with
\* them what its clients may expect.
LEMMA RestartFresh ==
    ASSUME FreshInv, NEW s \in Server, Restart(s)
    PROVE  FreshInv'
<1>1. IInv' /\ UNCHANGED <<now, status, origin, tracked, id, pos, commitAt, applied>>
  BY Now, RestartIInv DEF Restart
<1>2. restarts' # 0
  BY Now, Times DEF Restart
<1>3. \A x \in Server : recorded'[x] = IF x = s THEN Never ELSE recorded[x]
  BY Now DEF Restart, IInv, TypeOK, LogTypeOK
<1>4. LogTimes'
  <2>1. Never <= now
    BY Now, Times DEF Never
  <2>2. \A x \in Server : recorded'[x] <= now'
    BY <1>1, <1>3, <2>1, Now DEF LogTimes
  <2> QED BY <1>1, <1>2, <2>2, Now DEF LogTimes
<1>5. \A x \in Server : processed'[x] = 0
                        \/ (token'[x] = token[x] /\ processed'[x] = processed[x])
  BY Now, Current DEF Restart
<1>6. (\A x \in Server : FloorOK(token[x], processed[x]))'
  BY <1>1, <1>5, Now DEF FloorOK
<1>7. ASSUME NEW d \in Check PROVE FreshRequest(req[d])'
  <2> DEFINE q == req[d]
             f == [q EXCEPT !.pc = "failed"]
  <2>1. q \in Request /\ FreshRequest(q)
    BY Now
  <2>2. req'[d] = q \/ req'[d] = f
    BY DEF Restart
  <2>3. f.pc = "failed" /\ f.key = q.key /\ f.floor = q.floor
    BY <2>1 DEF Request
  <2> HIDE DEF f
  <2>4. CASE req'[d] = f
    BY <1>1, <2>1, <2>3, <2>4 DEF FreshRequest, KeyOK, FloorOK
  <2>5. CASE req'[d] = q
    BY <1>1, <1>2, <2>1, <2>5 DEF FreshRequest, KeyOK, FloorOK, HasSeen, HasOwn
  <2> QED BY <2>2, <2>4, <2>5
<1>8. (\A x \in Server : \A j \in DOMAIN cache[x] : FreshEntry(j, x, cache[x][j]))'
  <2>1. \A x \in Server : cache'[x] = cache[x] \/ DOMAIN cache'[x] = {}
    BY Now, Current DEF Restart
  <2>2. \A x \in Server : \A j \in DOMAIN cache'[x] : FreshEntry(j, x, cache'[x][j])
    BY <2>1, Now
  <2> QED BY <1>1, <1>2, <2>2 DEF FreshEntry, KeyOK, HasSeen, HasOwn
<1> QED BY <1>1, <1>4, <1>6, <1>7, <1>8 DEF FreshInv

-----------------------------------------------------------------------------
\* When the servers start, nothing has been promised.
LEMMA InitFresh == Init => FreshInv
<1> SUFFICES ASSUME Init PROVE FreshInv
  OBVIOUS
<1>1. IInv
  BY InitIInv
<1>2. LogTimes
  <2>1. TrackedOnly => \A t \in Tx : tracked[t]
    BY DEF Init, LogInit
  <2>2. Never <= 0
    BY DEF Never
  <2> QED BY <2>1, <2>2, LogAssumption DEF Init, LogInit, LogTimes
<1>3. \A s \in Server : FloorOK(token[s], processed[s])
  BY DEF Init, CacheInit, FloorOK
<1>4. \A c \in Check : FreshRequest(req[c])
  <2>1. \A c \in Check : req[c] = NoRequest
    BY DEF Init, CacheInit
  <2>2. NoRequest.pc = "idle" /\ NoRequest.key = NoKey /\ NoRequest.floor = 0
        /\ NoRequest.reads = 0
    BY DEF NoRequest
  <2> QED BY <2>1, <2>2 DEF FreshRequest, KeyOK, FloorOK, NoKey
<1>5. \A s \in Server : DOMAIN cache[s] = {}
  BY DEF Init, CacheInit
<1> QED BY <1>1, <1>2, <1>3, <1>4, <1>5 DEF FreshInv

\* Every step keeps what is cached and what is read as fresh as it has to be.
LEMMA NextFresh == FreshInv /\ [Next]_vars => FreshInv'
<1> SUFFICES ASSUME FreshInv, [Next]_vars PROVE FreshInv'
  OBVIOUS
<1>1. IInv /\ LogTimes /\ IInv'
  BY Now, NextIInv
<1>2. \A c \in Check : At(c, "eval") => req[c].began <= now /\ now <= req[c].began + MaxEval
  BY Now DEF FreshRequest, At
<1>3. CASE LogStep /\ UNCHANGED cacheVars
  <2>1. LogTimes' /\ LogMoves /\ now' = now
    BY <1>1, <1>3, LogStepTimes
       DEF LogStep, WriteStep, WriteRow, CommitWrite, AbortWrite, RecordWrite, AnswerWrite,
           ReplicaApply, LoseNotifications, Cleanup
  <2> QED BY <1>1, <1>2, <1>3, <2>1, StepsOfLog DEF cacheVars
<1>4. ASSUME NEW s \in Server, HandleNotification(s) \/ Restart(s) PROVE FreshInv'
  BY <1>4, NotificationFresh, RestartFresh
<1>5. ASSUME NEW c \in Check, CheckStep(c) PROVE FreshInv'
  <2>1. ASSUME NEW s \in Server, BeginCheck(c, s) PROVE FreshInv'
    BY <2>1, BeginCheckFresh
  <2>2. ASSUME NEW s \in Server, NEW t \in Tx, BeginClientCheck(c, s, t) PROVE FreshInv'
    BY <2>2, BeginClientCheckFresh
  <2>3. CASE FetchLatestToken(c) \/ RefreshFromDB(c) \/ FetchFails(c)
    BY <2>3, RefreshFresh, FetchFailsFresh
  <2>4. CASE CacheGet(c) \/ Read(c) \/ CacheSet(c) \/ EvaluationFails(c)
    BY <2>4, CacheGetFresh, ReadFreshInv, CacheSetFresh, EvaluationFailsFresh
  <2> QED BY <1>5, <2>1, <2>2, <2>3, <2>4 DEF CheckStep
<1>6. ASSUME NEW s \in Server, NEW k \in DOMAIN cache[s], Evict(s, k) PROVE FreshInv'
  BY <1>6, EvictFresh
<1>7. CASE Tick
  <2>1. LogTimes' /\ LogMoves
    BY <1>1, <1>7, TickTimes
  <2>2. \A c \in Check : At(c, "eval") => now' <= req[c].began + MaxEval
    <3> SUFFICES ASSUME NEW c \in Check, At(c, "eval") PROVE now' <= req[c].began + MaxEval
      OBVIOUS
    <3>1. now < req[c].began + MaxEval /\ now' = now + 1
      BY <1>7 DEF Tick, LogTick
    <3>2. req[c].began \in Nat /\ now \in Nat
      BY <1>1, Now, Fields, Times
    <3> QED BY <3>1, <3>2, Durations
  <2> QED BY <1>1, <1>7, <2>1, <2>2, StepsOfLog DEF Tick, cacheVars
<1>8. CASE UNCHANGED vars
  <2>1. LogTimes' /\ LogMoves /\ now' = now
    BY <1>1, <1>8, Times DEF vars, logVars, cacheVars, LogTimes, WindowCovers, LogMoves
  <2> QED BY <1>1, <1>2, <1>8, <2>1, StepsOfLog DEF vars, cacheVars
<1> QED BY <1>3, <1>4, <1>5, <1>6, <1>7, <1>8 DEF Next

-----------------------------------------------------------------------------
\* Without a read replica, a check that took the token a notification had set
\* answers from a state that has the commit, for any number of servers, writes and
\* checks: the floor is the position of the write the token names.
THEOREM NotifiedServed == ~Replicated => (Spec => []ServesNotified)
<1> SUFFICES ASSUME ~Replicated PROVE Spec => []ServesNotified
  OBVIOUS
<1>1. ASSUME FreshInv PROVE ServesNotified
  <2> SUFFICES ASSUME NEW c \in Check, At(c, "done") PROVE req[c].floor <= req[c].seen
    BY DEF ServesNotified
  <2>1. FloorOK(req[c].key[2], req[c].floor) /\ req[c].seen \in Nat /\ req[c].floor \in Nat
    BY <1>1, Now, Fields DEF FreshRequest
  <2>2. Covers(req[c].key, req[c].seen)
    BY <1>1 DEF FreshInv, IInv, AnswersOK, Answering
  <2> QED BY <2>1, <2>2 DEF FloorOK, Covers, Promises
<1> QED BY InitFresh, NextFresh, <1>1, PTL DEF Spec

\* The steps that answer a request: a hit, and the end of an evaluation.
LEMMA Answers ==
    ASSUME FreshInv, Next, NEW c \in Check, ~At(c, "done"), req'[c].pc = "done"
    PROVE  \/ CacheSet(c)
           \/ /\ CacheGet(c)
              /\ req[c].key \in DOMAIN cache[req[c].server]
              /\ ~Expired(cache[req[c].server][req[c].key])
<1> DEFINE q == req[c]
<1>1. q \in Request /\ q.pc # "done" /\ req \in [Check -> Request] /\ NoRequest \in Request
  BY Now, RequestType DEF At, IInv, TypeOK
<1>2. req'[c] # q
  BY <1>1
<1>3. PICK d \in Check : CheckStep(d)
  <2>1. ASSUME NEW s \in Server, Restart(s) PROVE FALSE
    <3> DEFINE f == [q EXCEPT !.pc = "failed"]
    <3>1. f.pc = "failed"
      BY <1>1 DEF Request
    <3>2. req'[c] = q \/ req'[c] = f
      BY <2>1 DEF Restart
    <3> HIDE DEF f
    <3> QED BY <1>1, <3>1, <3>2
  <2> QED BY <1>2, <2>1 DEF Next, cacheVars, HandleNotification, Evict, Tick
<1>4. ASSUME NEW r, Goto(d, r) PROVE d = c /\ req'[c] = r
  BY <1>1, <1>2, <1>4 DEF Goto
<1>5. ASSUME NEW r, Goto(d, r), r.pc # "done" PROVE FALSE
  BY <1>4, <1>5
<1>6. ASSUME NEW s \in Server PROVE ~BeginCheck(d, s)
  <2> DEFINE r == [NoRequest EXCEPT !.server = s]
             f == [r EXCEPT !.pc = "fetch"]
             g == LookUp([r EXCEPT !.floor = processed[s]], <<"manager", token[s]>>)
  <2>1. BeginCheck(d, s) => Goto(d, f) \/ Goto(d, g)
    BY DEF BeginCheck
  <2>2. f.pc = "fetch" /\ g.pc = "get"
    BY DEF NoRequest, LookUp
  <2> HIDE DEF f, g
  <2> QED BY <1>5, <2>1, <2>2
<1>7. ASSUME NEW s \in Server, NEW t \in Tx PROVE ~BeginClientCheck(d, s, t)
  <2> DEFINE g == LookUp([NoRequest EXCEPT !.server = s], <<"client", id[t]>>)
  <2>1. BeginClientCheck(d, s, t) => Goto(d, g)
    BY DEF BeginClientCheck
  <2>2. g.pc = "get"
    BY DEF NoRequest, LookUp
  <2> HIDE DEF g
  <2> QED BY <1>5, <2>1, <2>2
<1>8. req[d] \in Request
  BY <1>1
<1>9. ~FetchLatestToken(d) /\ ~RefreshFromDB(d) /\ ~FetchFails(d) /\ ~EvaluationFails(d)
  <2> DEFINE r1 == [req[d] EXCEPT !.pc = "store", !.key = <<"manager", LatestId>>]
             r2 == LookUp(req[d], req[d].key)
             r3 == Evaluate(req[d])
             r4 == [NoRequest EXCEPT !.pc = "failed", !.server = req[d].server]
  <2>1. r1.pc = "store" /\ r2.pc = "get" /\ r3.pc = "eval" /\ r4.pc = "failed"
    BY <1>8 DEF Request, LookUp, Evaluate, NoRequest
  <2>2. /\ FetchLatestToken(d) => Goto(d, r1)
        /\ RefreshFromDB(d) => Goto(d, r2)
        /\ FetchFails(d) => Goto(d, r3)
        /\ EvaluationFails(d) => Goto(d, r4)
    BY DEF FetchLatestToken, RefreshFromDB, FetchFails, EvaluationFails
  <2> HIDE DEF r1, r2, r3, r4
  <2> QED BY <1>5, <2>1, <2>2
<1>10. ~Read(d)
  <2> DEFINE n == IF req[d].reads = 0 \/ ReadState(req[d].server) < req[d].seen
                  THEN ReadState(req[d].server) ELSE req[d].seen
             r == [req[d] EXCEPT !.reads = @ + 1, !.seen = n]
  <2>1. Read(d) => Goto(d, r) /\ req[d].pc = "eval"
    BY DEF Read, At
  <2>2. r.pc = req[d].pc
    BY <1>8 DEF Request
  <2> HIDE DEF r
  <2> QED BY <1>5, <2>1, <2>2
<1>11. CASE CacheSet(d)
  <2>1. d = c
    BY <1>4, <1>11 DEF CacheSet
  <2> QED BY <1>11, <2>1
<1>12. CASE CacheGet(d)
  <2> DEFINE s == req[d].server
             k == req[d].key
             hit == k \in DOMAIN cache[s] /\ ~Expired(cache[s][k])
             r == Evaluate(req[d])
  <2>1. r.pc = "eval"
    BY <1>8 DEF Evaluate, Request
  <2>2. hit
    <3>1. ~hit => Goto(d, r)
      BY <1>12 DEF CacheGet
    <3> HIDE DEF r, hit
    <3> QED BY <1>5, <2>1, <3>1
  <2>3. d = c
    BY <1>4, <1>12 DEF CacheGet
  <2> QED BY <1>12, <2>2, <2>3
<1> QED BY <1>3, <1>6, <1>7, <1>9, <1>10, <1>11, <1>12 DEF CheckStep

\* A step that answers a request answers it with what is fresh enough.
LEMMA AnswersFresh ==
    ASSUME FreshInv, Next, NEW c \in Check, NEW t \in Tx, ~At(c, "done"),
           req'[c].pc = "done", pos[t] > 0, commitAt[t] + StaleAfter < now
    PROVE  pos[t] <= req'[c].seen
<1> DEFINE q == req[c]
           s == q.server
           k == q.key
<1>1. IInv /\ q \in Request /\ FreshRequest(q) /\ req \in [Check -> Request]
  BY Now DEF IInv, TypeOK
<1>2. CASE CacheSet(c)
  <2> DEFINE r == [q EXCEPT !.pc = "done", !.began = 0]
  <2>1. Goto(c, r) /\ q.pc = "eval" /\ q.reads > 0 /\ r.seen = q.seen
    BY <1>1, <1>2 DEF CacheSet, At, Request
  <2>2. req'[c].seen = q.seen
    BY <1>1, <2>1 DEF Goto
  <2>3. HasSeen(q.seen, q.began - Lag) /\ now <= q.began + MaxEval
    BY <1>1, <2>1 DEF FreshRequest
  <2>4. q.began \in Nat
    BY <1>1, Fields
  <2>5. commitAt[t] < q.began - Lag
    BY <1>1, <2>3, <2>4, Times, Durations
  <2> QED BY <2>2, <2>3, <2>5 DEF HasSeen
<1>3. CASE CacheGet(c) /\ k \in DOMAIN cache[s] /\ ~Expired(cache[s][k])
  <2> DEFINE e == cache[s][k]
             h == [q EXCEPT !.pc = "done", !.seen = e.seen]
  <2>1. Goto(c, h) /\ q.pc = "get" /\ h.seen = e.seen
    BY <1>1, <1>3 DEF CacheGet, At, Request
  <2>2. req'[c].seen = e.seen
    BY <1>1, <2>1 DEF Goto
  <2>3. s \in Server
    BY <1>1, <2>1, Current
  <2>4. HasSeen(e.seen, e.expires - StaleAfter)
    BY <1>3, <2>3, Now DEF FreshEntry
  <2>5. e.expires \in Nat
    BY <1>1, <1>3, <2>3, Current DEF SoundCache, IsCache
  <2>6. now <= e.expires
    BY <1>1, <1>3, <2>5, Times DEF Expired
  <2>7. commitAt[t] < e.expires - StaleAfter
    BY <1>1, <2>5, <2>6, Times, Durations
  <2> QED BY <2>2, <2>4, <2>7 DEF HasSeen
<1> QED BY <1>2, <1>3, Answers

\* An answer has seen every commit that is older than an evaluation, the cacheTTL
\* and the lag of the replica together, whatever happens to tokens, notifications
\* and servers (Checker.Check, Cache.Get).
THEOREM StalenessIsBounded == Spec => StalenessBounded
<1>1. FreshInv /\ [Next]_vars
      => [\A c \in Check, t \in Tx :
             /\ ~At(c, "done") /\ req'[c].pc = "done"
             /\ pos[t] > 0 /\ commitAt[t] + StaleAfter < now
             => pos[t] <= req'[c].seen]_vars
  BY AnswersFresh
<1> QED BY InitFresh, NextFresh, <1>1, PTL DEF Spec, StalenessBounded

\* A client that asks the server of its own write about the token of that write is
\* answered from a state that has the write, if the window of the server outlasts
\* the lag of the replica and every write is recorded.
THEOREM OwnWritesRead == WindowCovers => (Spec => []ReadYourWrites)
<1> SUFFICES ASSUME WindowCovers PROVE Spec => []ReadYourWrites
  OBVIOUS
<1>1. ASSUME FreshInv PROVE ReadYourWrites
  <2>1. \A c \in Check : At(c, "done") => HasOwn(req[c].key, req[c].server, req[c].seen)
    BY <1>1, Now DEF FreshRequest, At
  <2> QED BY <2>1 DEF HasOwn, ReadYourWrites
<1> QED BY InitFresh, NextFresh, <1>1, PTL DEF Spec
=============================================================================
