--------------------------- MODULE MemoryCacheProofs ---------------------------
(***************************************************************************)
(* The list and the map of the cache agree, the cache implements the lossy  *)
(* store its users rely on, its size is exact and within the limit, and it  *)
(* evicts the least recently used entry and never the new one: for every    *)
(* set of keys, sizes, values and times to live and every limit.            *)
(***************************************************************************)
EXTENDS MemoryCache, SequenceTheorems, WellFoundedInduction, TLAPS

Elements(q) == {q[i] : i \in 1..Len(q)}

\* r is q without its element i.
Closing(r, q, i) ==
    /\ Len(r) = Len(q) - 1
    /\ \A j \in 1..Len(r) : r[j] = IF j < i THEN q[j] ELSE q[j + 1]

\* Where the elements of a list are when one has been taken out.
LEMMA UnlinkPlaces ==
    ASSUME NEW S, NEW q \in Seq(S), NEW k \in Elements(q)
    PROVE  /\ Unlink(q, k) \in Seq(S)
           /\ \E i \in 1..Len(q) : q[i] = k /\ Closing(Unlink(q, k), q, i)
<1> DEFINE i == PlaceOf(q, k)
           r == Unlink(q, k)
<1>1. i \in 1..Len(q) /\ q[i] = k
  <2>1. \E j \in 1..Len(q) : q[j] = k
    BY DEF Elements
  <2> QED BY <2>1 DEF PlaceOf
<1> HIDE DEF i
<1>2. /\ r \in Seq(S) /\ Len(r) = Len(q) - 1
      /\ \A j \in 1..Len(r) : r[j] = IF j < i THEN q[j] ELSE q[j + 1]
  <2> DEFINE u == SubSeq(q, 1, i - 1)
             v == SubSeq(q, i + 1, Len(q))
  <2>1. r = u \o v
    BY DEF Unlink, RemoveAt, i
  <2>2. u \in Seq(S) /\ Len(u) = i - 1 /\ \A j \in 1..(i - 1) : u[j] = q[j]
    BY <1>1, SubSeqProperties
  <2>3. v \in Seq(S) /\ Len(v) = Len(q) - i /\ \A j \in 1..(Len(q) - i) : v[j] = q[i + j]
    BY <1>1, SubSeqProperties
  <2> HIDE DEF u, v
  <2>4. r \in Seq(S) /\ Len(r) = Len(q) - 1
    BY <1>1, <2>1, <2>2, <2>3
  <2>5. ASSUME NEW j \in 1..Len(r) PROVE r[j] = IF j < i THEN q[j] ELSE q[j + 1]
    <3>1. CASE j < i
      BY <1>1, <2>1, <2>2, <2>3, <2>4, <3>1, ConcatProperties
    <3>2. CASE j >= i
      <4>1. j - (i - 1) \in 1..(Len(q) - i) /\ i + (j - (i - 1)) = j + 1
        BY <1>1, <2>4, <3>2
      <4>2. r[j] = v[j - (i - 1)]
        BY <1>1, <2>1, <2>2, <2>3, <2>4, <3>2, ConcatProperties
      <4>3. v[j - (i - 1)] = q[j + 1]
        BY <2>3, <4>1
      <4> QED BY <1>1, <3>2, <4>2, <4>3
    <3> QED BY <1>1, <3>1, <3>2
  <2> QED BY <2>4, <2>5
<1> HIDE DEF r
<1>3. Closing(r, q, i)
  BY <1>2 DEF Closing
<1> QED BY <1>1, <1>2, <1>3 DEF r

\* Taking one element out of a list without repetitions.
LEMMA UnlinkList ==
    ASSUME NEW S, NEW q \in Seq(S), Distinct(q), NEW k \in Elements(q)
    PROVE  /\ Unlink(q, k) \in Seq(S)
           /\ Distinct(Unlink(q, k))
           /\ Elements(Unlink(q, k)) = Elements(q) \ {k}
<1> DEFINE r == Unlink(q, k)
<1>0. r \in Seq(S) /\ \E i \in 1..Len(q) : q[i] = k /\ Closing(r, q, i)
  BY UnlinkPlaces
<1> HIDE DEF r
<1> PICK i \in 1..Len(q) : q[i] = k /\ Closing(r, q, i)
  BY <1>0
<1>1. i \in 1..Len(q) /\ q[i] = k
  OBVIOUS
<1>2. /\ r \in Seq(S) /\ Len(r) = Len(q) - 1
      /\ \A j \in 1..Len(r) : r[j] = IF j < i THEN q[j] ELSE q[j + 1]
  BY <1>0 DEF Closing
<1>3. Distinct(r)
  <2> SUFFICES ASSUME NEW x \in 1..Len(r), NEW y \in 1..Len(r), r[x] = r[y]
               PROVE  x = y
    BY DEF Distinct
  <2> DEFINE back(j) == IF j < i THEN j ELSE j + 1
  <2>1. back(x) \in 1..Len(q) /\ back(y) \in 1..Len(q)
    BY <1>1, <1>2
  <2>2. q[back(x)] = q[back(y)]
    BY <1>1, <1>2
  <2>3. back(x) = back(y)
    BY <2>1, <2>2 DEF Distinct
  <2> QED BY <1>1, <2>3
<1>4. Elements(r) = Elements(q) \ {k}
  <2>1. ASSUME NEW j \in 1..Len(r) PROVE r[j] \in Elements(q) \ {k}
    BY <1>1, <1>2 DEF Distinct, Elements
  <2>2. ASSUME NEW j \in 1..Len(q), j # i PROVE q[j] \in Elements(r)
    <3>1. CASE j < i
      <4>1. j \in 1..Len(r)
        BY <1>1, <1>2, <3>1
      <4>2. r[j] = q[j]
        BY <1>2, <3>1, <4>1
      <4> QED BY <4>1, <4>2 DEF Elements
    <3>2. CASE j > i
      <4>1. j - 1 \in 1..Len(r) /\ ~ (j - 1 < i) /\ (j - 1) + 1 = j
        BY <1>1, <1>2, <3>2
      <4>2. r[j - 1] = q[j]
        BY <1>2, <4>1
      <4> QED BY <4>1, <4>2 DEF Elements
    <3> QED BY <1>1, <2>2, <3>1, <3>2
  <2> QED BY <1>1, <2>1, <2>2 DEF Elements
<1> QED BY <1>2, <1>3, <1>4 DEF r

\* Putting a new element at the front.
LEMMA PushFront ==
    ASSUME NEW S, NEW q \in Seq(S), Distinct(q), NEW k \in S, k \notin Elements(q)
    PROVE  /\ <<k>> \o q \in Seq(S)
           /\ Distinct(<<k>> \o q)
           /\ Elements(<<k>> \o q) = Elements(q) \cup {k}
<1> DEFINE r == <<k>> \o q
<1>1. /\ r \in Seq(S) /\ Len(r) = Len(q) + 1
      /\ \A j \in 1..Len(r) : r[j] = IF j = 1 THEN k ELSE q[j - 1]
  OBVIOUS
<1> HIDE DEF r
<1>2. Distinct(r)
  <2> SUFFICES ASSUME NEW x \in 1..Len(r), NEW y \in 1..Len(r), r[x] = r[y]
               PROVE  x = y
    BY DEF Distinct
  <2>1. \A j \in 1..Len(r) : j # 1 => j - 1 \in 1..Len(q) /\ r[j] = q[j - 1] /\ r[j] # k
    <3> SUFFICES ASSUME NEW j \in 1..Len(r), j # 1
                 PROVE  j - 1 \in 1..Len(q) /\ r[j] = q[j - 1] /\ r[j] # k
      OBVIOUS
    <3>1. j - 1 \in 1..Len(q) /\ r[j] = q[j - 1]
      BY <1>1
    <3>2. q[j - 1] \in Elements(q)
      BY <3>1 DEF Elements
    <3> QED BY <3>1, <3>2
  <2>2. r[1] = k
    BY <1>1
  <2>3. CASE x # 1 /\ y # 1
    <3>1. x - 1 = y - 1
      BY <2>1, <2>3 DEF Distinct
    <3> QED BY <3>1
  <2> QED BY <2>1, <2>2, <2>3
<1>3. \A j \in 1..Len(q) : j + 1 \in 1..Len(r) /\ r[j + 1] = q[j]
  BY <1>1
<1>4. Elements(r) = Elements(q) \cup {k}
  <2>1. ASSUME NEW j \in 1..Len(r) PROVE r[j] \in Elements(q) \cup {k}
    <3>1. CASE j = 1
      BY <1>1, <3>1
    <3>2. CASE j # 1
      <4>1. j - 1 \in 1..Len(q) /\ r[j] = q[j - 1]
        BY <1>1, <3>2
      <4> QED BY <4>1 DEF Elements
    <3> QED BY <3>1, <3>2
  <2>2. k \in Elements(r)
    <3>1. 1 \in 1..Len(r) /\ r[1] = k
      BY <1>1
    <3> QED BY <3>1 DEF Elements
  <2>3. ASSUME NEW j \in 1..Len(q) PROVE q[j] \in Elements(r)
    BY <1>3 DEF Elements
  <2> QED BY <2>1, <2>2, <2>3 DEF Elements
<1> QED BY <1>1, <1>2, <1>4 DEF r

\* Moving an element of a list to the front.
LEMMA MoveToFrontList ==
    ASSUME NEW S, NEW q \in Seq(S), Distinct(q), NEW k \in Elements(q), k \in S
    PROVE  /\ MoveToFront(q, k) \in Seq(S)
           /\ Distinct(MoveToFront(q, k))
           /\ Elements(MoveToFront(q, k)) = Elements(q)
<1>1. /\ Unlink(q, k) \in Seq(S) /\ Distinct(Unlink(q, k))
      /\ Elements(Unlink(q, k)) = Elements(q) \ {k}
  BY UnlinkList
<1>2. k \notin Elements(Unlink(q, k))
  BY <1>1
<1> QED BY <1>1, <1>2, PushFront DEF MoveToFront

-----------------------------------------------------------------------------
Linked ==
    /\ now \in Nat
    /\ DOMAIN items \subseteq Key
    /\ \A k \in DOMAIN items : items[k] \in Entry
    /\ evictList \in Seq(Key)
    /\ Distinct(evictList)
    /\ Elements(evictList) = DOMAIN items
    /\ evicting => Len(evictList) > 0

\* removeElement takes one key out of both structures.
LEMMA RemoveElementLinked ==
    ASSUME Linked, NEW k \in DOMAIN items, removeElement(k)
    PROVE  /\ DOMAIN items' = DOMAIN items \ {k}
           /\ evictList' \in Seq(Key)
           /\ Distinct(evictList')
           /\ Elements(evictList') = DOMAIN items'
           /\ \A j \in DOMAIN items' : items'[j] \in Entry
BY UnlinkList DEF Linked, removeElement, Without

\* The structures agree at every instant, also in the middle of an eviction loop.
LEMMA LinkedInductive == Spec => []Linked
<1>1. Init => Linked
  BY DEF Init, Linked, Distinct, Elements
<1>2. Linked /\ [Next]_vars => Linked'
  <2> SUFFICES ASSUME Linked, [Next]_vars PROVE Linked'
    OBVIOUS
  <2>1. ASSUME NEW k \in Key, GetHit(k) PROVE Linked'
    <3>1. MoveToFront(evictList, k) \in Seq(Key) /\ Distinct(MoveToFront(evictList, k))
          /\ Elements(MoveToFront(evictList, k)) = Elements(evictList)
      BY <2>1, MoveToFrontList DEF GetHit, Linked
    <3> QED BY <2>1, <3>1 DEF GetHit, Linked
  <2>2. ASSUME NEW k \in Key, GetMiss(k) PROVE Linked'
    BY <2>2 DEF GetMiss, Linked
  <2>3. ASSUME NEW k \in Key, GetExpired(k) \/ Delete(k) PROVE Linked'
    <3>1. k \in DOMAIN items /\ removeElement(k) /\ UNCHANGED <<now, evicting>> /\ ~evicting
      BY <2>3 DEF GetExpired, Delete
    <3>2. /\ DOMAIN items' = DOMAIN items \ {k}
          /\ evictList' \in Seq(Key)
          /\ Distinct(evictList')
          /\ Elements(evictList') = DOMAIN items'
          /\ \A j \in DOMAIN items' : items'[j] \in Entry
      BY <3>1, RemoveElementLinked
    <3> QED BY <3>1, <3>2 DEF Linked
  <2>4. ASSUME NEW k \in Key, NEW v \in Value, NEW ttl \in TTL, SetExisting(k, v, ttl)
        PROVE  Linked'
    <3>1. MoveToFront(evictList, k) \in Seq(Key) /\ Distinct(MoveToFront(evictList, k))
          /\ Elements(MoveToFront(evictList, k)) = Elements(evictList)
      BY <2>4, MoveToFrontList DEF SetExisting, Linked
    <3>2. NewEntry(k, v, ttl) \in Entry
      BY CacheConstants DEF NewEntry, Entry, Linked
    <3>3. DOMAIN items' = DOMAIN items /\ \A j \in DOMAIN items' : items'[j] \in Entry
      BY <2>4, <3>2 DEF SetExisting, Linked
    <3> QED BY <2>4, <3>1, <3>3 DEF SetExisting, Linked
  <2>5. ASSUME NEW k \in Key, NEW v \in Value, NEW ttl \in TTL, SetNew(k, v, ttl)
        PROVE  Linked'
    <3>1. /\ evictList' \in Seq(Key) /\ Distinct(evictList')
          /\ Elements(evictList') = Elements(evictList) \cup {k}
      BY <2>5, PushFront DEF SetNew, Linked
    <3>2. DOMAIN items' = DOMAIN items \cup {k} /\ \A j \in DOMAIN items' : items'[j] \in Entry
      BY <2>5, CacheConstants DEF SetNew, With, NewEntry, Entry, Linked
    <3>3. evicting' => Len(evictList') > 0
      BY <2>5 DEF SetNew, OverCapacity
    <3> QED BY <2>5, <3>1, <3>2, <3>3 DEF SetNew, Linked
  <2>6. CASE EvictOldest
    <3>1. Last(evictList) \in DOMAIN items
      BY <2>6 DEF EvictOldest, Linked, Last, Elements
    <3>2. evicting' => Len(evictList') > 0
      BY <2>6 DEF EvictOldest, OverCapacity
    <3> QED BY <2>6, <3>1, <3>2, RemoveElementLinked DEF EvictOldest, Linked
  <2>7. CASE Clear
    <3>1. Len(<<>>) = 0 /\ <<>> \in Seq(Key) /\ DOMAIN items' = {}
      BY <2>7 DEF Clear
    <3>2. Distinct(<<>>) /\ Elements(<<>>) = {}
      BY <3>1 DEF Distinct, Elements
    <3> QED BY <2>7, <3>1, <3>2 DEF Clear, Linked
  <2>8. CASE Tick \/ UNCHANGED vars
    BY <2>8 DEF Tick, vars, Linked
  <2> QED BY <2>1, <2>2, <2>3, <2>4, <2>5, <2>6, <2>7, <2>8 DEF Next
<1> QED BY <1>1, <1>2, PTL DEF Spec

\* The map and the list of the cache never disagree.
THEOREM ListAndItemsAgree == Spec => []ListMatchesItems
<1>1. Linked => ListMatchesItems
  BY DEF Linked, ListMatchesItems, Elements
<1> QED BY <1>1, LinkedInductive, PTL

-----------------------------------------------------------------------------
\* The cache is a lossy store: every operation is an operation of the store, and
\* every eviction a loss.
THEOREM CacheImplementsStore == Spec => ImplementsStore
<1> DEFINE S == [k \in DOMAIN items |->
                    [value |-> items[k].value, expires |-> items[k].expires]]
<1>1. Init => Lossy!StoreInit
  BY DEF Init, Lossy!StoreInit, Lossy!Empty
<1>2. Linked /\ [Next]_vars => [Lossy!StoreNext]_(Lossy!storeVars)
  <2> SUFFICES ASSUME Linked, [Next]_vars PROVE [Lossy!StoreNext]_(Lossy!storeVars)
    OBVIOUS
  <2> USE DEF Lossy!StoreNext, Lossy!storeVars
  <2>1. ASSUME NEW k \in Key, GetHit(k) PROVE Lossy!Hit(k)
    <3>1. S[k] = [value |-> items[k].value, expires |-> items[k].expires] /\ S' = S
      BY <2>1 DEF GetHit
    <3>2. now <= items[k].expires
      BY <2>1 DEF GetHit, Expired, Linked, Entry
    <3> QED BY <2>1, <3>1, <3>2 DEF GetHit, Lossy!Hit
  <2>2. ASSUME NEW k \in Key, GetMiss(k) PROVE Lossy!MissAbsent(k)
    BY <2>2 DEF GetMiss, Lossy!MissAbsent
  <2>3. ASSUME NEW k \in DOMAIN items, removeElement(k) PROVE S' = Lossy!Without(S, k)
    BY <2>3 DEF removeElement, Without, Lossy!Without
  <2>4. ASSUME NEW k \in Key, GetExpired(k) PROVE Lossy!MissExpired(k)
    BY <2>3, <2>4 DEF GetExpired, Lossy!MissExpired, Expired
  <2>5. ASSUME NEW k \in Key, Delete(k) PROVE Lossy!Lose(k)
    BY <2>3, <2>5 DEF Delete, Lossy!Lose
  <2>6. ASSUME NEW k \in Key, NEW v \in Value, NEW ttl \in TTL,
               SetExisting(k, v, ttl) \/ SetNew(k, v, ttl)
        PROVE  Lossy!StoreSet(k, v, ttl)
    <3> DEFINE e == [value |-> v, expires |-> now + ttl]
    <3>1. /\ DOMAIN items' = DOMAIN items \cup {k}
          /\ \A j \in DOMAIN items' : items'[j] = IF j = k THEN NewEntry(k, v, ttl) ELSE items[j]
          /\ UNCHANGED <<now, answer>>
      BY <2>6 DEF SetExisting, SetNew, With
    <3>2. S' = [j \in DOMAIN S \cup {k} |-> IF j = k THEN e ELSE S[j]]
      BY <3>1 DEF NewEntry
    <3> QED BY <3>1, <3>2 DEF Lossy!StoreSet, Lossy!With
  <2>7. CASE EvictOldest
    <3>1. Last(evictList) \in DOMAIN items
      BY <2>7 DEF EvictOldest, Linked, Last, Elements
    <3>2. PICK k \in DOMAIN items : k = Last(evictList)
      BY <3>1
    <3>3. removeElement(k) /\ UNCHANGED <<now, answer>>
      BY <2>7, <3>2 DEF EvictOldest, removeElement
    <3>4. Lossy!Lose(k)
      BY <2>3, <3>3 DEF Lossy!Lose
    <3> QED BY <3>4 DEF Linked
  <2>8. CASE Clear
    BY <2>8 DEF Clear, Lossy!StoreClear, Lossy!Empty
  <2>9. CASE Tick
    BY <2>9 DEF Tick, Lossy!StoreTick
  <2>10. CASE UNCHANGED vars
    BY <2>10 DEF vars
  <2> QED BY <2>1, <2>2, <2>4, <2>5, <2>6, <2>7, <2>8, <2>9, <2>10 DEF Next
<1> QED BY <1>1, <1>2, LinkedInductive, PTL DEF Spec, ImplementsStore, Lossy!StoreSpec

-----------------------------------------------------------------------------
\* f adds up the sizes of the keys along the list q.
RunningSum(f, q) ==
    /\ f[0] = 0
    /\ \A i \in 1..Len(q) : f[i] = f[i - 1] + SizeOf[q[i]]

Ledger(q, n) == \E f \in [0..Len(q) -> Int] : RunningSum(f, q) /\ f[Len(q)] = n

LEMMA EmptyLedger == Ledger(<<>>, 0)
<1> DEFINE f == [i \in 0..0 |-> 0]
<1>1. f \in [0..Len(<<>>) -> Int] /\ RunningSum(f, <<>>) /\ f[Len(<<>>)] = 0
  BY DEF RunningSum
<1> QED BY <1>1 DEF Ledger

\* A key put at the front adds its size.
LEMMA PushLedger ==
    ASSUME NEW q \in Seq(Key), NEW n, Ledger(q, n), NEW k \in Key
    PROVE  Ledger(<<k>> \o q, n + SizeOf[k])
<1> DEFINE r == <<k>> \o q
           c == SizeOf[k]
<1>1. PICK f \in [0..Len(q) -> Int] : RunningSum(f, q) /\ f[Len(q)] = n
  BY DEF Ledger
<1>2. /\ r \in Seq(Key) /\ Len(r) = Len(q) + 1
      /\ \A j \in 1..Len(r) : r[j] = IF j = 1 THEN k ELSE q[j - 1]
  OBVIOUS
<1>3. c \in Int /\ Len(q) \in Nat
  BY CacheConstants
<1> HIDE DEF r, c
<1> DEFINE g == [j \in 0..Len(r) |-> IF j = 0 THEN 0 ELSE f[j - 1] + c]
<1>4. \A j \in 1..Len(r) : j - 1 \in 0..Len(q)
  BY <1>2, <1>3
<1>5. \A j \in 1..Len(r) : f[j - 1] \in Int
  BY <1>4
<1>6. g \in [0..Len(r) -> Int]
  BY <1>2, <1>3, <1>5
<1>7. g[0] = 0 /\ \A j \in 1..Len(r) : g[j] = f[j - 1] + c
  BY <1>2, <1>3
<1> HIDE DEF g
<1>8. ASSUME NEW j \in 1..Len(r) PROVE g[j] = g[j - 1] + SizeOf[r[j]]
  <2>1. CASE j = 1
    <3>1. f[0] = 0 /\ r[1] = k /\ j - 1 = 0
      BY <1>1, <1>2, <2>1 DEF RunningSum
    <3> QED BY <1>3, <1>7, <2>1, <3>1 DEF c
  <2>2. CASE j # 1
    <3>1. j - 1 \in 1..Len(q) /\ j - 1 \in 1..Len(r) /\ r[j] = q[j - 1]
      BY <1>2, <1>3, <2>2
    <3>2. f[j - 1] = f[(j - 1) - 1] + SizeOf[q[j - 1]]
      BY <1>1, <3>1 DEF RunningSum
    <3>3. q[j - 1] \in Key /\ f[(j - 1) - 1] \in Int
      BY <1>5, <3>1
    <3>4. SizeOf[q[j - 1]] \in Int
      BY <3>3, CacheConstants
    <3>5. g[j] = f[j - 1] + c /\ g[j - 1] = f[(j - 1) - 1] + c
      BY <1>7, <3>1
    <3> QED BY <1>3, <3>1, <3>2, <3>3, <3>4, <3>5
  <2> QED BY <2>1, <2>2
<1>9. g[Len(r)] = n + c
  BY <1>1, <1>2, <1>3, <1>7
<1> QED BY <1>6, <1>7, <1>8, <1>9 DEF Ledger, RunningSum, r, c

\* A key taken out gives its size back.
LEMMA UnlinkLedger ==
    ASSUME NEW q \in Seq(Key), NEW n, Ledger(q, n), NEW k \in Elements(q)
    PROVE  Ledger(Unlink(q, k), n - SizeOf[k])
<1> DEFINE r == Unlink(q, k)
           c == SizeOf[k]
<1>1. PICK f \in [0..Len(q) -> Int] : RunningSum(f, q) /\ f[Len(q)] = n
  BY DEF Ledger
<1>2. r \in Seq(Key) /\ \E i \in 1..Len(q) : q[i] = k /\ Closing(r, q, i)
  BY UnlinkPlaces
<1> HIDE DEF r
<1> PICK i \in 1..Len(q) : q[i] = k /\ Closing(r, q, i)
  BY <1>2
<1>3. /\ q[i] = k /\ Len(r) = Len(q) - 1 /\ Len(q) \in Nat
      /\ \A j \in 1..Len(r) : r[j] = IF j < i THEN q[j] ELSE q[j + 1]
  BY DEF Closing
<1>4. c \in Int /\ k \in Key
  BY <1>3, CacheConstants
<1>5. f[0] = 0 /\ f[i] = f[i - 1] + c
  BY <1>1, <1>3 DEF RunningSum
<1> HIDE DEF c
<1> DEFINE g == [j \in 0..Len(r) |-> IF j < i THEN f[j] ELSE f[j + 1] - c]
<1>6. \A j \in 0..Len(r) : j \in 0..Len(q) /\ j + 1 \in 0..Len(q)
  BY <1>3
<1>7. \A j \in 0..Len(r) : f[j] \in Int /\ f[j + 1] \in Int
  BY <1>6
<1>8. g \in [0..Len(r) -> Int]
  BY <1>4, <1>7
<1>9. \A j \in 0..Len(r) : g[j] = IF j < i THEN f[j] ELSE f[j + 1] - c
  OBVIOUS
<1> HIDE DEF g
<1>10. g[0] = 0
  BY <1>3, <1>5, <1>9
<1>11. ASSUME NEW j \in 1..Len(r) PROVE g[j] = g[j - 1] + SizeOf[r[j]]
  <2>1. /\ j \in 1..Len(q) /\ j + 1 \in 1..Len(q) /\ (j + 1) - 1 = j /\ (j - 1) + 1 = j
        /\ j - 1 \in 0..Len(r) /\ j \in 0..Len(r)
    BY <1>3
  <2>2. f[j] = f[j - 1] + SizeOf[q[j]] /\ f[j + 1] = f[j] + SizeOf[q[j + 1]]
    BY <1>1, <2>1 DEF RunningSum
  <2>3. /\ f[j] \in Int /\ f[j + 1] \in Int /\ f[j - 1] \in Int
        /\ q[j] \in Key /\ q[j + 1] \in Key
    <3>1. f[j] \in Int /\ f[j + 1] \in Int
      BY <1>7, <2>1
    <3>2. f[j - 1] \in Int
      BY <1>7, <2>1
    <3>3. q[j] \in Key
      BY <2>1
    <3>4. q[j + 1] \in Key
      BY <2>1
    <3> QED BY <3>1, <3>2, <3>3, <3>4
  <2>4. SizeOf[q[j]] \in Int /\ SizeOf[q[j + 1]] \in Int
    BY <2>3, CacheConstants
  <2>5. CASE j < i
    <3>1. g[j] = f[j] /\ g[j - 1] = f[j - 1] /\ r[j] = q[j]
      BY <1>3, <1>9, <2>1, <2>5
    <3> QED BY <2>2, <3>1
  <2>6. CASE j = i
    <3>1. g[j] = f[j + 1] - c /\ g[j - 1] = f[j - 1] /\ r[j] = q[j + 1]
      BY <1>3, <1>9, <2>1, <2>6
    <3>2. f[j] = f[j - 1] + c
      BY <1>5, <2>6
    <3>3. f[j + 1] - c = f[j - 1] + SizeOf[q[j + 1]]
      <4>1. \A x, y, z, s \in Int : x = y + s /\ y = z + c => x - c = z + s
        BY <1>4
      <4>2. f[j + 1] = f[j] + SizeOf[q[j + 1]]
        BY <2>2
      <4>3. f[j] = f[j - 1] + c
        BY <3>2
      <4>4. f[j + 1] \in Int /\ f[j] \in Int /\ f[j - 1] \in Int /\ SizeOf[q[j + 1]] \in Int
        BY <2>3, <2>4
      <4> QED BY <4>1, <4>2, <4>3, <4>4
    <3> QED BY <3>1, <3>3
  <2>7. CASE j > i
    <3>1. g[j] = f[j + 1] - c /\ r[j] = q[j + 1]
      BY <1>3, <1>9, <2>1, <2>7
    <3>2. g[j - 1] = f[(j - 1) + 1] - c
      BY <1>3, <1>9, <2>1, <2>7
    <3>3. f[j + 1] - c = (f[j] - c) + SizeOf[q[j + 1]]
      BY <1>4, <2>2, <2>3, <2>4
    <3> QED BY <2>1, <3>1, <3>2, <3>3
  <2> QED BY <2>5, <2>6, <2>7
<1>12. g[Len(r)] = n - c
  <2>1. Len(r) \in 0..Len(r) /\ Len(r) + 1 = Len(q)
    BY <1>3
  <2>2. CASE Len(r) < i
    <3>1. i = Len(q) /\ i - 1 = Len(r)
      BY <1>3, <2>1, <2>2
    <3>2. g[Len(r)] = f[i - 1] /\ f[i - 1] \in Int /\ f[i] = n
      BY <1>1, <1>7, <1>9, <2>1, <2>2, <3>1
    <3> QED BY <1>4, <1>5, <3>2
  <2>3. CASE ~ (Len(r) < i)
    BY <1>1, <1>9, <2>1, <2>3
  <2> QED BY <2>2, <2>3
<1> QED BY <1>8, <1>10, <1>11, <1>12 DEF Ledger, RunningSum, r, c

\* Only one function adds up the sizes along a list.
LEMMA OneLedger ==
    ASSUME NEW q \in Seq(Key), NEW f, NEW g, RunningSum(f, q), RunningSum(g, q)
    PROVE  f[Len(q)] = g[Len(q)]
<1> DEFINE Bad == {m \in 0..Len(q) : f[m] # g[m]}
<1>1. ASSUME Bad # {} PROVE FALSE
  <2>1. PICK m \in Bad : \A o \in Bad : ~ (<<o, m>> \in OpToRel(<, Nat))
    <3>1. Bad \subseteq Nat
      OBVIOUS
    <3> HIDE DEF Bad
    <3> QED BY <1>1, <3>1, NatLessThanWellFounded, WFMin
  <2>2. m # 0
    BY DEF RunningSum
  <2>3. m - 1 \in 0..Len(q) /\ m \in 1..Len(q) /\ m - 1 < m /\ m - 1 \in Nat /\ m \in Nat
    BY <2>2
  <2>4. f[m - 1] = g[m - 1]
    BY <2>1, <2>3 DEF OpToRel
  <2>5. f[m] = g[m]
    BY <2>3, <2>4 DEF RunningSum
  <2> QED BY <2>5
<1> QED BY <1>1

LEMMA LedgerOfNothing ==
    ASSUME NEW q \in Seq(Key), NEW n, Ledger(q, n), Len(q) = 0
    PROVE  n = 0
BY DEF Ledger, RunningSum

LEMMA LedgerOfOne ==
    ASSUME NEW q \in Seq(Key), NEW n, Len(q) = 1, Ledger(q, n)
    PROVE  n = SizeOf[q[1]]
<1>1. PICK f \in [0..Len(q) -> Int] : RunningSum(f, q) /\ f[Len(q)] = n
  BY DEF Ledger
<1>2. f[0] = 0 /\ f[1] = f[1 - 1] + SizeOf[q[1]]
  BY <1>1 DEF RunningSum
<1>3. q[1] \in Key
  <2>1. 1 \in 1..Len(q)
    OBVIOUS
  <2> QED BY <2>1, ElementOfSeq
<1>4. SizeOf[q[1]] \in Int
  BY <1>3, CacheConstants
<1> QED BY <1>1, <1>2, <1>4

-----------------------------------------------------------------------------
\* What currentSize is: the sum of the sizes of the entries, over the limit while
\* Set evicts and never else.
Sizes ==
    /\ currentSize \in Int
    /\ evicting \in BOOLEAN
    /\ \A k \in DOMAIN items : items[k].size = SizeOf[k]
    /\ Ledger(evictList, currentSize)
    /\ evicting <=> currentSize > MaxSize

LEMMA RemoveElementSizes ==
    ASSUME Linked, Sizes, NEW k \in DOMAIN items, removeElement(k)
    PROVE  /\ currentSize' \in Int
           /\ currentSize' < currentSize
           /\ \A j \in DOMAIN items' : items'[j].size = SizeOf[j]
           /\ Ledger(evictList', currentSize')
<1>1. items[k].size = SizeOf[k] /\ SizeOf[k] \in Nat \ {0}
  BY CacheConstants DEF Sizes, Linked
<1>2. currentSize' = currentSize - SizeOf[k] /\ evictList' = Unlink(evictList, k)
  BY <1>1 DEF removeElement
<1>3. Ledger(evictList', currentSize')
  BY <1>2, UnlinkLedger DEF Sizes, Linked
<1>4. \A j \in DOMAIN items' : items'[j].size = SizeOf[j]
  BY DEF removeElement, Without, Sizes
<1> QED BY <1>1, <1>2, <1>3, <1>4 DEF Sizes

\* Moving a key gives its size back and adds it again.
LEMMA MoveToFrontLedger ==
    ASSUME NEW q \in Seq(Key), NEW n \in Int, Ledger(q, n), NEW k \in Elements(q)
    PROVE  Ledger(MoveToFront(q, k), n)
<1>1. k \in Key
  BY DEF Elements
<1>2. SizeOf[k] \in Int
  BY <1>1, CacheConstants
<1>3. Unlink(q, k) \in Seq(Key) /\ Ledger(Unlink(q, k), n - SizeOf[k])
  BY UnlinkPlaces, UnlinkLedger
<1>4. Ledger(MoveToFront(q, k), (n - SizeOf[k]) + SizeOf[k])
  BY <1>1, <1>3, PushLedger DEF MoveToFront
<1>5. (n - SizeOf[k]) + SizeOf[k] = n
  BY <1>2
<1> QED BY <1>4, <1>5

LEMMA SizesKept ==
    ASSUME Linked, Sizes, [Next]_vars
    PROVE  Sizes'
<1>1. ASSUME NEW k \in Key, GetHit(k) PROVE Sizes'
  <2>1. Ledger(MoveToFront(evictList, k), currentSize)
    BY <1>1, MoveToFrontLedger DEF GetHit, Linked, Sizes
  <2> QED BY <1>1, <2>1 DEF GetHit, Sizes
<1>2. ASSUME NEW k \in Key, GetMiss(k) PROVE Sizes'
  BY <1>2 DEF GetMiss, Sizes
<1>3. ASSUME NEW k \in Key, GetExpired(k) \/ Delete(k) PROVE Sizes'
  <2>1. k \in DOMAIN items /\ removeElement(k) /\ UNCHANGED evicting /\ ~evicting
    BY <1>3 DEF GetExpired, Delete
  <2>2. /\ currentSize' \in Int
        /\ currentSize' < currentSize
        /\ \A j \in DOMAIN items' : items'[j].size = SizeOf[j]
        /\ Ledger(evictList', currentSize')
    BY <2>1, RemoveElementSizes
  <2>3. ~ (currentSize' > MaxSize)
    BY <2>1, <2>2, CacheConstants DEF Sizes
  <2> QED BY <2>1, <2>2, <2>3 DEF Sizes
<1>4. ASSUME NEW k \in Key, NEW v \in Value, NEW ttl \in TTL, SetExisting(k, v, ttl)
      PROVE  Sizes'
  <2>1. Ledger(MoveToFront(evictList, k), currentSize)
    BY <1>4, MoveToFrontLedger DEF SetExisting, Linked, Sizes
  <2>2. items[k].size = SizeOf[k] /\ SizeOf[k] \in Nat
    BY <1>4, CacheConstants DEF SetExisting, Sizes
  <2>3. currentSize' = currentSize
    BY <1>4, <2>2 DEF SetExisting, Sizes
  <2>4. \A j \in DOMAIN items' : items'[j].size = SizeOf[j]
    BY <1>4 DEF SetExisting, NewEntry, Sizes
  <2> QED BY <1>4, <2>1, <2>3, <2>4 DEF SetExisting, Sizes
<1>5. ASSUME NEW k \in Key, NEW v \in Value, NEW ttl \in TTL, SetNew(k, v, ttl)
      PROVE  Sizes'
  <2>1. SizeOf[k] \in Int
    BY CacheConstants
  <2>2. currentSize' = currentSize + SizeOf[k] /\ evictList' = <<k>> \o evictList
    BY <1>5 DEF SetNew
  <2>3. Ledger(evictList', currentSize') /\ currentSize' \in Int
    BY <2>1, <2>2, PushLedger DEF Sizes, Linked
  <2>4. Len(evictList') > 0
    BY <2>2 DEF Linked
  <2>5. \A j \in DOMAIN items' : items'[j].size = SizeOf[j]
    BY <1>5 DEF SetNew, With, NewEntry, Sizes
  <2>6. evicting' <=> currentSize' > MaxSize
    BY <1>5, <2>4 DEF SetNew, OverCapacity
  <2>7. evicting' \in BOOLEAN
    BY <1>5 DEF SetNew, OverCapacity
  <2> QED BY <2>3, <2>5, <2>6, <2>7 DEF Sizes
<1>6. CASE EvictOldest
  <2>1. Last(evictList) \in DOMAIN items
    BY <1>6 DEF EvictOldest, Linked, Last, Elements
  <2>2. /\ currentSize' \in Int
        /\ \A j \in DOMAIN items' : items'[j].size = SizeOf[j]
        /\ Ledger(evictList', currentSize')
    BY <1>6, <2>1, RemoveElementSizes DEF EvictOldest
  <2>3. evictList' \in Seq(Key)
    BY <1>6, <2>1, RemoveElementLinked DEF EvictOldest
  <2>4. Len(evictList') = 0 => currentSize' = 0
    BY <2>2, <2>3, LedgerOfNothing
  <2>5. evicting' <=> currentSize' > MaxSize
    <3>1. Len(evictList') \in Nat
      BY <2>3
    <3>2. evicting' <=> currentSize' > MaxSize /\ Len(evictList') > 0
      BY <1>6 DEF EvictOldest, OverCapacity
    <3>3. Len(evictList') = 0 => ~ (currentSize' > MaxSize)
      BY <2>4, CacheConstants
    <3> QED BY <3>1, <3>2, <3>3
  <2>6. evicting' \in BOOLEAN
    BY <1>6 DEF EvictOldest, OverCapacity
  <2> QED BY <2>2, <2>5, <2>6 DEF Sizes
<1>7. CASE Clear
  <2>1. Ledger(evictList', currentSize') /\ currentSize' = 0 /\ DOMAIN items' = {}
    BY <1>7, EmptyLedger DEF Clear
  <2>2. ~ (currentSize' > MaxSize)
    BY <2>1, CacheConstants
  <2> QED BY <1>7, <2>1, <2>2 DEF Clear, Sizes
<1>8. CASE Tick \/ UNCHANGED vars
  BY <1>8 DEF Tick, vars, Sizes
<1> QED BY <1>1, <1>2, <1>3, <1>4, <1>5, <1>6, <1>7, <1>8 DEF Next

LEMMA SizesInductive == Spec => [](Linked /\ Sizes)
<1>1. Init => Sizes
  <2> SUFFICES ASSUME Init PROVE Sizes
    OBVIOUS
  <2>1. Ledger(evictList, currentSize) /\ currentSize = 0 /\ DOMAIN items = {}
    BY EmptyLedger DEF Init
  <2>2. ~ (currentSize > MaxSize)
    BY <2>1, CacheConstants
  <2>3. evicting \in BOOLEAN /\ ~evicting
    BY DEF Init
  <2> QED BY <2>1, <2>2, <2>3 DEF Sizes
<1>2. Linked /\ Sizes /\ [Next]_vars => Sizes'
  BY SizesKept
<1> QED BY <1>1, <1>2, LinkedInductive, PTL DEF Spec

\* Whatever sequence of calls came before, currentSize is the sum of the sizes of
\* the entries in the list: no size is given back twice or never.
THEOREM SizeIsExact == Spec => []SizeExact
<1>1. ASSUME Linked, Sizes PROVE SizeExact
  <2> DEFINE q == evictList
             sums[i \in 0..Len(q)] ==
                IF i = 0 THEN 0 ELSE sums[i - 1] + items[q[i]].size
  <2>1. \A i \in 1..Len(q) : items[q[i]].size = SizeOf[q[i]]
    BY <1>1 DEF Linked, Sizes, Elements
  <2>2. PICK f \in [0..Len(q) -> Int] : RunningSum(f, q) /\ f[Len(q)] = currentSize
    BY <1>1 DEF Sizes, Ledger
  <2>3. f = [i \in 0..Len(q) |-> IF i = 0 THEN 0 ELSE f[i - 1] + items[q[i]].size]
    BY <1>1, <2>1, <2>2 DEF RunningSum, Linked
  <2>4. sums = [i \in 0..Len(q) |-> IF i = 0 THEN 0 ELSE sums[i - 1] + items[q[i]].size]
    BY <2>3
  <2> HIDE DEF sums
  <2>5. RunningSum(sums, q)
    <3>1. Len(q) \in Nat
      BY <1>1 DEF Linked
    <3>2. \A i \in 0..Len(q) :
             sums[i] = IF i = 0 THEN 0 ELSE sums[i - 1] + items[q[i]].size
      BY <2>4
    <3>3. sums[0] = 0
      BY <3>1, <3>2
    <3>4. ASSUME NEW i \in 1..Len(q) PROVE sums[i] = sums[i - 1] + SizeOf[q[i]]
      <4>1. i \in 0..Len(q) /\ i # 0
        BY <3>1
      <4> QED BY <2>1, <3>2, <4>1
    <3> QED BY <3>3, <3>4 DEF RunningSum
  <2>6. sums[Len(q)] = currentSize
    BY <1>1, <2>2, <2>5, OneLedger DEF Linked
  <2> QED BY <2>6 DEF SizeExact, sums
<1> QED BY <1>1, SizesInductive, PTL

\* Between two operations the entries fit the limit.
THEOREM LimitKept == Spec => []WithinLimit
<1>1. Sizes => WithinLimit
  BY CacheConstants DEF Sizes, WithinLimit
<1> QED BY <1>1, SizesInductive, PTL

-----------------------------------------------------------------------------
\* The list q is in the order u.
Descends(q, u) == \A i, j \in 1..Len(q) : i < j => <<q[i], q[j]>> \in u

\* The order of the uses u when k has been used.
AfterUse(u, k) ==
    {p \in u : k \notin {p[1], p[2]}} \cup ({k} \X (Key \ {k}))

Asymmetric(u) == \A a, b \in Key : ~ (<<a, b>> \in u /\ <<b, a>> \in u)

LEMMA UseOrder ==
    ASSUME NEW u \in SUBSET (Key \X Key), NEW k \in Key
    PROVE  /\ AfterUse(u, k) \in SUBSET (Key \X Key)
           /\ Asymmetric(u) => Asymmetric(AfterUse(u, k))
           /\ \A x, y \in Key \ {k} : <<x, y>> \in u => <<x, y>> \in AfterUse(u, k)
           /\ \A y \in Key \ {k} : <<k, y>> \in AfterUse(u, k)
           /\ \A x \in Key : <<x, k>> \notin AfterUse(u, k)
BY DEF AfterUse, Asymmetric

\* Taking an element out leaves the others in order.
LEMMA UnlinkDescends ==
    ASSUME NEW q \in Seq(Key), NEW u, Descends(q, u), NEW k \in Elements(q)
    PROVE  Descends(Unlink(q, k), u)
<1> DEFINE r == Unlink(q, k)
<1>1. \E i \in 1..Len(q) : q[i] = k /\ Closing(r, q, i)
  BY UnlinkPlaces
<1> HIDE DEF r
<1> PICK i \in 1..Len(q) : q[i] = k /\ Closing(r, q, i)
  BY <1>1
<1> DEFINE back(j) == IF j < i THEN j ELSE j + 1
<1>2. \A j \in 1..Len(r) : back(j) \in 1..Len(q) /\ r[j] = q[back(j)]
  BY DEF Closing
<1>3. ASSUME NEW x \in 1..Len(r), NEW y \in 1..Len(r), x < y PROVE back(x) < back(y)
  BY <1>3
<1> HIDE DEF back
<1>4. ASSUME NEW x \in 1..Len(r), NEW y \in 1..Len(r), x < y PROVE <<r[x], r[y]>> \in u
  BY <1>2, <1>3, <1>4 DEF Descends
<1> QED BY <1>4 DEF Descends, r

\* A key that is not in the list comes to the front when it is used.
LEMMA PushDescends ==
    ASSUME NEW q \in Seq(Key), NEW u \in SUBSET (Key \X Key), Descends(q, u),
           NEW k \in Key, k \notin Elements(q)
    PROVE  Descends(<<k>> \o q, AfterUse(u, k))
<1> DEFINE r == <<k>> \o q
<1>1. /\ Len(r) = Len(q) + 1 /\ Len(q) \in Nat
      /\ \A j \in 1..Len(r) : r[j] = IF j = 1 THEN k ELSE q[j - 1]
  OBVIOUS
<1> HIDE DEF r
<1>2. \A j \in 1..Len(q) : q[j] \in Key \ {k}
  BY ElementOfSeq DEF Elements
<1>3. ASSUME NEW x \in 1..Len(r), NEW y \in 1..Len(r), x < y
      PROVE  <<r[x], r[y]>> \in AfterUse(u, k)
  <2>1. y - 1 \in 1..Len(q) /\ r[y] = q[y - 1]
    BY <1>1, <1>3
  <2>2. q[y - 1] \in Key \ {k}
    BY <1>2, <2>1
  <2>3. CASE x = 1
    <3>1. r[x] = k
      BY <1>1, <2>3
    <3> QED BY <2>1, <2>2, <3>1, UseOrder
  <2>4. CASE x # 1
    <3>1. x - 1 \in 1..Len(q) /\ r[x] = q[x - 1] /\ x - 1 < y - 1
      BY <1>1, <1>3, <2>4
    <3>2. <<q[x - 1], q[y - 1]>> \in u
      BY <2>1, <3>1 DEF Descends
    <3>3. q[x - 1] \in Key \ {k}
      BY <1>2, <3>1
    <3> QED BY <2>1, <2>2, <3>1, <3>2, <3>3, UseOrder
  <2> QED BY <2>3, <2>4
<1> QED BY <1>3 DEF Descends, r

LEMMA MoveToFrontDescends ==
    ASSUME NEW q \in Seq(Key), Distinct(q), NEW u \in SUBSET (Key \X Key), Descends(q, u),
           NEW k \in Elements(q)
    PROVE  Descends(MoveToFront(q, k), AfterUse(u, k))
<1>1. k \in Key
  BY ElementOfSeq DEF Elements
<1>2. Unlink(q, k) \in Seq(Key) /\ Elements(Unlink(q, k)) = Elements(q) \ {k}
  BY UnlinkList
<1>3. Descends(Unlink(q, k), u)
  BY UnlinkDescends
<1> QED BY <1>1, <1>2, <1>3, PushDescends DEF MoveToFront

-----------------------------------------------------------------------------
\* The list is in the order of the uses, an order in which no two keys come one
\* after the other both ways, and the key that Set adds stays in the map.
Uses ==
    /\ used \in SUBSET (Key \X Key)
    /\ Asymmetric(used)
    /\ Descends(evictList, used)
    /\ evicting => \A k \in Key : LatestUsed(k) /\ SizeOf[k] <= MaxSize => k \in DOMAIN items

\* While Set evicts the list ends in another key than the latest used, unless that
\* key is alone and too large.
LEMMA LastIsNotLatest ==
    ASSUME Linked, Sizes, Uses, evicting, NEW k \in Key, LatestUsed(k), SizeOf[k] <= MaxSize
    PROVE  Last(evictList) # k
<1> DEFINE q == evictList
           n == Len(evictList)
<1>1. q \in Seq(Key) /\ n \in Nat /\ n > 0 /\ Last(q) = q[n]
  BY DEF Linked, Last
<1> SUFFICES ASSUME q[n] = k PROVE FALSE
  BY <1>1
<1>2. CASE n = 1
  <2>1. currentSize = SizeOf[k]
    BY <1>1, <1>2, LedgerOfOne DEF Sizes
  <2> QED BY <2>1, CacheConstants DEF Sizes
<1>3. CASE n # 1
  <2>1. 1 \in 1..n /\ n \in 1..n /\ 1 < n
    <3>1. n \in Nat /\ n > 0 /\ n # 1
      BY <1>1, <1>3
    <3> HIDE DEF n
    <3> QED BY <3>1
  <2>2. <<q[1], k>> \in used
    BY <2>1 DEF Uses, Descends
  <2>3. q[1] # k
    BY <2>1 DEF Linked, Distinct
  <2>4. q[1] \in Key
    BY <1>1, <2>1, ElementOfSeq
  <2>5. <<k, q[1]>> \in used
    BY <2>3, <2>4 DEF LatestUsed
  <2> QED BY <2>2, <2>4, <2>5 DEF Uses, Asymmetric
<1> QED BY <1>2, <1>3

LEMMA UsesKept ==
    ASSUME Linked, Sizes, Uses, [Next]_vars
    PROVE  Uses'
<1>1. ASSUME NEW k \in Key, evictList' = MoveToFront(evictList, k), k \in DOMAIN items,
             Using(k), UNCHANGED evicting, ~evicting
      PROVE  Uses'
  <2>1. used' = AfterUse(used, k)
    BY <1>1 DEF Using, AfterUse
  <2>2. used' \in SUBSET (Key \X Key) /\ Asymmetric(used')
    BY <2>1, UseOrder DEF Uses
  <2>3. Descends(evictList', used')
    BY <1>1, <2>1, MoveToFrontDescends DEF Linked, Uses
  <2> QED BY <1>1, <2>2, <2>3 DEF Uses
<1>2. ASSUME NEW k \in DOMAIN items, removeElement(k), UNCHANGED used PROVE Descends(evictList', used')
  BY <1>2, UnlinkDescends DEF removeElement, Linked, Uses
<1>3. ASSUME NEW k \in Key, GetHit(k) PROVE Uses'
  BY <1>1, <1>3 DEF GetHit
<1>4. ASSUME NEW k \in Key, GetMiss(k) PROVE Uses'
  BY <1>4 DEF GetMiss, Uses, LatestUsed
<1>5. ASSUME NEW k \in Key, GetExpired(k) \/ Delete(k) PROVE Uses'
  BY <1>2, <1>5 DEF GetExpired, Delete, Uses
<1>6. ASSUME NEW k \in Key, NEW v \in Value, NEW ttl \in TTL, SetExisting(k, v, ttl)
      PROVE  Uses'
  BY <1>1, <1>6 DEF SetExisting
<1>7. ASSUME NEW k \in Key, NEW v \in Value, NEW ttl \in TTL, SetNew(k, v, ttl)
      PROVE  Uses'
  <2>1. used' = AfterUse(used, k)
    BY <1>7 DEF SetNew, Using, AfterUse
  <2>2. used' \in SUBSET (Key \X Key) /\ Asymmetric(used')
    BY <2>1, UseOrder DEF Uses
  <2>3. Descends(evictList', used')
    BY <1>7, <2>1, PushDescends DEF SetNew, Linked, Uses
  <2>4. ASSUME NEW j \in Key, LatestUsed(j)' PROVE j \in DOMAIN items'
    <3>1. j = k
      <4> SUFFICES ASSUME j # k PROVE FALSE
        OBVIOUS
      <4>1. <<j, k>> \in used'
        BY <2>4 DEF LatestUsed
      <4> QED BY <2>1, <4>1, UseOrder DEF Uses
    <3> QED BY <1>7, <3>1 DEF SetNew, With
  <2> QED BY <2>2, <2>3, <2>4 DEF Uses
<1>8. CASE EvictOldest
  <2>1. Last(evictList) \in DOMAIN items /\ evicting /\ UNCHANGED used
    BY <1>8 DEF EvictOldest, Linked, Last, Elements
  <2>2. Descends(evictList', used')
    BY <1>2, <1>8, <2>1 DEF EvictOldest
  <2>3. ASSUME NEW k \in Key, LatestUsed(k)', SizeOf[k] <= MaxSize PROVE k \in DOMAIN items'
    <3>1. LatestUsed(k)
      BY <2>1, <2>3 DEF LatestUsed
    <3>2. k \in DOMAIN items /\ k # Last(evictList)
      BY <2>1, <2>3, <3>1, LastIsNotLatest DEF Uses
    <3> QED BY <1>8, <3>2 DEF EvictOldest, removeElement, Without
  <2> QED BY <2>1, <2>2, <2>3 DEF Uses
<1>9. CASE Clear
  <2>1. Descends(<<>>, used)
    BY DEF Descends
  <2> QED BY <1>9, <2>1 DEF Clear, Uses
<1>10. CASE Tick \/ UNCHANGED vars
  BY <1>10 DEF Tick, vars, Uses, LatestUsed
<1> QED BY <1>3, <1>4, <1>5, <1>6, <1>7, <1>8, <1>9, <1>10 DEF Next

LEMMA UsesInductive == Spec => [](Linked /\ Sizes /\ Uses)
<1>1. Init => Uses
  BY DEF Init, Uses, Descends, Asymmetric
<1>2. Linked /\ Sizes /\ Uses /\ [Next]_vars => Uses'
  BY UsesKept
<1> QED BY <1>1, <1>2, SizesInductive, PTL DEF Spec

\* What the eviction loop takes is the least recently used entry, after any
\* sequence of hits, overwritings, expiries and deletions.
THEOREM EvictionOrder == Spec => []LeastRecentlyUsed
<1>1. Uses => LeastRecentlyUsed
  BY DEF Uses, Descends, LeastRecentlyUsed
<1> QED BY <1>1, UsesInductive, PTL

\* Set never evicts the entry that it has just added unless that entry alone is
\* over the limit.
THEOREM NewEntryKept == Spec => NewEntryStays
<1> DEFINE Stays ==
      \A k \in Key : evicting /\ LatestUsed(k) /\ SizeOf[k] <= MaxSize => k \in DOMAIN items'
<1>1. ASSUME Linked, Sizes, Uses, [Next]_vars PROVE [Stays]_vars
  <2> SUFFICES ASSUME NEW k \in Key, evicting, LatestUsed(k), SizeOf[k] <= MaxSize, Next
               PROVE  k \in DOMAIN items'
    BY <1>1
  <2>1. k \in DOMAIN items
    BY <1>1 DEF Uses
  <2>2. EvictOldest \/ Tick
    BY DEF Next, GetHit, GetMiss, GetExpired, Delete, SetExisting, SetNew, Clear
  <2>3. CASE EvictOldest
    BY <1>1, <2>1, <2>3, LastIsNotLatest DEF EvictOldest, removeElement, Without
  <2>4. CASE Tick
    BY <2>1, <2>4 DEF Tick
  <2> QED BY <2>2, <2>3, <2>4
<1> QED BY <1>1, UsesInductive, PTL DEF Spec, NewEntryStays

\* Every variable keeps its type: a hit answers with a value that was set.
THEOREM TypeCorrect == Spec => []TypeOK
<1> DEFINE Answered == answer \in Value \cup {Miss}
<1>1. Init => Answered
  BY DEF Init
<1>2. Linked /\ Answered /\ [Next]_vars => Answered'
  BY DEF Next, GetHit, GetMiss, GetExpired, Delete, SetExisting, SetNew, EvictOldest, Clear,
         Tick, vars, Linked, Entry
<1>3. Linked /\ Sizes /\ Uses /\ Answered => TypeOK
  BY DEF Linked, Sizes, Uses, TypeOK
<1> QED BY <1>1, <1>2, <1>3, UsesInductive, PTL DEF Spec
=============================================================================
