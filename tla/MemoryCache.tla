------------------------------ MODULE MemoryCache ------------------------------
(***************************************************************************)
(* The LRU cache with expiry of pkg/cache/memorycache.                      *)
(*                                                                         *)
(* Every operation runs under the mutex c.mu.  The eviction loop of Set is  *)
(* one EvictOldest step per iteration: the mutex stays held (evicting), so  *)
(* no other operation comes between.  The counters of the metrics are left  *)
(* out.                                                                    *)
(***************************************************************************)
EXTENDS Integers, Sequences, SequencesExt

CONSTANTS
    Key,
    Value,
    TTL,      \* times to live clients pass to Set
    Miss,     \* the answer (nil, false)
    SizeOf,   \* per key: 100 + len(key), in some unit
    MaxSize,  \* maxSize
    MaxTime   \* bound on the clock

ASSUME CacheConstants ==
    /\ TTL \subseteq Nat
    /\ Miss \notin Value
    /\ SizeOf \in [Key -> Nat \ {0}]
    /\ MaxSize \in Nat \ {0}
    /\ MaxTime \in Nat

VARIABLES
    now,
    items,        \* the entries by key
    evictList,    \* their keys, the most recently used first
    currentSize,
    evicting,     \* Set is in its eviction loop
    answer,       \* what the last Get returned
    used          \* the pairs of keys the first of which was used later (history)

vars == <<now, items, evictList, currentSize, evicting, answer, used>>

Entry == [value : Value, expires : Nat, size : Nat]

Without(S, k) == [j \in DOMAIN S \ {k} |-> S[j]]

With(S, k, e) == [j \in DOMAIN S \cup {k} |-> IF j = k THEN e ELSE S[j]]

\* The element that items[k] points to.
PlaceOf(q, k) == CHOOSE i \in 1..Len(q) : q[i] = k

Unlink(q, k) == RemoveAt(q, PlaceOf(q, k))

MoveToFront(q, k) == <<k>> \o Unlink(q, k)

\* The history: k is the latest key used.
Using(k) ==
    used' = {p \in used : k \notin {p[1], p[2]}} \cup ({k} \X (Key \ {k}))

Init ==
    /\ now = 0
    /\ items = [k \in {} |-> 0]
    /\ evictList = <<>>
    /\ currentSize = 0
    /\ evicting = FALSE
    /\ answer = Miss
    /\ used = {}

-----------------------------------------------------------------------------
\* Mutant: the element stays in the list.
removeElementFromMapOnly(k) ==
    /\ items' = Without(items, k)
    /\ currentSize' = currentSize - items[k].size
    /\ UNCHANGED evictList

\* Mutant: the size of the entry is not given back.
removeElementKeepingSize(k) ==
    /\ evictList' = Unlink(evictList, k)
    /\ items' = Without(items, k)
    /\ UNCHANGED currentSize

removeElement(k) ==
    /\ evictList' = Unlink(evictList, k)
    /\ items' = Without(items, k)
    /\ currentSize' = currentSize - items[k].size

\* Mutant: an entry expires at the last instant of its life.
ExpiredAtTheInstant(k) == now >= items[k].expires

Expired(k) == now > items[k].expires

\* Mutant: the answer is the list element and not its value.
GetHitAnsweringEntry(k) ==
    /\ ~evicting
    /\ k \in DOMAIN items
    /\ ~Expired(k)
    /\ answer' = items[k]
    /\ evictList' = MoveToFront(evictList, k)
    /\ Using(k)
    /\ UNCHANGED <<now, items, currentSize, evicting>>

\* Mutant: a hit does not count as a use.
GetHitInPlace(k) ==
    /\ ~evicting
    /\ k \in DOMAIN items
    /\ ~Expired(k)
    /\ answer' = items[k].value
    /\ Using(k)
    /\ UNCHANGED <<now, items, evictList, currentSize, evicting>>

GetHit(k) ==
    /\ ~evicting
    /\ k \in DOMAIN items
    /\ ~Expired(k)
    /\ answer' = items[k].value
    /\ evictList' = MoveToFront(evictList, k)
    /\ Using(k)
    /\ UNCHANGED <<now, items, currentSize, evicting>>

GetMiss(k) ==
    /\ ~evicting
    /\ k \notin DOMAIN items
    /\ answer' = Miss
    /\ UNCHANGED <<now, items, evictList, currentSize, evicting, used>>

GetExpired(k) ==
    /\ ~evicting
    /\ k \in DOMAIN items
    /\ Expired(k)
    /\ answer' = Miss
    /\ removeElement(k)
    /\ UNCHANGED <<now, evicting, used>>

NewEntry(k, v, ttl) == [value |-> v, expires |-> now + ttl, size |-> SizeOf[k]]

\* Set on a key that is there: no eviction follows.
SetExisting(k, v, ttl) ==
    /\ ~evicting
    /\ k \in DOMAIN items
    /\ items' = [items EXCEPT ![k] = NewEntry(k, v, ttl)]
    /\ currentSize' = currentSize + (SizeOf[k] - items[k].size)
    /\ evictList' = MoveToFront(evictList, k)
    /\ Using(k)
    /\ UNCHANGED <<now, evicting, answer>>

\* Mutant: one entry too many is tolerated.
OverCapacityByTwo == currentSize > MaxSize /\ Len(evictList) > 2

OverCapacity == currentSize > MaxSize /\ Len(evictList) > 0

SetNew(k, v, ttl) ==
    /\ ~evicting
    /\ k \notin DOMAIN items
    /\ items' = With(items, k, NewEntry(k, v, ttl))
    /\ currentSize' = currentSize + SizeOf[k]
    /\ evictList' = <<k>> \o evictList
    /\ Using(k)
    /\ evicting' = OverCapacity'
    /\ UNCHANGED <<now, answer>>

\* Mutant: the loop takes the front of the list.
EvictNewest ==
    /\ evicting
    /\ removeElement(Head(evictList))
    /\ evicting' = OverCapacity'
    /\ UNCHANGED <<now, answer, used>>

EvictOldest ==
    /\ evicting
    /\ removeElement(Last(evictList))
    /\ evicting' = OverCapacity'
    /\ UNCHANGED <<now, answer, used>>

Delete(k) ==
    /\ ~evicting
    /\ k \in DOMAIN items
    /\ removeElement(k)
    /\ UNCHANGED <<now, evicting, answer, used>>

Clear ==
    /\ ~evicting
    /\ items' = [k \in {} |-> 0]
    /\ evictList' = <<>>
    /\ currentSize' = 0
    /\ UNCHANGED <<now, evicting, answer, used>>

Tick ==
    /\ now < MaxTime
    /\ now' = now + 1
    /\ UNCHANGED <<items, evictList, currentSize, evicting, answer, used>>

Next ==
    \/ \E k \in Key : GetHit(k) \/ GetMiss(k) \/ GetExpired(k) \/ Delete(k)
    \/ \E k \in Key, v \in Value, ttl \in TTL : SetExisting(k, v, ttl) \/ SetNew(k, v, ttl)
    \/ EvictOldest
    \/ Clear
    \/ Tick

Spec == Init /\ [][Next]_vars

-----------------------------------------------------------------------------
TypeOK ==
    /\ now \in Nat
    /\ DOMAIN items \subseteq Key
    /\ \A k \in DOMAIN items : items[k] \in Entry
    /\ evictList \in Seq(Key)
    /\ currentSize \in Int
    /\ evicting \in BOOLEAN
    /\ answer \in Value \cup {Miss}
    /\ used \subseteq Key \X Key

Distinct(q) == \A i, j \in 1..Len(q) : q[i] = q[j] => i = j

\* The map and the list hold the same keys, each once: no element is left in the
\* list that Delete or Get could not find, whatever sequence of calls came before.
ListMatchesItems ==
    /\ Distinct(evictList)
    /\ {evictList[i] : i \in 1..Len(evictList)} = DOMAIN items

\* currentSize never drifts from the sizes of the entries.
SizeExact ==
    LET sums[i \in 0..Len(evictList)] ==
            IF i = 0 THEN 0 ELSE sums[i - 1] + items[evictList[i]].size
    IN  currentSize = sums[Len(evictList)]

\* Between operations the cache is within its limit, although overwriting an
\* entry evicts nothing.
WithinLimit == ~evicting => currentSize <= MaxSize

\* The list is in order of the last use, so that what EvictOldest takes is the
\* least recently used entry, also after expiries, deletions and overwriting.
LeastRecentlyUsed ==
    \A i, j \in 1..Len(evictList) : i < j => <<evictList[i], evictList[j]>> \in used

LatestUsed(k) == \A j \in Key \ {k} : <<k, j>> \in used

\* Set never evicts the entry that it has just added, unless that entry alone is
\* over the limit: the loop takes the other end of the list.
NewEntryStays ==
    [][\A k \in Key :
          evicting /\ LatestUsed(k) /\ SizeOf[k] <= MaxSize => k \in DOMAIN items']_vars

-----------------------------------------------------------------------------
Lossy == INSTANCE LossyStore
            WITH store <- [k \in DOMAIN items |->
                              [value |-> items[k].value, expires |-> items[k].expires]]

\* The cache keeps the promise of its interface: a hit is the value last set and
\* not expired, an entry once expired, deleted or evicted never comes back.
ImplementsStore == Lossy!StoreSpec
=============================================================================
