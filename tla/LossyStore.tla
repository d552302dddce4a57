------------------------------ MODULE LossyStore ------------------------------
(***************************************************************************)
(* What users of pkg/cache.Cache may rely on: a store that answers with the *)
(* value that was last set for the key, while that value has not expired,   *)
(* and that may lose entries at any time.  The interface file cache.go has  *)
(* these operations; which entries get lost, and when, is left open.        *)
(***************************************************************************)
EXTENDS Naturals

CONSTANTS
    Key,
    Value,
    TTL,    \* times to live clients pass to Set
    Miss    \* the answer (nil, false)

VARIABLES
    now,
    store,  \* the entries: a value and the last instant at which it is valid
    answer  \* what the last Get returned

storeVars == <<now, store, answer>>

Empty == [k \in {} |-> 0]

Without(S, k) == [j \in DOMAIN S \ {k} |-> S[j]]

With(S, k, e) == [j \in DOMAIN S \cup {k} |-> IF j = k THEN e ELSE S[j]]

StoreInit == now = 0 /\ store = Empty /\ answer = Miss

Hit(k) ==
    /\ k \in DOMAIN store
    /\ now <= store[k].expires
    /\ answer' = store[k].value
    /\ UNCHANGED <<now, store>>

MissAbsent(k) ==
    /\ k \notin DOMAIN store
    /\ answer' = Miss
    /\ UNCHANGED <<now, store>>

MissExpired(k) ==
    /\ k \in DOMAIN store
    /\ now > store[k].expires
    /\ answer' = Miss
    /\ store' = Without(store, k)
    /\ UNCHANGED now

StoreSet(k, v, ttl) ==
    /\ store' = With(store, k, [value |-> v, expires |-> now + ttl])
    /\ UNCHANGED <<now, answer>>

Lose(k) ==
    /\ k \in DOMAIN store
    /\ store' = Without(store, k)
    /\ UNCHANGED <<now, answer>>

StoreClear == store' = Empty /\ UNCHANGED <<now, answer>>

StoreTick == now' = now + 1 /\ UNCHANGED <<store, answer>>

StoreNext ==
    \/ \E k \in Key : Hit(k) \/ MissAbsent(k) \/ MissExpired(k) \/ Lose(k)
    \/ \E k \in Key, v \in Value, ttl \in TTL : StoreSet(k, v, ttl)
    \/ StoreClear
    \/ StoreTick

StoreSpec == StoreInit /\ [][StoreNext]_storeVars
=============================================================================
