------------------------------ MODULE CheckCache ------------------------------
(***************************************************************************)
(* The cached permission checks of Checker.Check on several servers, over   *)
(* the write log of a tenant.                                               *)
(*                                                                         *)
(* All requests ask the same question of the same schema version, so a      *)
(* cache key is only the snapshot token: the SnapshotManager's, or the one  *)
(* a client sends back from its write.  Instead of allowed or denied an     *)
(* answer is the oldest state of the database its evaluation read.          *)
(***************************************************************************)
EXTENDS WriteLog

CONSTANTS
    Check,        \* requests
    RefreshTTL,   \* refreshTTL of the SnapshotManager
    CacheTTL,     \* cacheTTL of the Checker
    MaxReads,     \* bound: repository reads of one evaluation
    MaxEval,      \* bound: how long an evaluation takes
    MaxRestarts   \* bound: restarts of servers

ASSUME CacheAssumption ==
    /\ RefreshTTL \in Nat
    /\ CacheTTL \in Nat
    /\ MaxReads \in Nat \ {0}
    /\ MaxEval \in Nat
    /\ MaxRestarts \in Nat

VARIABLES
    token,        \* per server: currentToken, an id or 0 for the empty token
    lastRefresh,  \* per server: lastRefresh
    processed,    \* per server: the commit whose NOTIFY set the token (history),
                  \* 0 if a refresh or a restart did
    cache,        \* per server: the entries of the check cache
    req,          \* per request: where it is and what it holds
    restarts      \* restarts so far

cacheVars == <<token, lastRefresh, processed, cache, req, restarts>>

vars == <<logVars, cacheVars>>

\* A token of the SnapshotManager has equal halves, a write token has not.
Key == {"manager", "client"} \X Nat

NoKey == <<"none", 0>>

NoRequest == [pc |-> "idle", server |-> "", key |-> NoKey, seen |-> 0, reads |-> 0,
              began |-> 0, floor |-> 0]

CacheInit ==
    /\ token = [s \in Server |-> BaseId]
    /\ lastRefresh = [s \in Server |-> 0]
    /\ processed = [s \in Server |-> 0]
    /\ cache = [s \in Server |-> [k \in {} |-> 0]]
    /\ req = [c \in Check |-> NoRequest]
    /\ restarts = 0

Init == LogInit /\ CacheInit

-----------------------------------------------------------------------------
\* Mutant: only the time of the refresh is updated.
HandleNotificationWithoutToken(s) ==
    /\ queue[s] # <<>>
    /\ queue' = [queue EXCEPT ![s] = Tail(@)]
    /\ lastRefresh' = [lastRefresh EXCEPT ![s] = now]
    /\ processed' = [processed EXCEPT ![s] = pos[Head(queue[s])]]
    /\ UNCHANGED <<now, status, origin, tracked, id, pos, commitAt, nextId, commits,
                   applied, recorded, token, cache, req, restarts>>

\* handleNotifications: the token is overwritten, whatever it was.
HandleNotification(s) ==
    /\ queue[s] # <<>>
    /\ queue' = [queue EXCEPT ![s] = Tail(@)]
    /\ token' = [token EXCEPT ![s] = id[Head(queue[s])]]
    /\ lastRefresh' = [lastRefresh EXCEPT ![s] = now]
    /\ processed' = [processed EXCEPT ![s] = pos[Head(queue[s])]]
    /\ UNCHANGED <<now, status, origin, tracked, id, pos, commitAt, nextId, commits,
                   applied, recorded, cache, req, restarts>>

\* A server comes back with an empty memory and Start fetches the token.  What
\* it was evaluating is lost.
Restart(s) ==
    /\ restarts < MaxRestarts
    /\ restarts' = restarts + 1
    /\ token' = [token EXCEPT ![s] = LatestId]
    /\ lastRefresh' = [lastRefresh EXCEPT ![s] = now]
    /\ processed' = [processed EXCEPT ![s] = 0]
    /\ cache' = [cache EXCEPT ![s] = [k \in {} |-> 0]]
    /\ queue' = [queue EXCEPT ![s] = <<>>]
    /\ recorded' = [recorded EXCEPT ![s] = Never]
    /\ req' = [c \in Check |-> IF req[c].server = s /\ req[c].pc # "done"
                               THEN [req[c] EXCEPT !.pc = "failed"]
                               ELSE req[c]]
    /\ UNCHANGED <<now, status, origin, tracked, id, pos, commitAt, nextId, commits,
                   applied>>

-----------------------------------------------------------------------------
\* Every action of a request changes req[c] and leaves the log alone.
Goto(c, r) == req' = [req EXCEPT ![c] = r]

At(c, pc) == req[c].pc = pc

LookUp(r, k) == [r EXCEPT !.pc = "get", !.key = k]

Evaluate(r) == [r EXCEPT !.pc = "eval", !.began = now]

\* GetCurrentToken under the read lock.
BeginCheck(c, s) ==
    /\ At(c, "idle")
    /\ LET r == [NoRequest EXCEPT !.server = s]
       IN  IF now - lastRefresh[s] > RefreshTTL \/ token[s] = 0
           THEN Goto(c, [r EXCEPT !.pc = "fetch"])
           ELSE Goto(c, LookUp([r EXCEPT !.floor = processed[s]], <<"manager", token[s]>>))
    /\ UNCHANGED <<logVars, token, lastRefresh, processed, cache, restarts>>

\* The client sends the token of its own finished write.
BeginClientCheck(c, s, t) ==
    /\ At(c, "idle")
    /\ status[t] = "answered"
    /\ Goto(c, LookUp([NoRequest EXCEPT !.server = s], <<"client", id[t]>>))
    /\ UNCHANGED <<logVars, token, lastRefresh, processed, cache, restarts>>

\* refreshFromDB: the query on the primary, without the lock ...
FetchLatestToken(c) ==
    /\ At(c, "fetch")
    /\ Goto(c, [req[c] EXCEPT !.pc = "store", !.key = <<"manager", LatestId>>])
    /\ UNCHANGED <<logVars, token, lastRefresh, processed, cache, restarts>>

\* ... then the overwriting of the token under it; the request goes on with the
\* token it fetched.
RefreshFromDB(c) ==
    /\ At(c, "store")
    /\ LET s == req[c].server
       IN  /\ token' = [token EXCEPT ![s] = req[c].key[2]]
           /\ lastRefresh' = [lastRefresh EXCEPT ![s] = now]
           /\ processed' = [processed EXCEPT ![s] = 0]
    /\ Goto(c, LookUp(req[c], req[c].key))
    /\ UNCHANGED <<logVars, cache, restarts>>

\* The query failed: the check goes on without the cache.
FetchFails(c) ==
    /\ At(c, "fetch")
    /\ Goto(c, Evaluate(req[c]))
    /\ UNCHANGED <<logVars, token, lastRefresh, processed, cache, restarts>>

Drop(C, k) == [j \in DOMAIN C \ {k} |-> C[j]]

Put(C, k, e) == [j \in DOMAIN C \cup {k} |-> IF j = k THEN e ELSE C[j]]

\* Mutant: entries never expire.
NeverExpired(e) == FALSE

Expired(e) == now > e.expires

\* Cache.Get: a hit answers the request, an expired entry is removed.
CacheGet(c) ==
    LET s == req[c].server
        k == req[c].key
        hit == k \in DOMAIN cache[s] /\ ~Expired(cache[s][k])
    IN  /\ At(c, "get")
        /\ Goto(c, IF hit THEN [req[c] EXCEPT !.pc = "done", !.seen = cache[s][k].seen]
                          ELSE Evaluate(req[c]))
        /\ cache' = IF hit THEN cache ELSE [cache EXCEPT ![s] = Drop(@, k)]
        /\ UNCHANGED <<logVars, token, lastRefresh, processed, restarts>>

\* One read of the evaluator: ReaderFor is asked anew for each.
Read(c) ==
    LET r == req[c]
        state == ReadState(r.server)
    IN  /\ At(c, "eval")
        /\ r.reads < MaxReads
        /\ Goto(c, [r EXCEPT !.reads = @ + 1,
                             !.seen = IF r.reads = 0 \/ state < r.seen THEN state ELSE r.seen])
        /\ UNCHANGED <<logVars, token, lastRefresh, processed, cache, restarts>>

\* Mutant: the answer is filed under the token of the moment, not under the one
\* that was looked up before the evaluation.
CacheSetUnderCurrentToken(c) ==
    LET r == req[c]
    IN  /\ At(c, "eval")
        /\ r.reads > 0
        /\ cache' = [cache EXCEPT ![r.server] =
                        Put(@, <<"manager", token[r.server]>>,
                            [seen |-> r.seen, expires |-> now + CacheTTL])]
        /\ Goto(c, [r EXCEPT !.pc = "done", !.began = 0])
        /\ UNCHANGED <<logVars, token, lastRefresh, processed, restarts>>

\* The end of Check: Cache.Set when a key is at hand, and the answer.
CacheSet(c) ==
    LET r == req[c]
    IN  /\ At(c, "eval")
        /\ r.reads > 0
        /\ cache' = IF r.key = NoKey THEN cache
                    ELSE [cache EXCEPT ![r.server] =
                             Put(@, r.key, [seen |-> r.seen, expires |-> now + CacheTTL])]
        /\ Goto(c, [r EXCEPT !.pc = "done", !.began = 0])
        /\ UNCHANGED <<logVars, token, lastRefresh, processed, restarts>>

\* A rule or a read fails: the request is answered with an error, nothing is
\* cached.
EvaluationFails(c) ==
    /\ At(c, "eval")
    /\ Goto(c, [NoRequest EXCEPT !.pc = "failed", !.server = req[c].server])
    /\ UNCHANGED <<logVars, token, lastRefresh, processed, cache, restarts>>

\* The cache is full and drops an entry.
Evict(s, k) ==
    /\ cache' = [cache EXCEPT ![s] = Drop(@, k)]
    /\ UNCHANGED <<logVars, token, lastRefresh, processed, req, restarts>>

\* Time passes, but no evaluation takes longer than MaxEval.
Tick ==
    /\ LogTick
    /\ \A c \in Check : At(c, "eval") => now < req[c].began + MaxEval
    /\ UNCHANGED cacheVars

CheckStep(c) ==
    \/ \E s \in Server : BeginCheck(c, s)
    \/ \E s \in Server, t \in Tx : BeginClientCheck(c, s, t)
    \/ FetchLatestToken(c)
    \/ RefreshFromDB(c)
    \/ FetchFails(c)
    \/ CacheGet(c)
    \/ Read(c)
    \/ CacheSet(c)
    \/ EvaluationFails(c)

LogStep ==
    \/ \E t \in Tx : WriteStep(t)
    \/ ReplicaApply
    \/ \E s \in Server : LoseNotifications(s) \/ Cleanup(s)

Next ==
    \/ LogStep /\ UNCHANGED cacheVars
    \/ \E s \in Server : HandleNotification(s) \/ Restart(s)
    \/ \E c \in Check : CheckStep(c)
    \/ \E s \in Server : \E k \in DOMAIN cache[s] : Evict(s, k)
    \/ Tick

Spec == Init /\ [][Next]_vars

-----------------------------------------------------------------------------
IsCache(C) ==
    /\ DOMAIN C \subseteq Key
    /\ \A k \in DOMAIN C : C[k] \in [seen : Nat, expires : Nat]

Request == [pc : {"idle", "fetch", "store", "get", "eval", "done", "failed"},
            server : Server \cup {""}, key : Key \cup {NoKey}, seen : Nat,
            reads : 0..MaxReads, began : Nat, floor : Nat]

TypeOK ==
    /\ LogTypeOK
    /\ token \in [Server -> Nat]
    /\ lastRefresh \in [Server -> Nat]
    /\ processed \in [Server -> Nat]
    /\ DOMAIN cache = Server
    /\ \A s \in Server : IsCache(cache[s])
    /\ req \in [Check -> Request]
    /\ restarts \in 0..MaxRestarts

\* The write a key promises to include, whoever made the key.
Promises(k, t) == id[t] # 0 /\ k[2] = id[t]

Covers(k, seen) == \A t \in Tx : Promises(k, t) => pos[t] > 0 /\ pos[t] <= seen

\* What is cached under a token, and what is answered under it, has seen the
\* write that the token names: ids that commit out of order, refreshes that
\* overtake notifications, lost notifications and restarts never file an older
\* answer under a newer token (Checker.Check, refreshFromDB).
CoversToken ==
    /\ \A s \in Server : \A k \in DOMAIN cache[s] : Covers(k, cache[s][k].seen)
    /\ \A c \in Check : At(c, "done") => Covers(req[c].key, req[c].seen)

\* Whatever goes wrong with tokens, an answer has seen every commit that is older
\* than an evaluation, the cacheTTL and the lag of the replica together.
StaleAfter == CacheTTL + MaxEval + (IF Replicated THEN MaxLag ELSE 0)

StalenessBounded ==
    [][\A c \in Check, t \in Tx :
          /\ ~At(c, "done") /\ req'[c].pc = "done"
          /\ pos[t] > 0 /\ commitAt[t] + StaleAfter < now
          => pos[t] <= req'[c].seen]_vars

\* A check that takes the token a notification has set answers from a state that
\* has the commit: no older answer is in the cache under it, not even one that was
\* filed by a check that refreshed the token or was slow (handleNotifications,
\* GetCurrentToken).  A refresh may put an older token back, and ends the promise.
ServesNotified ==
    \A c \in Check : At(c, "done") => req[c].floor <= req[c].seen

\* A client that sends the token of its own write to the server that made the
\* write is answered from a state that has the write, replica or not, as long as
\* no restart makes the server forget the write.
ReadYourWrites ==
    \A c \in Check, t \in Tx :
        /\ restarts = 0
        /\ At(c, "done")
        /\ req[c].key = <<"client", id[t]>>
        /\ req[c].server = origin[t]
        => pos[t] <= req[c].seen
=============================================================================
