--------------------------------- MODULE Lookup ---------------------------------
(***************************************************************************)
(* LookupEntity and LookupSubject of lookup.go, page by page: candidates    *)
(* come from a query, each is verified by Check, and the client hands every *)
(* page token back until there is none.  Other requests commit in between.  *)
(*                                                                         *)
(* Ids are numbers, ordered like the strings; 0 is the empty cursor.  Lists *)
(* of candidates are sorted and without duplicates, so they are sets.  What *)
(* the queries select and what Check answers, given the tuples stored when  *)
(* they run, are operators that LookupQueries defines: nothing here depends *)
(* on more than QueriesAssumption.                                          *)
(***************************************************************************)
EXTENDS Integers, FiniteSetsExt

CONSTANTS
    Tuple,             \* the tuples that may be stored
    Volatile,          \* the tuples that may be written or deleted meanwhile
    Scenario,          \* what is stored and asked
    IdsOfType(_),      \* per request: the ids of the type it lists
    Optimized(_),      \* per request: does the optimized path serve it?
    QueriedIds(_, _),  \* per request and tuples stored: what its query selects
    RelatedIds(_, _),  \* per request and tuples stored: what the fallback selects
    AttributedIds(_),  \* per request: the ids with attributes
    ContextualIds(_),  \* per request: the ids its contextual tuples name
    Verified(_, _, _, _),  \* per request and id: what Check answers when the third
                           \* decides what must hold, the fourth what NOT excludes
    Followed(_, _, _),     \* per request, id and tuples stored: does the query follow
                           \* the usersets and parents that Check follows?
    defaultLookupLimit,
    defaultBatchSize,
    maxBatchSize,
    MaxFailures,       \* bound: checks and queries that fail
    MaxCommits         \* bound: commits of other requests

ASSUME LookupAssumption ==
    /\ {defaultLookupLimit, defaultBatchSize, maxBatchSize} \subseteq Nat \ {0}
    /\ IsFiniteSet(Volatile) /\ Volatile \subseteq Tuple
    /\ MaxCommits \in Nat
    /\ \A s \in Scenario : s.stored \subseteq Tuple /\ s.req.pageSize \in Int

\* What may be stored during a listing that begins with s.
Tables(s) ==
    UNION {{(s.stored \ V) \cup W : W \in SUBSET V} :
              V \in {U \in SUBSET Volatile : Cardinality(U) <= MaxCommits}}

\* The queries select ids of the listed type, and a tuple more neither takes a candidate
\* away nor, where no NOT looks at it, an answer.
ASSUME QueriesAssumption ==
    \A s \in Scenario :
        /\ IsFiniteSet(IdsOfType(s.req)) /\ IdsOfType(s.req) \subseteq Nat \ {0}
        /\ AttributedIds(s.req) \cup ContextualIds(s.req) \subseteq IdsOfType(s.req)
        /\ \A T \in Tables(s) :
              QueriedIds(s.req, T) \cup RelatedIds(s.req, T) \subseteq IdsOfType(s.req)
        /\ \A T, U \in Tables(s) :
              T \subseteq U =>
                  /\ QueriedIds(s.req, T) \subseteq QueriedIds(s.req, U)
                  /\ RelatedIds(s.req, T) \subseteq RelatedIds(s.req, U)
        /\ \A T, T2, U2, U \in Tables(s) :
              T \subseteq T2 /\ T2 \subseteq U2 /\ U2 \subseteq U =>
                  \A i \in IdsOfType(s.req) :
                      Verified(s.req, i, T, U) => Verified(s.req, i, T2, U2)

VARIABLES
    stored,      \* rows of the table relations
    req,         \* the request, the same for all pages but for the token
    pc,          \* about to read candidates, to check them, or done
    cursor,      \* the id behind which the next batch begins
    candidates,  \* ids still to be checked
    more,        \* may the database have ids behind the batch?
    page,        \* ids on the page so far
    listed,      \* ids on the pages the client has got
    failed,      \* ids whose check failed (history)
    readFailed,  \* did a query of the fallback fail? (history)
    ever,        \* tuples stored at some time (history)
    always       \* tuples stored all the time (history)

vars == <<stored, req, pc, cursor, candidates, more, page, listed, failed, readFailed,
          ever, always>>

history == <<ever, always>>

Init ==
    \E s \in Scenario :
        /\ stored = s.stored
        /\ req = s.req
        /\ pc = "read"
        /\ cursor = 0
        /\ candidates = {}
        /\ more = FALSE
        /\ page = {}
        /\ listed = {}
        /\ failed = {}
        /\ readFailed = FALSE
        /\ ever = s.stored
        /\ always = s.stored

-----------------------------------------------------------------------------
limit == IF req.pageSize > 0 THEN req.pageSize ELSE defaultLookupLimit

batchSize == Min({Max({3 * limit, defaultBatchSize}), maxBatchSize})

\* LIMIT, and the bound of mergeSortedUnique.
Smallest(n, S) == {i \in S : Cardinality({j \in S : j < i}) < n}

\* Mutant: the cursor itself comes again.
FromCursor(S) == {i \in S : i >= cursor}

After(S) == {i \in S : i > cursor}

-----------------------------------------------------------------------------
\* The optimized path asks the database for one id more than the page holds.  When
\* the query fails so does the request, and the client repeats it.
ReadAccessible ==
    LET all == Smallest(limit + 1, After(QueriedIds(req, stored))) \cup After(ContextualIds(req))
    IN  /\ pc = "read"
        /\ Optimized(req)
        /\ pc' = "check"
        /\ candidates' = all
        /\ more' = (Cardinality(all) > limit)
        /\ UNCHANGED <<stored, req, cursor, page, listed, failed, readFailed, history>>

\* getMergedEntityCandidates and getMergedSubjectCandidates, from those of the two
\* queries that did not fail.
ReadBatch(relationsFail, attributesFail) ==
    LET relCandidates ==
            IF relationsFail THEN {} ELSE Smallest(batchSize, After(RelatedIds(req, stored)))
        attrCandidates ==
            IF attributesFail THEN {} ELSE Smallest(batchSize, After(AttributedIds(req)))
        dbCandidates == Smallest(batchSize, relCandidates \cup attrCandidates)
    IN  /\ pc = "read"
        /\ ~Optimized(req)
        /\ pc' = "check"
        /\ candidates' = dbCandidates \cup After(ContextualIds(req))
        /\ more' = (Cardinality(dbCandidates) >= batchSize)
        /\ readFailed' = (readFailed \/ relationsFail \/ attributesFail)
        /\ UNCHANGED <<stored, req, cursor, page, listed, failed, history>>

CanFail == Cardinality(failed) < MaxFailures /\ ~readFailed

\* Mutant: only an allowed candidate moves the cursor.
CheckCandidateStay ==
    LET i == Min(candidates)
        allowed == Verified(req, i, stored, stored)
    IN  /\ pc = "check"
        /\ candidates # {}
        /\ Cardinality(page) < limit
        /\ candidates' = candidates \ {i}
        /\ cursor' = IF allowed THEN i ELSE cursor
        /\ page' = IF allowed THEN page \cup {i} ELSE page
        /\ UNCHANGED <<stored, req, pc, more, listed, failed, readFailed, history>>

\* Mutant: a page takes one id too many.
CheckCandidateBeyond ==
    LET i == Min(candidates)
    IN  /\ pc = "check"
        /\ candidates # {}
        /\ Cardinality(page) <= limit
        /\ candidates' = candidates \ {i}
        /\ cursor' = i
        /\ page' = IF Verified(req, i, stored, stored) THEN page \cup {i} ELSE page
        /\ UNCHANGED <<stored, req, pc, more, listed, failed, readFailed, history>>

CheckCandidate ==
    LET i == Min(candidates)
    IN  /\ pc = "check"
        /\ candidates # {}
        /\ Cardinality(page) < limit
        /\ candidates' = candidates \ {i}
        /\ cursor' = i
        /\ \/ /\ page' = IF Verified(req, i, stored, stored) THEN page \cup {i} ELSE page
              /\ UNCHANGED failed
           \/ /\ CanFail
              /\ failed' = failed \cup {i}
              /\ UNCHANGED page
        /\ UNCHANGED <<stored, req, pc, more, listed, readFailed, history>>

FullPage == Cardinality(page) >= limit

\* Mutant: a short page is the last one.
EndBatchShort ==
    LET return == FullPage \/ ~more \/ Optimized(req)
    IN  /\ pc = "check"
        /\ candidates = {} \/ FullPage
        /\ candidates' = {}
        /\ listed' = IF return THEN listed \cup page ELSE listed
        /\ page' = IF return THEN {} ELSE page
        /\ pc' = IF FullPage \/ (more /\ ~Optimized(req)) THEN "read" ELSE "done"
        /\ UNCHANGED <<stored, req, cursor, more, failed, readFailed, history>>

\* The end of a batch.  The fallback fills a page from several batches; the
\* optimized path returns what it has, with the last id it checked as the token.
EndBatch ==
    LET return == FullPage \/ ~more \/ Optimized(req)
    IN  /\ pc = "check"
        /\ candidates = {} \/ FullPage
        /\ candidates' = {}
        /\ listed' = IF return THEN listed \cup page ELSE listed
        /\ page' = IF return THEN {} ELSE page
        /\ pc' = IF FullPage \/ more THEN "read" ELSE "done"
        /\ UNCHANGED <<stored, req, cursor, more, failed, readFailed, history>>

ListStep ==
    \/ ReadAccessible
    \/ ReadBatch(FALSE, FALSE)
    \/ CheckCandidate
    \/ EndBatch

ReadFails ==
    /\ CanFail
    /\ ReadBatch(TRUE, FALSE) \/ ReadBatch(FALSE, TRUE)

\* Another request writes or deletes a tuple.
CommitOther(t) ==
    /\ pc # "done"
    /\ Cardinality(ever \ always) < MaxCommits
    /\ t \notin ever \ always
    /\ stored' = IF t \in stored THEN stored \ {t} ELSE stored \cup {t}
    /\ ever' = ever \cup {t}
    /\ always' = always \ {t}
    /\ UNCHANGED <<req, pc, cursor, candidates, more, page, listed, failed, readFailed>>

Next ==
    \/ ListStep
    \/ ReadFails
    \/ \E t \in Volatile : CommitOther(t)

listing == <<pc, cursor, candidates, page>>

\* The lookup and its client go on until they are done: weak fairness of the steps
\* that change listing, which one always can before.
Fairness == []<>(pc = "done") \/ []<><<TRUE>>_listing

Spec == Init /\ [][Next]_vars /\ Fairness

-----------------------------------------------------------------------------
TypeOK ==
    /\ stored \subseteq Tuple
    /\ pc \in {"read", "check", "done"}
    /\ cursor \in IdsOfType(req) \cup {0}
    /\ candidates \cup page \cup listed \cup failed \subseteq IdsOfType(req)
    /\ Cardinality(page) <= limit
    /\ {more, readFailed} \subseteq BOOLEAN
    /\ always \subseteq stored /\ stored \subseteq ever

\* Pages ascend, so no id is returned twice, whatever is written between them and
\* however contextual ids and ids of the database interleave
\* (mergeSortedUnique, filterIDsAfterCursor and the page tokens).
PagesAscend == \A i \in page, j \in listed : j < i

\* The SQL proposes whatever Check allows, for requests without contextual tuples and
\* subject sets, and for candidates from which it follows the usersets and parents that
\* Check follows: chains of up to maxUsersetDepth usersets that all name relations, and
\* parents of the types in the schema.  Then the relations that
\* extractRelationsFromRuleWithContext reads off a rule, and the sub-queries, lose nothing.
QueryCovers ==
    pc = "read" /\ Optimized(req) /\ req.context = {} /\ req.subjectRelation = "" =>
        \A i \in IdsOfType(req) :
            Followed(req, i, stored) /\ Verified(req, i, stored, stored) =>
                i \in QueriedIds(req, stored)

\* What the tables or the request name, all the time.
Proposed ==
    ContextualIds(req) \cup (IF Optimized(req) THEN QueriedIds(req, always)
                     ELSE RelatedIds(req, always) \cup AttributedIds(req))

\* The pages together hold every id that was proposed and allowed all the time,
\* with commits between the steps and after checks that failed for other ids; only
\* ids of the database below a contextual id may be passed over
\* (lookupEntityFallback sets its cursor to the last of the merged candidates).
Complete ==
    pc = "done" /\ ~readFailed =>
        \A i \in Proposed \ (listed \cup failed) :
            \/ ~Verified(req, i, always, ever)
            \/ \E c \in ContextualIds(req) : c > i

\* A client that follows the tokens comes to the end.
Finished == <>(pc = "done")

\* LookupEntity "finds all entities of a given type that a subject has permission
\* on", when nothing fails and nothing is written.
FindsAll ==
    pc = "done" /\ ~readFailed /\ failed = {} /\ ever = always =>
        \A i \in IdsOfType(req) : Verified(req, i, stored, stored) => i \in listed
=============================================================================
