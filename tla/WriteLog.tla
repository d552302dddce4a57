------------------------------- MODULE WriteLog -------------------------------
(***************************************************************************)
(* One tenant's write transactions and who hears of them when.              *)
(*                                                                         *)
(* A row change fires a trigger that inserts a row into transactions: its   *)
(* id comes from a sequence when the statement runs, while the row and its  *)
(* NOTIFY become visible when the transaction commits, so ids may commit    *)
(* out of order.  The commit order is kept as a position (pos); a state of  *)
(* the database is the number of commits it contains.                       *)
(*                                                                         *)
(* An optional read replica applies the commits late.  The repositories    *)
(* call WriteTracker.RecordWrite after the commit has returned; the         *)
(* transaction of DataHandler.Write never does.                             *)
(***************************************************************************)
EXTENDS Integers, Sequences, FiniteSets

CONSTANTS
    Server,      \* instances of the service
    Tx,          \* write transactions
    BaseId,      \* the newest transactions.id when the servers start, or 0
    Replicated,  \* is a read replica configured?
    TrackedOnly, \* TRUE: no write takes the transaction path of DataHandler
    Window,      \* window of the WriteTracker
    MaxLag,      \* bound: how long the replica takes to apply a commit
    MaxTime      \* bound on the clock

ASSUME LogAssumption ==
    /\ BaseId \in Nat
    /\ Replicated \in BOOLEAN
    /\ TrackedOnly \in BOOLEAN
    /\ Window \in Nat \ {0}
    /\ MaxLag \in Nat
    /\ MaxTime \in Nat

VARIABLES
    now,       \* the clock
    status,    \* per transaction: idle, open, committed, recorded, answered, aborted
    origin,    \* per transaction: the server it runs on
    tracked,   \* per transaction: does its path call RecordWrite?
    id,        \* per transaction: its transactions.id, 0 before the trigger
    pos,       \* per transaction: its place in the commit order, 0 before
    commitAt,  \* per transaction: when it committed
    nextId,    \* the sequence behind transactions.id
    commits,   \* number of commits
    applied,   \* commits the replica has applied
    queue,     \* per server: NOTIFYs sent and not yet handled
    recorded   \* per server: time of the last RecordWrite, -1 if none

logVars == <<now, status, origin, tracked, id, pos, commitAt, nextId, commits,
             applied, queue, recorded>>

Never == -1

LogInit ==
    /\ now = 0
    /\ status = [t \in Tx |-> "idle"]
    /\ origin \in [Tx -> Server]
    /\ tracked \in [Tx -> IF TrackedOnly THEN {TRUE} ELSE BOOLEAN]
    /\ id = [t \in Tx |-> 0]
    /\ pos = [t \in Tx |-> 0]
    /\ commitAt = [t \in Tx |-> 0]
    /\ nextId = BaseId + 1
    /\ commits = 0
    /\ applied = 0
    /\ queue = [s \in Server |-> <<>>]
    /\ recorded = [s \in Server |-> Never]

-----------------------------------------------------------------------------
\* The first row change of a transaction: the trigger takes the next id.
WriteRow(t) ==
    /\ status[t] = "idle"
    /\ status' = [status EXCEPT ![t] = "open"]
    /\ id' = [id EXCEPT ![t] = nextId]
    /\ nextId' = nextId + 1
    /\ UNCHANGED <<now, origin, tracked, pos, commitAt, commits, applied, queue, recorded>>

\* COMMIT makes the row visible and delivers the NOTIFY, in commit order.
CommitWrite(t) ==
    /\ status[t] = "open"
    /\ status' = [status EXCEPT ![t] = "committed"]
    /\ commits' = commits + 1
    /\ pos' = [pos EXCEPT ![t] = commits + 1]
    /\ commitAt' = [commitAt EXCEPT ![t] = now]
    /\ queue' = [s \in Server |-> Append(queue[s], t)]
    /\ UNCHANGED <<now, origin, tracked, id, nextId, applied, recorded>>

\* Rollback: the id is lost.
AbortWrite(t) ==
    /\ status[t] = "open"
    /\ status' = [status EXCEPT ![t] = "aborted"]
    /\ UNCHANGED <<now, origin, tracked, id, pos, commitAt, nextId, commits,
                   applied, queue, recorded>>

\* The repository method records the write of its server once Commit returned.
RecordWrite(t) ==
    /\ status[t] = "committed"
    /\ tracked[t]
    /\ status' = [status EXCEPT ![t] = "recorded"]
    /\ recorded' = [recorded EXCEPT ![origin[t]] = now]
    /\ UNCHANGED <<now, origin, tracked, id, pos, commitAt, nextId, commits,
                   applied, queue>>

\* DataHandler answers with a token that only this write has.
AnswerWrite(t) ==
    /\ status[t] = IF tracked[t] THEN "recorded" ELSE "committed"
    /\ status' = [status EXCEPT ![t] = "answered"]
    /\ UNCHANGED <<now, origin, tracked, id, pos, commitAt, nextId, commits,
                   applied, queue, recorded>>

\* Mutant: the replica may be ahead of the primary.
ReplicaApplyAhead ==
    /\ Replicated
    /\ applied' = applied + 1
    /\ UNCHANGED <<now, status, origin, tracked, id, pos, commitAt, nextId,
                   commits, queue, recorded>>

ReplicaApply ==
    /\ Replicated
    /\ applied < commits
    /\ applied' = applied + 1
    /\ UNCHANGED <<now, status, origin, tracked, id, pos, commitAt, nextId,
                   commits, queue, recorded>>

\* The LISTEN connection broke: pq delivers nil on reconnection, which
\* handleNotifications skips, and what was sent meanwhile is gone.
LoseNotifications(s) ==
    /\ queue[s] # <<>>
    /\ queue' = [queue EXCEPT ![s] = <<>>]
    /\ UNCHANGED <<now, status, origin, tracked, id, pos, commitAt, nextId,
                   commits, applied, recorded>>

\* Time passes, but not so far that the replica would be later than MaxLag.
LogTick ==
    /\ now < MaxTime
    /\ now' = now + 1
    /\ Replicated => \A t \in Tx : pos[t] > applied => commitAt[t] + MaxLag > now
    /\ UNCHANGED <<status, origin, tracked, id, pos, commitAt, nextId, commits,
                   applied, queue, recorded>>

\* WriteTracker.cleanup forgets the writes whose window is over.
Cleanup(s) ==
    /\ recorded[s] # Never
    /\ now - recorded[s] >= Window
    /\ recorded' = [recorded EXCEPT ![s] = Never]
    /\ UNCHANGED <<now, status, origin, tracked, id, pos, commitAt, nextId,
                   commits, applied, queue>>

WriteStep(t) ==
    \/ WriteRow(t)
    \/ CommitWrite(t)
    \/ AbortWrite(t)
    \/ RecordWrite(t)
    \/ AnswerWrite(t)

-----------------------------------------------------------------------------
\* Mutant: the window ends a tick early.
HasRecentWriteShort(s) == recorded[s] # Never /\ now - recorded[s] < Window - 1

HasRecentWrite(s) == recorded[s] # Never /\ now - recorded[s] < Window

\* The state a read of a repository sees: ReaderFor picks the database.
ReadState(s) == IF Replicated /\ ~HasRecentWrite(s) THEN applied ELSE commits

\* The rows of transactions that are visible on the primary.
VisibleIds == {BaseId} \cup {id[t] : t \in {u \in Tx : pos[u] > 0}}

\* fetchLatestToken: the highest id, 0 for the empty token.
LatestId == CHOOSE i \in VisibleIds : \A j \in VisibleIds : j <= i

-----------------------------------------------------------------------------
Status == {"idle", "open", "committed", "recorded", "answered", "aborted"}

LogTypeOK ==
    /\ now \in Nat
    /\ status \in [Tx -> Status]
    /\ origin \in [Tx -> Server]
    /\ tracked \in [Tx -> BOOLEAN]
    /\ id \in [Tx -> Nat]
    /\ pos \in [Tx -> Nat]
    /\ commitAt \in [Tx -> Nat]
    /\ nextId \in Nat \ {0}
    /\ commits \in Nat
    /\ applied \in 0..commits
    /\ queue \in [Server -> Seq(Tx)]
    /\ recorded \in [Server -> Nat \cup {Never}]
=============================================================================
