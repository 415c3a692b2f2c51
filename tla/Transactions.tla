---- MODULE Transactions ----
(***************************************************************************)
(* The transaction manager of crates/nova-transaction on the log of        *)
(* WriteAheadLog: transaction states, strict two-phase locks on            *)
(* collections, and terminal records made durable before locks go.  Every  *)
(* public operation runs under the one mutex around `Inner`, so it is one  *)
(* atomic action; any interleaving of callers is an interleaving of these  *)
(* actions.  The manager lives and dies with its log handle: `up`.         *)
(***************************************************************************)
EXTENDS WriteAheadLog

CONSTANTS
    Collections    \* names of collections

VARIABLES
    nextId,        \* Inner.next_id
    status,        \* Inner.statuses; "Unknown" for an id without an entry
    readers,       \* Inner.locks: LockState.readers of each collection
    writer,        \* Inner.locks: LockState.writer of each collection
    acked          \* history: the outcomes commit and rollback reported

tmVars == <<nextId, status, readers, writer>>
vars == <<walVars, tmVars, acked>>

Terminal == {"Committed", "RolledBack"}

\* The record kind that makes an outcome durable.
TerminalKind(outcome) == IF outcome = "Committed" THEN "Commit" ELSE "Abort"

\* What a caller was told: `clean` when the log held no tear at that moment.
Ack == [tx : TxIds, outcome : Terminal, clean : BOOLEAN]

Holds(id, c) == id \in readers[c] \/ writer[c] = id

-----------------------------------------------------------------------------
(* Opening *)

Recorded == {log[i].tx : i \in 1 .. ValidLength}

\* MUTANT of ResumesAt: ids restart at one.
RestartsAt(n) == n = 1

\* The id after the greatest one recorded in the log, or after zero.
ResumesAt(n) == n - 1 \in Recorded \cup {0} /\ \A id \in Recorded : id < n

\* TransactionManager::open.
OpenManager ==
    /\ OpenLog
    /\ \E n \in 1 .. MaxTx + 1 : ResumesAt(n) /\ nextId' = n
    /\ UNCHANGED <<status, readers, writer, acked>>

-----------------------------------------------------------------------------
(* Begin and lock acquisition *)

\* begin: the id is taken before the record is appended.
BeginTx ==
    /\ nextId \in TxIds
    /\ AppendRecord(nextId, Marker("Begin"))
    /\ nextId' = nextId + 1
    /\ status' = [status EXCEPT ![nextId] = "Active"]
    /\ UNCHANGED <<torn, synced, durableLsn, up, restarts, readers, writer, acked>>

\* begin, when the append fails: the id is spent.
BeginFails ==
    /\ nextId \in TxIds
    /\ AppendFails
    /\ nextId' = nextId + 1
    /\ UNCHANGED <<status, readers, writer, acked>>

\* MUTANT of Active: ensure_active is content with a known id.
KnownActive(id) == status[id] # "Unknown"

Active(id) == status[id] = "Active"

\* MUTANT of SharedGrantable: a foreign writer is overlooked.
BlindSharedGrantable(id, c) == TRUE

SharedGrantable(id, c) == writer[c] \in {None, id}

AcquireShared(id, c) ==
    /\ up
    /\ Active(id)
    /\ SharedGrantable(id, c)
    /\ readers' = [readers EXCEPT ![c] = @ \cup {id}]
    /\ UNCHANGED <<walVars, nextId, status, writer, acked>>

ExclusiveGrantable(id, c) == readers[c] \subseteq {id} /\ writer[c] \in {None, id}

AcquireExclusive(id, c) ==
    /\ up
    /\ Active(id)
    /\ ExclusiveGrantable(id, c)
    /\ readers' = [readers EXCEPT ![c] = @ \ {id}]
    /\ writer' = [writer EXCEPT ![c] = id]
    /\ UNCHANGED <<walVars, nextId, status, acked>>

-----------------------------------------------------------------------------
(* Commit and rollback *)

\* MUTANT of ReleaseLocks: a free write lock is given to id zero.
ZeroOwnerReleaseLocks(id) ==
    /\ readers' = [c \in Collections |-> readers[c] \ {id}]
    /\ writer' = [c \in Collections |-> IF writer[c] = id THEN 0 ELSE writer[c]]

ReleaseLocks(id) ==
    /\ readers' = [c \in Collections |-> readers[c] \ {id}]
    /\ writer' = [c \in Collections |-> IF writer[c] = id THEN None ELSE writer[c]]

\* MUTANT of Finish: the terminal record is appended and not flushed.
UnflushedFinish(id, outcome) ==
    /\ up
    /\ Active(id)
    /\ AppendRecord(id, Marker(TerminalKind(outcome)))
    /\ UNCHANGED <<synced, durableLsn>>
    /\ status' = [status EXCEPT ![id] = outcome]
    /\ ReleaseLocks(id)
    /\ acked' = acked \cup {[tx |-> id, outcome |-> outcome, clean |-> torn = None]}
    /\ UNCHANGED <<up, torn, restarts, nextId>>

\* commit and rollback, when append and flush succeed.
Finish(id, outcome) ==
    /\ up
    /\ Active(id)
    /\ AppendRecord(id, Marker(TerminalKind(outcome)))
    /\ SyncUpTo(log')
    /\ status' = [status EXCEPT ![id] = outcome]
    /\ ReleaseLocks(id)
    /\ acked' = acked \cup {[tx |-> id, outcome |-> outcome, clean |-> torn = None]}
    /\ UNCHANGED <<up, torn, restarts, nextId>>

\* commit and rollback, when the append fails: the transaction stays active.
FinishAppendFails(id) ==
    /\ Active(id)
    /\ AppendFails
    /\ UNCHANGED <<tmVars, acked>>

\* MUTANT of FinishFlushFails: the locks are released in front of the flush.
EagerFinishFlushFails(id, outcome) ==
    /\ up
    /\ Active(id)
    /\ AppendRecord(id, Marker(TerminalKind(outcome)))
    /\ ReleaseLocks(id)
    /\ UNCHANGED <<up, torn, synced, durableLsn, restarts, nextId, status, acked>>

\* commit and rollback, when the record is in the file and sync_all fails: the
\* transaction stays active, with its locks, and its terminal record stays.
FinishFlushFails(id, outcome) ==
    /\ up
    /\ Active(id)
    /\ AppendRecord(id, Marker(TerminalKind(outcome)))
    /\ UNCHANGED <<up, torn, synced, durableLsn, restarts, tmVars, acked>>

-----------------------------------------------------------------------------

\* The manager's memory is gone with its handle.
NoTransactions ==
    /\ status' = [id \in TxIds |-> "Unknown"]
    /\ readers' = [c \in Collections |-> {}]
    /\ writer' = [c \in Collections |-> None]

Stop == (Exit \/ Crash) /\ NoTransactions /\ nextId' = 1 /\ UNCHANGED acked

Rejected == OpenRejected /\ UNCHANGED <<tmVars, acked>>

Init ==
    /\ WalInit
    /\ nextId = 1
    /\ status = [id \in TxIds |-> "Unknown"]
    /\ readers = [c \in Collections |-> {}]
    /\ writer = [c \in Collections |-> None]
    /\ acked = {}

Next ==
    \/ OpenManager
    \/ Rejected
    \/ Stop
    \/ BeginTx
    \/ BeginFails
    \/ \E id \in TxIds, c \in Collections : AcquireShared(id, c)
    \/ \E id \in TxIds, c \in Collections : AcquireExclusive(id, c)
    \/ \E id \in TxIds, outcome \in Terminal : Finish(id, outcome)
    \/ \E id \in TxIds : FinishAppendFails(id)
    \/ \E id \in TxIds, outcome \in Terminal : FinishFlushFails(id, outcome)

Spec == Init /\ [][Next]_vars

-----------------------------------------------------------------------------
(* Invariants *)

ManagerTypeOK ==
    /\ nextId \in Nat \ {0}
    /\ status \in [TxIds -> {"Unknown", "Active"} \cup Terminal]
    /\ readers \in [Collections -> SUBSET TxIds]
    /\ writer \in [Collections -> TxIds \cup {None}]
    /\ acked \subseteq Ack

TypeOK == WalTypeOK /\ ManagerTypeOK

\* An exclusive lock excludes every other transaction: acquire_shared and
\* acquire_exclusive never let a foreign reader or writer in beside a writer.
WriterExcludesOthers ==
    \A c \in Collections : writer[c] # None => readers[c] \subseteq {writer[c]}

\* Only active transactions own locks: release_locks gives back every one of
\* them when commit or rollback succeeds, and a failed one keeps them all.
OnlyActiveHoldLocks ==
    \A c \in Collections, id \in TxIds : Holds(id, c) => Active(id)

\* The lock table, whatever sequence of requests, re-entries, upgrades, failed
\* finishes and restarts of several transactions it has been through.
LockTable == WriterExcludesOthers /\ OnlyActiveHoldLocks

\* Ids resume above every recorded id, so no id begins twice in one log
\* whatever was lost or cut off in between.
IdsBeginOnce ==
    /\ \A i, j \in 1 .. Len(log) :
          log[i].op.kind = "Begin" /\ log[j].op.kind = "Begin" /\ log[i].tx = log[j].tx
             => i = j
    /\ up => \A i \in 1 .. Len(log) : log[i].tx < nextId

TerminalRecordAt(i, id, outcome) ==
    /\ i \in 1 .. Len(log)
    /\ log[i].tx = id
    /\ log[i].op.kind = TerminalKind(outcome)

\* The outcome of id is on the disk, in front of any tear.
OutcomeOnDisk(id, outcome) ==
    \E i \in 1 .. synced :
        /\ TerminalRecordAt(i, id, outcome)
        /\ torn # None => i <= torn

\* An outcome that commit or rollback reported, before any append failed, is
\* on the disk, and stays there over every later failure, exit, crash and
\* reopening.
ReportedOutcomeStaysOnDisk ==
    \A a \in acked : a.clean => OutcomeOnDisk(a.tx, a.outcome)

\* A reported rollback is never replayed: `recover` keeps the transaction out
\* although an earlier commit whose flush failed left its record in the log.
RolledBackStaysOut ==
    \A a \in acked :
        a.outcome = "RolledBack" /\ a.clean => a.tx \notin CommittedIds(Readable)

\* open resumes the LSN sequence and next_lsn follows the records, over failed
\* appends and crashes: otherwise the next open answers Corruption.
LsnsFollowPositions == WalShape

\* Claimed by docs/transactions.md: the outcome a transaction moved to is the
\* durable one.  A rollback whose flush failed leaves its Abort record, and the
\* commit that follows reports Committed for a transaction recovery skips.
CommittedIsReplayed ==
    up => \A id \in TxIds : status[id] = "Committed" => id \in IdsWith(log, "Commit") \ IdsWith(log, "Abort")

-----------------------------------------------------------------------------
(* Action properties *)

\* A lock is given up only once the owner's terminal record is synchronized, so
\* that nobody sees a released lock before the outcome is durable.
ReleasesDurably ==
    \A c \in Collections, id \in TxIds :
        up /\ up' /\ Holds(id, c) /\ ~Holds(id, c)'
          => \E i \in 1 .. synced', o \in Terminal :
                TerminalRecordAt(i, id, o)' /\ status'[id] = o

ReleaseAfterDurableOutcome == [][ReleasesDurably]_vars

\* A transaction moves once: while the manager lives a terminal state is never
\* left, and a transaction becomes active only by beginning.
MovesForward ==
    \A id \in TxIds : up /\ up' =>
        /\ status[id] \in Terminal => status'[id] = status[id]
        /\ status'[id] = "Active" => status[id] \in {"Active", "Unknown"}

MovesOnce == [][MovesForward]_vars
====
