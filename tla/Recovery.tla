---- MODULE Recovery ----
(***************************************************************************)
(* `nova_wal::recover`: redo of committed page images from the log of      *)
(* WriteAheadLog into a page file (crates/nova-storage/src/manager.rs).    *)
(* The log is written by a client that follows TransactionManager: fresh   *)
(* ids, page writes while active, an abort allowed after a commit whose    *)
(* flush failed.  Recovery runs while no handle is open, page by page, and *)
(* a crash, an exit or a failed write may fall between any two steps.      *)
(***************************************************************************)
EXTENDS WriteAheadLog

CONSTANTS
    MaxCheckpoints,\* bound: checkpoint records in the file
    LoggedWrites,  \* the writes the client logs: transaction, page, image
    Blank,         \* the empty page PageManager::allocate writes
    Garbled,       \* bytes Page::from_bytes rejects
    NoImage        \* no committed image: the replay leaves the page alone

ASSUME PageValuesAssumption ==
    /\ Blank \notin Images /\ Garbled \notin Images /\ NoImage \notin Images
    /\ Blank # Garbled
    /\ LoggedWrites \subseteq TxIds \X Pages \X Images

VARIABLES
    phase,         \* the client's view of each transaction
    count,         \* PageManager.page_count: pages in the page file
    page,          \* what reading each page of the file gives
    disk,          \* what a crash may leave in each page
    diskCount,     \* pages whose allocation a crash cannot undo
    ragged,        \* the file's length is not a multiple of PAGE_SIZE
    redo,          \* a recovery is running
    todo,          \* positions of the page writes it has still to apply
    target,        \* history: the last committed image of each page in the
                   \* records the latest recovery decoded
    recovered,     \* history: that recovery has returned
    early          \* history: a recovery replayed records not yet synchronized

pageVars == <<count, page, disk, diskCount, ragged>>
redoVars == <<redo, todo, target, recovered, early>>
recoveryVars == <<walVars, phase, pageVars, redoVars>>

PageValues == Images \cup {Blank, Garbled}

-----------------------------------------------------------------------------
(* The client of the log *)

\* Ids grow: one above every id recorded or handed out.
ClientBegin(id) ==
    /\ phase[id] = "none"
    /\ \A other \in TxIds :
          (\E i \in DOMAIN log : log[i].tx = other) \/ phase[other] # "none" <=> other < id
    /\ AppendRecord(id, Marker("Begin"))
    /\ phase' = [phase EXCEPT ![id] = "active"]
    /\ UNCHANGED <<up, torn, synced, durableLsn, restarts, pageVars, redoVars>>

ClientPageWrite(id, p, image) ==
    /\ phase[id] = "active"
    /\ AppendRecord(id, PageWrite(p, image))
    /\ UNCHANGED <<up, torn, synced, durableLsn, restarts, phase, pageVars, redoVars>>

ClientCommit(id) ==
    /\ phase[id] = "active"
    /\ AppendRecord(id, Marker("Commit"))
    /\ phase' = [phase EXCEPT ![id] = "committing"]
    /\ UNCHANGED <<up, torn, synced, durableLsn, restarts, pageVars, redoVars>>

ClientAbort(id) ==
    /\ phase[id] \in {"active", "committing"}
    /\ AppendRecord(id, Marker("Abort"))
    /\ phase' = [phase EXCEPT ![id] = "done"]
    /\ UNCHANGED <<up, torn, synced, durableLsn, restarts, pageVars, redoVars>>

Checkpoint ==
    /\ Cardinality({i \in DOMAIN log : log[i].op.kind = "Checkpoint"}) < MaxCheckpoints
    /\ AppendRecord(0, Marker("Checkpoint"))
    /\ UNCHANGED <<up, torn, synced, durableLsn, restarts, phase, pageVars, redoVars>>

\* flush: what was committed is now acknowledged.
Flush ==
    /\ up
    /\ synced < Len(log)
    /\ SyncUpTo(log)
    /\ phase' = [id \in TxIds |-> IF phase[id] = "committing" THEN "done" ELSE phase[id]]
    /\ UNCHANGED <<up, log, torn, nextLsn, restarts, pageVars, redoVars>>

FailedAppend == AppendFails /\ UNCHANGED <<phase, pageVars, redoVars>>

-----------------------------------------------------------------------------
(* recover *)

\* MUTANT of Replays: aborted transactions are replayed too.
AbortedReplays(recs, r) == r.op.kind = "PageWrite" /\ r.tx \in IdsWith(recs, "Commit")

Replays(recs, r) == r.op.kind = "PageWrite" /\ r.tx \in CommittedIds(recs)

\* The positions of the committed, non-aborted writes of p among recs.
WritesOf(recs, p) ==
    {i \in DOMAIN recs :
        /\ recs[i].op.kind = "PageWrite"
        /\ recs[i].tx \in IdsWith(recs, "Commit")
        /\ recs[i].tx \notin IdsWith(recs, "Abort")
        /\ recs[i].op.page = p}

\* What the log says page p holds: its last committed image.
LastImage(recs, p) ==
    IF WritesOf(recs, p) = {} THEN NoImage
    ELSE LET last == CHOOSE i \in WritesOf(recs, p) : \A j \in WritesOf(recs, p) : j <= i
         IN  recs[last].op.image

\* recover reads and decodes the log and opens the page file.
RecoverStart ==
    /\ ~up /\ ~redo
    /\ ContiguousLsns
    /\ ~ragged
    /\ todo' = {i \in DOMAIN Readable : Replays(Readable, Readable[i])}
    /\ target' = [p \in Pages |-> LastImage(Readable, p)]
    /\ redo' = TRUE
    /\ recovered' = FALSE
    /\ early' = (early \/ synced < ValidLength)
    /\ UNCHANGED <<walVars, phase, pageVars>>

\* recover returns Corruption: a rejected log, or a page file cut inside a page.
RecoverRejected ==
    /\ ~up /\ ~redo
    /\ BehindTear \/ ~ContiguousLsns \/ ragged
    /\ UNCHANGED recoveryVars

\* The loop of recover takes the records in order.
Upcoming == CHOOSE i \in todo : \A j \in todo : i <= j

Write == log[Upcoming].op

PageMissing(p) == count <= p

\* PageManager::allocate appends one empty page.
RedoAllocate ==
    /\ redo /\ todo # {}
    /\ PageMissing(Write.page)
    /\ count' = count + 1
    /\ page' = [page EXCEPT ![count] = Blank]
    /\ disk' = [disk EXCEPT ![count] = {Blank, Garbled}]
    /\ UNCHANGED <<walVars, phase, diskCount, ragged, redoVars>>

\* PageManager::write replaces one allocated page.
RedoApply ==
    /\ redo /\ todo # {}
    /\ ~PageMissing(Write.page)
    /\ page' = [page EXCEPT ![Write.page] = Write.image]
    /\ disk' = [disk EXCEPT ![Write.page] = @ \cup {Write.image, Garbled}]
    /\ todo' = todo \ {Upcoming}
    /\ UNCHANGED <<walVars, phase, count, diskCount, ragged, redo, target, recovered, early>>

\* The call is over: its loop variables are gone.
RedoOver == redo' = FALSE /\ todo' = {}

\* An allocation or a write fails and may leave part of its bytes behind, which
\* may be all that differ from the old page: recover returns the error.
RedoFails ==
    /\ redo /\ todo # {}
    /\ \/ /\ PageMissing(Write.page)
          /\ ragged' \in BOOLEAN
          /\ UNCHANGED <<page, disk>>
       \/ /\ ~PageMissing(Write.page)
          /\ UNCHANGED <<page, disk, ragged>>
       \/ /\ ~PageMissing(Write.page)
          /\ \E left \in {Write.image, Garbled} :
               /\ page' = [page EXCEPT ![Write.page] = left]
               /\ disk' = [disk EXCEPT ![Write.page] = @ \cup {left, Garbled}]
          /\ UNCHANGED ragged
    /\ RedoOver
    /\ UNCHANGED <<walVars, phase, count, diskCount, target, recovered, early>>

\* MUTANT of RecoverReturn: the page file is not synchronized.
UnsyncedRecoverReturn ==
    /\ redo /\ todo = {}
    /\ RedoOver
    /\ recovered' = TRUE
    /\ UNCHANGED <<walVars, phase, pageVars, target, early>>

\* pages.sync, and recover returns.
RecoverReturn ==
    /\ redo /\ todo = {}
    /\ disk' = [p \in Pages |-> IF p < count THEN {page[p]} ELSE {}]
    /\ diskCount' = count
    /\ RedoOver
    /\ recovered' = TRUE
    /\ UNCHANGED <<walVars, phase, count, page, ragged, target, early>>

-----------------------------------------------------------------------------
(* Opening, exits and crashes *)

Open ==
    /\ ~redo
    /\ OpenLog
    /\ UNCHANGED <<phase, pageVars, redoVars>>

\* The process ends: the handle, or the running recovery, is gone.
ProcessEnds ==
    \/ /\ Exit
       /\ phase' = [id \in TxIds |-> "none"]
       /\ UNCHANGED <<pageVars, redoVars>>
    \/ /\ redo
       /\ restarts < MaxRestarts
       /\ restarts' = restarts + 1
       /\ RedoOver
       /\ UNCHANGED <<up, log, torn, synced, nextLsn, durableLsn, phase, pageVars,
                      target, recovered, early>>

\* The machine stops: each page is left with one of the values written to it
\* since the last synchronization, and unsynchronized allocations may be undone.
MachineCrash ==
    /\ Crash
    /\ phase' = [id \in TxIds |-> "none"]
    /\ RedoOver
    /\ \E n \in diskCount .. count :
          /\ count' = n
          /\ diskCount' = n
          /\ ragged' \in IF n < count THEN BOOLEAN ELSE {ragged}
          /\ page' \in {f \in [Pages -> PageValues] :
                           \A p \in Pages : IF p < n THEN f[p] \in disk[p] ELSE f[p] = Blank}
    /\ disk' = [p \in Pages |-> IF p < count' THEN {page'[p]} ELSE {}]
    /\ UNCHANGED <<target, recovered, early>>

RecoveryInit ==
    /\ WalInit
    /\ phase = [id \in TxIds |-> "none"]
    /\ count = 0 /\ diskCount = 0 /\ ragged = FALSE
    /\ page = [p \in Pages |-> Blank]
    /\ disk = [p \in Pages |-> {}]
    /\ redo = FALSE /\ todo = {}
    /\ target = [p \in Pages |-> NoImage]
    /\ recovered = FALSE
    /\ early = FALSE

RecoveryNext ==
    \/ Open
    \/ \E id \in TxIds : ClientBegin(id)
    \/ \E w \in LoggedWrites : ClientPageWrite(w[1], w[2], w[3])
    \/ \E id \in TxIds : ClientCommit(id)
    \/ \E id \in TxIds : ClientAbort(id)
    \/ Checkpoint
    \/ Flush
    \/ FailedAppend
    \/ ProcessEnds
    \/ MachineCrash
    \/ RecoverStart
    \/ RecoverRejected
    \/ RedoAllocate
    \/ RedoApply
    \/ RedoFails
    \/ RecoverReturn

RecoverySpec == RecoveryInit /\ [][RecoveryNext]_recoveryVars

-----------------------------------------------------------------------------
(* Properties *)

RecoveryTypeOK ==
    /\ WalTypeOK
    /\ phase \in [TxIds -> {"none", "active", "committing", "done"}]
    /\ count \in Nat /\ diskCount \in 0 .. count /\ ragged \in BOOLEAN
    /\ page \in [Pages -> PageValues]
    /\ disk \in [Pages -> SUBSET PageValues]
    /\ redo \in BOOLEAN /\ recovered \in BOOLEAN /\ early \in BOOLEAN
    /\ todo \subseteq DOMAIN log
    /\ target \in [Pages -> Images \cup {NoImage}]

\* Once recover has returned, every page with a committed write holds the last
\* one in LSN order, whatever was there before (a garbled page included), and
\* no exit or crash takes it away until another recovery starts.
RecoveredPagesStay ==
    recovered =>
        \A p \in Pages : target[p] # NoImage =>
            /\ p < diskCount
            /\ page[p] = target[p]
            /\ disk[p] = {target[p]}

\* The images that transactions the log commits have written to p.
CommittedImages(p) == {Readable[i].op.image : i \in WritesOf(Readable, p)}

PagesFollowLog ==
    \A p \in Pages : disk[p] \ {Blank, Garbled} \subseteq CommittedImages(p)

\* No page of the file holds, or could hold after a crash, an image of a
\* transaction the log does not commit, as long as every recovery replayed a
\* synchronized log: redo interrupted anywhere, aborts after an unflushed
\* commit and torn tails never break it.
OnlyCommittedImages == RecoveryTypeOK /\ (~early => PagesFollowLog)
====
