---- MODULE WriteAheadLog ----
(***************************************************************************)
(* The append-only write-ahead log of crates/nova-wal: one handle          *)
(* (`WriteAheadLog`) over one file, the failures the file system can give  *)
(* it, process exits and machine crashes, and the decoding done by `open`  *)
(* and `recover`.                                                          *)
(*                                                                         *)
(* `log` is the sequence of complete records of the file; while a handle   *)
(* is open it equals the handle's `records` vector, because every record   *)
(* is pushed right after it is written whole.  Bytes of a record cut short *)
(* are a tear: `torn` is the number of complete records in front of the    *)
(* first tear, the only one decoding ever reaches.                         *)
(***************************************************************************)
EXTENDS Integers, Sequences, FiniteSets

CONSTANTS
    MaxTx,         \* bound: transaction ids are 1 .. MaxTx
    MaxRecords,    \* bound: complete records in the file
    MaxRestarts,   \* bound: process exits and machine crashes together
    Pages,         \* page ids a record may name, an interval 0 .. n
    Images,        \* page after-images
    None           \* no value: no tear, no durable LSN, no writer

ASSUME BoundsAssumption ==
    /\ MaxTx \in Nat /\ MaxRecords \in Nat /\ MaxRestarts \in Nat
    /\ Pages \subseteq Nat

ASSUME NoneAssumption == None \notin Nat

VARIABLES
    up,            \* a handle is open on the file
    log,           \* the complete records of the file, in order
    torn,          \* records in front of the first tear, or None
    synced,        \* records a machine crash can no longer take away
    nextLsn,       \* WriteAheadLog.next_lsn
    durableLsn,    \* WriteAheadLog.durable_lsn, or None
    restarts       \* exits and crashes so far

walVars == <<up, log, torn, synced, nextLsn, durableLsn, restarts>>

TxIds == 1 .. MaxTx

Marker(kind) == [kind |-> kind]
PageWrite(p, image) == [kind |-> "PageWrite", page |-> p, image |-> image]

Operations ==
    {Marker(k) : k \in {"Begin", "Commit", "Abort", "Checkpoint"}}
      \cup {PageWrite(p, i) : p \in Pages, i \in Images}

LogRecord == [lsn : Nat, tx : TxIds \cup {0}, op : Operations]

Tears == Nat \cup {None}

-----------------------------------------------------------------------------
(* Decoding *)

\* How many records decode_records returns: it stops at the first tear.
ValidLength == IF torn = None THEN Len(log) ELSE torn

\* The records decode_records returns.
Readable == SubSeq(log, 1, ValidLength)

\* decode_records rejects a file whose LSNs are not 0, 1, 2, ...
ContiguousLsns == \A i \in 1 .. ValidLength : log[i].lsn = i - 1

\* Records behind the tear are reached by no decoder.  What the bytes at the
\* tear read as depends on where the failed write stopped: a checksum or magic
\* mismatch (Corruption), or a record announced longer than what is left,
\* which is taken for a torn tail.
BehindTear == torn # None /\ torn < Len(log)

\* Transactions with a record of this kind among the records `recs`.
IdsWith(recs, kind) ==
    {recs[i].tx : i \in {j \in DOMAIN recs : recs[j].op.kind = kind}}

\* MUTANT of CommittedIds: an Abort record is overlooked.
AbortBlindCommittedIds(recs) == IdsWith(recs, "Commit")

\* The transactions whose page images `recover` replays.
CommittedIds(recs) == IdsWith(recs, "Commit") \ IdsWith(recs, "Abort")

-----------------------------------------------------------------------------
(* Operations of an open handle *)

AppendedLog(tx, op) == Append(log, [lsn |-> nextLsn, tx |-> tx, op |-> op])

\* append, once write_all has written the whole record.
AppendRecord(tx, op) ==
    /\ up
    /\ Len(log) < MaxRecords
    /\ log' = AppendedLog(tx, op)
    /\ nextLsn' = nextLsn + 1

\* append, when write_all fails: none or a part of the record's bytes are in
\* the file, `records` and `next_lsn` are unchanged, and the error is returned.
AppendFails ==
    /\ up
    /\ \/ torn' = torn
       \/ torn' = IF torn = None THEN Len(log) ELSE torn
    /\ UNCHANGED <<up, log, synced, nextLsn, durableLsn, restarts>>

\* flush, when sync_all succeeds after the records `recs` were written.
SyncUpTo(recs) ==
    /\ synced' = Len(recs)
    /\ durableLsn' = IF recs = <<>> THEN None ELSE recs[Len(recs)].lsn

-----------------------------------------------------------------------------
(* Exits, crashes and reopening *)

\* What the handle kept in memory is gone.
HandleLost == nextLsn' = 0 /\ durableLsn' = None

\* The process ends or drops the handle; the operating system keeps the file.
Exit ==
    /\ up
    /\ restarts < MaxRestarts
    /\ up' = FALSE
    /\ restarts' = restarts + 1
    /\ HandleLost
    /\ UNCHANGED <<log, torn, synced>>

\* Tears a crash that keeps the first k records can leave: the old one, or a
\* cut inside record k + 1.
TearsAfterCrash(k) ==
    IF torn # None /\ torn <= k THEN {torn}
    ELSE {None} \cup (IF k < Len(log) THEN {k} ELSE {})

\* The machine stops: some prefix that contains what was synchronized is left,
\* and what is left is on the disk.
Crash ==
    /\ restarts < MaxRestarts
    /\ up' = FALSE
    /\ restarts' = restarts + 1
    /\ \E k \in synced .. Len(log) :
          /\ log' = SubSeq(log, 1, k)
          /\ torn' \in TearsAfterCrash(k)
          /\ synced' = k
    /\ HandleLost

\* `open` takes the last record it finds for durable.
ReopenDurable == IF ValidLength = 0 THEN None ELSE log[ValidLength].lsn

\* MUTANT of ReopenLsn: open restarts the LSN sequence.
RestartedReopenLsn == 0

ReopenLsn == IF ValidLength = 0 THEN 0 ELSE log[ValidLength].lsn + 1

\* WriteAheadLog::open, when it succeeds: a torn tail is cut off with set_len.
OpenLog ==
    /\ ~up
    /\ ContiguousLsns
    /\ up' = TRUE
    /\ log' = Readable
    /\ torn' = None
    /\ synced' = IF synced <= ValidLength THEN synced ELSE ValidLength
    /\ nextLsn' = ReopenLsn
    /\ durableLsn' = ReopenDurable
    /\ UNCHANGED restarts

\* WriteAheadLog::open, when it returns Corruption.
OpenRejected ==
    /\ ~up
    /\ BehindTear \/ ~ContiguousLsns
    /\ UNCHANGED walVars

WalInit ==
    /\ up = FALSE
    /\ log = <<>>
    /\ torn = None
    /\ synced = 0
    /\ nextLsn = 0
    /\ durableLsn = None
    /\ restarts = 0

WalTypeOK ==
    /\ up \in BOOLEAN
    /\ log \in Seq(LogRecord)
    /\ torn \in Tears
    /\ synced \in Nat
    /\ nextLsn \in Nat
    /\ durableLsn \in Nat \cup {None}
    /\ restarts \in Nat

\* An open handle numbers records by their position, and torn and synced never
\* pass the end of the file.
WalShape ==
    /\ synced <= Len(log)
    /\ torn # None => torn <= Len(log)
    /\ \A i \in 1 .. Len(log) : log[i].lsn = i - 1
    /\ up => nextLsn = Len(log)
    /\ up /\ durableLsn # None => durableLsn < Len(log)
====
