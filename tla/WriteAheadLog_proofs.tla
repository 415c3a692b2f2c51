---- MODULE WriteAheadLog_proofs ----
(***************************************************************************)
(* Proofs about WriteAheadLog and the two specifications built on it, for  *)
(* every number of transactions, records, restarts and pages, and all sets *)
(* of collections, images and writes: what the operations of the log do to *)
(* its records and its shape, then Transactions, then Recovery.            *)
(***************************************************************************)
EXTENDS Transactions, Recovery, SequenceTheorems, FiniteSetTheorems, WellFoundedInduction, TLAPS

-----------------------------------------------------------------------------
(* Records *)

\* Every marker record the manager writes is an operation of the log.
LEMMA MarkersAreOperations ==
    \A k \in {"Begin", "Commit", "Abort", "Checkpoint"} : Marker(k) \in Operations
BY DEF Operations

\* append keeps every record where it is and adds one at the end.
LEMMA AppendRecordFacts ==
    ASSUME WalTypeOK, NEW tx \in TxIds \cup {0}, NEW op \in Operations,
           AppendRecord(tx, op)
    PROVE  /\ log' \in Seq(LogRecord)
           /\ Len(log') = Len(log) + 1
           /\ \A i \in 1 .. Len(log) : log'[i] = log[i]
           /\ log'[Len(log) + 1] = [lsn |-> nextLsn, tx |-> tx, op |-> op]
           /\ nextLsn' = nextLsn + 1
           /\ nextLsn' \in Nat
<1>1. [lsn |-> nextLsn, tx |-> tx, op |-> op] \in LogRecord
  BY DEF WalTypeOK, LogRecord
<1> QED
  BY <1>1 DEF WalTypeOK, AppendRecord, AppendedLog

\* Cutting the log after k records keeps those records where they are.
LEMMA PrefixFacts ==
    ASSUME WalTypeOK, NEW k \in 0 .. Len(log)
    PROVE  /\ SubSeq(log, 1, k) \in Seq(LogRecord)
           /\ Len(SubSeq(log, 1, k)) = k
           /\ \A i \in 1 .. k : SubSeq(log, 1, k)[i] = log[i]
<1>1. \A i \in 1 .. k : log[i] \in LogRecord
  BY DEF WalTypeOK
<1>2. k \in Int /\ 1 \in Int
  OBVIOUS
<1> QED
  BY <1>1, <1>2, SubSeqProperties, Z3

\* The part of the file that decodes is a prefix of it.
LEMMA ValidLengthFacts ==
    ASSUME WalTypeOK, WalShape
    PROVE  /\ ValidLength \in 0 .. Len(log)
           /\ torn # None => ValidLength = torn
           /\ torn = None => ValidLength = Len(log)
BY NoneAssumption DEF WalTypeOK, WalShape, ValidLength, Tears

-----------------------------------------------------------------------------
(* Types and shape *)

LEMMA InitWal == WalInit => WalTypeOK /\ WalShape
<1> SUFFICES ASSUME WalInit PROVE WalTypeOK /\ WalShape
  OBVIOUS
<1>1. log \in Seq(LogRecord) /\ Len(log) = 0
  BY DEF WalInit
<1>2. WalTypeOK
  BY <1>1 DEF WalInit, WalTypeOK, Tears
<1>3. ~up
  BY Zenon DEF WalInit
<1>4. WalShape
  BY <1>1, <1>3 DEF WalInit, WalShape
<1> QED
  BY <1>2, <1>4

\* An append to an open log keeps the log's types and shape, whatever the
\* flush that follows does.
LEMMA AppendKeepsWal ==
    ASSUME WalTypeOK, WalShape, NEW tx \in TxIds \cup {0}, NEW op \in Operations,
           AppendRecord(tx, op), UNCHANGED <<up, torn, restarts>>,
           \/ UNCHANGED <<synced, durableLsn>>
           \/ SyncUpTo(log')
    PROVE  WalTypeOK' /\ WalShape'
<1>1. /\ log' \in Seq(LogRecord)
      /\ Len(log') = Len(log) + 1
      /\ \A i \in 1 .. Len(log) : log'[i] = log[i]
      /\ log'[Len(log) + 1] = [lsn |-> nextLsn, tx |-> tx, op |-> op]
      /\ nextLsn' = nextLsn + 1
      /\ nextLsn' \in Nat
  BY AppendRecordFacts
<1>2. up /\ nextLsn = Len(log) /\ Len(log) \in Nat
  BY DEF AppendRecord, WalShape, WalTypeOK
<1>3. \A i \in 1 .. Len(log') : log'[i].lsn = i - 1
  <2> SUFFICES ASSUME NEW i \in 1 .. Len(log) + 1 PROVE log'[i].lsn = i - 1
    BY <1>1
  <2>1. CASE i \in 1 .. Len(log)
    BY <2>1, <1>1 DEF WalShape, WalTypeOK
  <2>2. CASE i = Len(log) + 1
    BY <2>2, <1>1, <1>2
  <2> QED
    BY <2>1, <2>2, <1>2
<1>4. synced' \in Nat /\ synced' <= Len(log')
  BY <1>1, <1>2 DEF WalTypeOK, WalShape, SyncUpTo
<1>5. durableLsn' \in Nat \cup {None} /\ (durableLsn' # None => durableLsn' < Len(log'))
  <2>1. CASE UNCHANGED <<synced, durableLsn>>
    BY <2>1, <1>1, <1>2 DEF WalTypeOK, WalShape
  <2>2. CASE SyncUpTo(log')
    <3>1. log' # <<>> /\ Len(log') \in DOMAIN log'
      BY <1>1, <1>2
    <3>2. durableLsn' = Len(log') - 1
      BY <2>2, <3>1, <1>3 DEF SyncUpTo
    <3> QED
      BY <3>2, <1>1, <1>2
  <2> QED
    BY <2>1, <2>2
<1>6. torn' = torn /\ up' = up /\ restarts' = restarts
  OBVIOUS
<1>7. WalTypeOK'
  BY <1>1, <1>4, <1>5, <1>6 DEF WalTypeOK
<1>8. torn' # None => torn' <= Len(log')
  BY <1>1, <1>2, <1>6, NoneAssumption DEF WalTypeOK, WalShape, Tears
<1> QED
  BY <1>1, <1>2, <1>3, <1>4, <1>5, <1>7, <1>8 DEF WalShape

LEMMA AppendFailsKeepsWal ==
    ASSUME WalTypeOK, WalShape, AppendFails
    PROVE  WalTypeOK' /\ WalShape'
<1>1. torn' = torn \/ torn' = IF torn = None THEN Len(log) ELSE torn
  BY DEF AppendFails
<1>2. torn' \in Tears /\ (torn' # None => torn' <= Len(log))
  BY <1>1 DEF WalTypeOK, WalShape, Tears
<1>3. UNCHANGED <<up, log, synced, nextLsn, durableLsn, restarts>>
  BY DEF AppendFails
<1>4. WalTypeOK'
  BY <1>2, <1>3 DEF WalTypeOK
<1>5. up' => nextLsn' = Len(log') /\ (durableLsn' # None => durableLsn' < Len(log'))
  BY <1>3, Zenon DEF WalShape
<1>6. WalShape'
  BY <1>2, <1>3, <1>5 DEF WalShape
<1> QED
  BY <1>4, <1>6

LEMMA StopKeepsWal ==
    ASSUME WalTypeOK, WalShape, Exit \/ Crash
    PROVE  WalTypeOK' /\ WalShape'
<1>1. CASE Exit
  <2>1. /\ up' = FALSE /\ restarts' = restarts + 1 /\ nextLsn' = 0 /\ durableLsn' = None
        /\ UNCHANGED <<log, torn, synced>>
    BY <1>1 DEF Exit, HandleLost
  <2>2. restarts' \in Nat
    BY <2>1 DEF WalTypeOK
  <2>3. WalTypeOK'
    BY <2>1, <2>2 DEF WalTypeOK
  <2>4. ~up'
    BY <2>1, Zenon
  <2> QED
    BY <2>1, <2>3, <2>4 DEF WalShape
<1>2. CASE Crash
  <2>1. PICK k \in synced .. Len(log) :
           /\ log' = SubSeq(log, 1, k)
           /\ torn' \in TearsAfterCrash(k)
           /\ synced' = k
    BY <1>2 DEF Crash
  <2>2. k \in 0 .. Len(log)
    BY <2>1 DEF WalTypeOK
  <2>3. /\ log' \in Seq(LogRecord)
        /\ Len(log') = k
        /\ \A i \in 1 .. k : log'[i] = log[i]
    BY <2>1, <2>2, PrefixFacts
  <2>4. torn' \in Tears /\ (torn' # None => torn' <= k)
    BY <2>1, <2>2, NoneAssumption DEF TearsAfterCrash, Tears, WalTypeOK
  <2>5. \A i \in 1 .. Len(log') : log'[i].lsn = i - 1
    BY <2>2, <2>3 DEF WalShape, WalTypeOK
  <2>6. up' = FALSE /\ restarts' = restarts + 1 /\ nextLsn' = 0 /\ durableLsn' = None
    BY <1>2 DEF Crash, HandleLost
  <2>7. restarts' \in Nat /\ synced' \in Nat
    BY <2>1, <2>2, <2>6 DEF WalTypeOK
  <2>8. WalTypeOK'
    BY <2>3, <2>4, <2>6, <2>7 DEF WalTypeOK
  <2>9. ~up'
    BY <2>6, Zenon
  <2> QED
    BY <2>1, <2>2, <2>3, <2>4, <2>5, <2>8, <2>9 DEF WalShape
<1> QED
  BY <1>1, <1>2

LEMMA OpenKeepsWal ==
    ASSUME WalTypeOK, WalShape, OpenLog
    PROVE  WalTypeOK' /\ WalShape'
<1>1. ValidLength \in 0 .. Len(log)
  BY ValidLengthFacts
<1>2. /\ log' \in Seq(LogRecord)
      /\ Len(log') = ValidLength
      /\ \A i \in 1 .. ValidLength : log'[i] = log[i]
  BY <1>1, PrefixFacts DEF OpenLog, Readable
<1>3. \A i \in 1 .. ValidLength : log[i].lsn = i - 1
  BY <1>1 DEF WalShape, WalTypeOK
<1>4. /\ ReopenLsn = ValidLength
      /\ ReopenDurable = IF ValidLength = 0 THEN None ELSE ValidLength - 1
  BY <1>1, <1>3 DEF ReopenLsn, ReopenDurable
<1>5. synced' \in Nat /\ synced' <= ValidLength
  BY <1>1 DEF OpenLog, WalTypeOK
<1>6. up' = TRUE /\ torn' = None /\ nextLsn' = ReopenLsn /\ durableLsn' = ReopenDurable
        /\ restarts' = restarts
  BY DEF OpenLog
<1>7. nextLsn' = Len(log') /\ durableLsn' \in Nat \cup {None}
      /\ (durableLsn' # None => durableLsn' < Len(log'))
  BY <1>1, <1>2, <1>4, <1>6
<1>8. WalTypeOK'
  BY <1>1, <1>2, <1>5, <1>6, <1>7 DEF WalTypeOK, Tears
<1>9. \A i \in 1 .. Len(log') : log'[i].lsn = i - 1
  BY <1>2, <1>3
<1> QED
  BY <1>2, <1>5, <1>6, <1>7, <1>8, <1>9 DEF WalShape

-----------------------------------------------------------------------------
(* Transactions: type and shape *)

\* A terminal outcome has a marker of its own.
LEMMA TerminalMarkers ==
    ASSUME NEW outcome \in Terminal
    PROVE  Marker(TerminalKind(outcome)) \in Operations
BY MarkersAreOperations DEF Terminal, TerminalKind

\* What every state satisfies and every later proof starts from.
WellFormed == TypeOK /\ WalShape

LEMMA InitWellFormed == Init => WellFormed
BY InitWal DEF Init, WellFormed, TypeOK, ManagerTypeOK

\* The manager's tables keep their types when one transaction ends.
LEMMA FinishKeepsManager ==
    ASSUME ManagerTypeOK, NEW id \in TxIds, NEW outcome \in Terminal,
           Finish(id, outcome)
    PROVE  ManagerTypeOK'
<1>1. [tx |-> id, outcome |-> outcome, clean |-> torn = None] \in Ack
  BY DEF Ack
<1>2. acked' \subseteq Ack
  BY <1>1 DEF Finish, ManagerTypeOK
<1>3. status' \in [TxIds -> {"Unknown", "Active"} \cup Terminal]
  BY DEF Finish, ManagerTypeOK
<1>4. /\ readers' \in [Collections -> SUBSET TxIds]
      /\ writer' \in [Collections -> TxIds \cup {None}]
  BY DEF Finish, ReleaseLocks, ManagerTypeOK
<1>5. nextId' \in Nat \ {0}
  BY DEF Finish, ManagerTypeOK
<1> QED
  BY <1>2, <1>3, <1>4, <1>5 DEF ManagerTypeOK

LEMMA NextWellFormed ==
    ASSUME WellFormed, [Next]_vars
    PROVE  WellFormed'
<1> USE DEF WellFormed, TypeOK
<1>1. CASE OpenManager
  <2>1. ManagerTypeOK'
    BY <1>1 DEF OpenManager, ManagerTypeOK
  <2> QED
    BY <1>1, <2>1, OpenKeepsWal DEF OpenManager
<1>2. CASE Rejected
  BY <1>2 DEF Rejected, OpenRejected, walVars, tmVars, WalTypeOK, WalShape, ManagerTypeOK
<1>3. CASE Stop
  <2>1. ManagerTypeOK'
    BY <1>3 DEF Stop, NoTransactions, ManagerTypeOK
  <2> QED
    BY <1>3, <2>1, StopKeepsWal DEF Stop
<1>4. CASE BeginTx
  <2>1. nextId \in TxIds /\ AppendRecord(nextId, Marker("Begin"))
    BY <1>4 DEF BeginTx
  <2>2. UNCHANGED <<up, torn, restarts, synced, durableLsn>>
    BY <1>4 DEF BeginTx
  <2>3. WalTypeOK' /\ WalShape'
    BY <2>1, <2>2, AppendKeepsWal, MarkersAreOperations
  <2>4. ManagerTypeOK'
    BY <1>4 DEF BeginTx, ManagerTypeOK
  <2> QED
    BY <2>3, <2>4
<1>5. CASE BeginFails
  <2>1. ManagerTypeOK'
    BY <1>5 DEF BeginFails, ManagerTypeOK
  <2> QED
    BY <1>5, <2>1, AppendFailsKeepsWal DEF BeginFails
<1>6. ASSUME NEW id \in TxIds, NEW c \in Collections, AcquireShared(id, c)
      PROVE  WellFormed'
  <2>1. ManagerTypeOK'
    BY <1>6 DEF AcquireShared, ManagerTypeOK
  <2> QED
    BY <1>6, <2>1 DEF AcquireShared, walVars, WalTypeOK, WalShape
<1>7. ASSUME NEW id \in TxIds, NEW c \in Collections, AcquireExclusive(id, c)
      PROVE  WellFormed'
  <2>1. ManagerTypeOK'
    BY <1>7 DEF AcquireExclusive, ManagerTypeOK
  <2> QED
    BY <1>7, <2>1 DEF AcquireExclusive, walVars, WalTypeOK, WalShape
<1>8. ASSUME NEW id \in TxIds, NEW outcome \in Terminal, Finish(id, outcome)
      PROVE  WellFormed'
  <2>1. /\ AppendRecord(id, Marker(TerminalKind(outcome)))
        /\ UNCHANGED <<up, torn, restarts>>
        /\ SyncUpTo(log')
    BY <1>8 DEF Finish
  <2>2. WalTypeOK' /\ WalShape'
    BY <2>1, AppendKeepsWal, TerminalMarkers
  <2> QED
    BY <1>8, <2>2, FinishKeepsManager
<1>9. ASSUME NEW id \in TxIds, FinishAppendFails(id)
      PROVE  WellFormed'
  <2>1. ManagerTypeOK'
    BY <1>9 DEF FinishAppendFails, ManagerTypeOK, tmVars
  <2> QED
    BY <1>9, <2>1, AppendFailsKeepsWal DEF FinishAppendFails
<1>10. ASSUME NEW id \in TxIds, NEW outcome \in Terminal, FinishFlushFails(id, outcome)
       PROVE  WellFormed'
  <2>1. /\ AppendRecord(id, Marker(TerminalKind(outcome)))
        /\ UNCHANGED <<up, torn, restarts, synced, durableLsn>>
    BY <1>10 DEF FinishFlushFails
  <2>2. WalTypeOK' /\ WalShape'
    BY <2>1, AppendKeepsWal, TerminalMarkers
  <2>3. ManagerTypeOK'
    BY <1>10 DEF FinishFlushFails, ManagerTypeOK, tmVars
  <2> QED
    BY <2>2, <2>3
<1>11. CASE UNCHANGED vars
  BY <1>11 DEF vars, walVars, tmVars, WalTypeOK, WalShape, ManagerTypeOK
<1> QED
  BY <1>1, <1>2, <1>3, <1>4, <1>5, <1>6, <1>7, <1>8, <1>9, <1>10, <1>11 DEF Next

\* Every reachable state has the types of TypeOK, and LSNs that follow the
\* records' positions.
THEOREM AlwaysWellFormed == Spec => []WellFormed
BY InitWellFormed, NextWellFormed, PTL DEF Spec

\* The variables of the manager and of its log keep their types.
THEOREM TypeCorrect == Spec => []TypeOK
BY AlwaysWellFormed, PTL DEF WellFormed

\* Records are numbered by position over failed appends, crashes and reopening,
\* so that no later open finds an LSN out of sequence.
THEOREM LsnsAlwaysFollowPositions == Spec => []LsnsFollowPositions
BY AlwaysWellFormed, PTL DEF WellFormed, LsnsFollowPositions

-----------------------------------------------------------------------------
(* Locks *)

\* release_locks leaves id in no entry and every other entry as it was.
LEMMA ReleaseLocksFacts ==
    ASSUME ManagerTypeOK, NEW id \in TxIds, ReleaseLocks(id)
    PROVE  \A c \in Collections :
              /\ readers'[c] = readers[c] \ {id}
              /\ writer'[c] = IF writer[c] = id THEN None ELSE writer[c]
BY DEF ReleaseLocks, ManagerTypeOK

LEMMA NextLockTable ==
    ASSUME TypeOK, LockTable, [Next]_vars
    PROVE  LockTable'
<1> USE DEF TypeOK, LockTable, WriterExcludesOthers, OnlyActiveHoldLocks, Holds, Active
<1>1. CASE OpenManager
  BY <1>1 DEF OpenManager
<1>2. CASE Rejected
  BY <1>2 DEF Rejected, tmVars
<1>3. CASE Stop
  <2>1. \A c \in Collections : readers'[c] = {} /\ writer'[c] = None
    BY <1>3 DEF Stop, NoTransactions
  <2> QED
    BY <2>1, NoneAssumption DEF TxIds
<1>4. CASE BeginTx
  <2>1. \A id \in TxIds : status[id] = "Active" => status'[id] = "Active"
    BY <1>4 DEF BeginTx, ManagerTypeOK
  <2> QED
    BY <1>4, <2>1 DEF BeginTx
<1>5. CASE BeginFails
  BY <1>5 DEF BeginFails
<1>6. ASSUME NEW id \in TxIds, NEW c \in Collections, AcquireShared(id, c)
      PROVE  LockTable'
  <2>1. /\ \A d \in Collections :
              readers'[d] = IF d = c THEN readers[d] \cup {id} ELSE readers[d]
        /\ UNCHANGED <<status, writer>>
    BY <1>6 DEF AcquireShared, ManagerTypeOK
  <2>2. writer[c] \in {None, id} /\ Active(id)
    BY <1>6 DEF AcquireShared, SharedGrantable
  <2>3. WriterExcludesOthers'
    BY <2>1, <2>2
  <2>4. ASSUME NEW d \in Collections, NEW other \in TxIds, Holds(other, d)'
        PROVE  Active(other)'
    <3>1. other = id \/ Holds(other, d)
      BY <2>1, <2>4
    <3> QED
      BY <2>1, <2>2, <3>1
  <2>5. OnlyActiveHoldLocks'
    BY <2>4
  <2> QED
    BY <2>3, <2>5
<1>7. ASSUME NEW id \in TxIds, NEW c \in Collections, AcquireExclusive(id, c)
      PROVE  LockTable'
  <2>1. /\ \A d \in Collections :
              /\ readers'[d] = IF d = c THEN readers[d] \ {id} ELSE readers[d]
              /\ writer'[d] = IF d = c THEN id ELSE writer[d]
        /\ UNCHANGED status
    BY <1>7 DEF AcquireExclusive, ManagerTypeOK
  <2>2. readers[c] \subseteq {id} /\ Active(id)
    BY <1>7 DEF AcquireExclusive, ExclusiveGrantable
  <2>3. WriterExcludesOthers'
    BY <2>1, <2>2
  <2>4. ASSUME NEW d \in Collections, NEW other \in TxIds, Holds(other, d)'
        PROVE  Active(other)'
    <3>1. other = id \/ Holds(other, d)
      BY <2>1, <2>4
    <3> QED
      BY <2>1, <2>2, <3>1
  <2>5. OnlyActiveHoldLocks'
    BY <2>4
  <2> QED
    BY <2>3, <2>5
<1>8. ASSUME NEW id \in TxIds, NEW outcome \in Terminal, Finish(id, outcome)
      PROVE  LockTable'
  <2>1. \A c \in Collections :
           /\ readers'[c] = readers[c] \ {id}
           /\ writer'[c] = IF writer[c] = id THEN None ELSE writer[c]
    BY <1>8, ReleaseLocksFacts DEF Finish
  <2>2. \A other \in TxIds \ {id} : status'[other] = status[other]
    BY <1>8 DEF Finish, ManagerTypeOK
  <2>3. None # id
    BY NoneAssumption DEF TxIds
  <2>4. WriterExcludesOthers'
    BY <2>1
  <2>5. \A c \in Collections : id \notin readers'[c] /\ writer'[c] # id
    BY <2>1, <2>3
  <2>6. ASSUME NEW other \in TxIds, NEW c \in Collections, Holds(other, c)'
        PROVE  Active(other)'
    <3>1. other # id /\ Holds(other, c)
      BY <2>1, <2>5, <2>6, NoneAssumption DEF TxIds
    <3> QED
      BY <3>1, <2>2
  <2> QED
    BY <2>4, <2>6
<1>9. ASSUME NEW id \in TxIds, FinishAppendFails(id)
      PROVE  LockTable'
  BY <1>9 DEF FinishAppendFails, tmVars
<1>10. ASSUME NEW id \in TxIds, NEW outcome \in Terminal, FinishFlushFails(id, outcome)
       PROVE  LockTable'
  BY <1>10 DEF FinishFlushFails, tmVars
<1>11. CASE UNCHANGED vars
  BY <1>11 DEF vars, tmVars
<1> QED
  BY <1>1, <1>2, <1>3, <1>4, <1>5, <1>6, <1>7, <1>8, <1>9, <1>10, <1>11 DEF Next

\* However acquisitions, failures and releases of any number of transactions
\* interleave, an exclusive lock shuts every other transaction out, no lock
\* outlives its transaction, and none is left behind by a commit or a rollback.
\* Neither part needs more than the types to be inductive.
THEOREM AlwaysLockTable == Spec => []LockTable
<1>1. Init => LockTable
  BY NoneAssumption
     DEF Init, LockTable, WriterExcludesOthers, OnlyActiveHoldLocks, Holds, TxIds
<1> QED
  BY <1>1, NextLockTable, TypeCorrect, PTL DEF Spec

-----------------------------------------------------------------------------
(* Transaction states and ids *)

\* Ids not handed out yet are unknown, and a closed manager knows none: what
\* keeps begin from reviving a transaction that has moved on.
FreshIds ==
    /\ \A id \in TxIds : id >= nextId => status[id] = "Unknown"
    /\ ~up => \A id \in TxIds : status[id] = "Unknown"

LEMMA NextFreshIds ==
    ASSUME TypeOK, FreshIds, [Next]_vars
    PROVE  FreshIds'
<1> USE DEF TypeOK, FreshIds
<1>a. TxIds \subseteq Nat /\ nextId \in Nat
  BY DEF TxIds, ManagerTypeOK
<1>1. CASE OpenManager
  BY <1>1 DEF OpenManager, OpenLog
<1>2. CASE Rejected
  BY <1>2 DEF Rejected, OpenRejected, walVars, tmVars
<1>3. CASE Stop
  BY <1>3 DEF Stop, NoTransactions
<1>4. CASE BeginTx
  <2>1. nextId' = nextId + 1 /\ up' = up /\ up
    BY <1>4 DEF BeginTx, AppendRecord
  <2>2. \A id \in TxIds \ {nextId} : status'[id] = status[id]
    BY <1>4 DEF BeginTx, ManagerTypeOK
  <2>3. \A id \in TxIds : id >= nextId' => id \in TxIds \ {nextId} /\ id >= nextId
    BY <1>a, <2>1
  <2>4. up'
    BY <2>1, Zenon
  <2> QED
    BY <2>2, <2>3, <2>4
<1>5. CASE BeginFails
  <2>1. nextId' = nextId + 1 /\ up' = up /\ up /\ status' = status
    BY <1>5 DEF BeginFails, AppendFails
  <2>2. \A id \in TxIds : id >= nextId' => id >= nextId
    BY <1>a, <2>1
  <2>3. up'
    BY <2>1, Zenon
  <2> QED
    BY <2>1, <2>2, <2>3
<1>6. ASSUME NEW id \in TxIds, NEW c \in Collections,
             AcquireShared(id, c) \/ AcquireExclusive(id, c)
      PROVE  FreshIds'
  BY <1>6 DEF AcquireShared, AcquireExclusive, walVars
<1>7. ASSUME NEW id \in TxIds, NEW outcome \in Terminal, Finish(id, outcome)
      PROVE  FreshIds'
  <2>1. nextId' = nextId /\ up' = up /\ up /\ Active(id)
    BY <1>7 DEF Finish
  <2>2. \A other \in TxIds \ {id} : status'[other] = status[other]
    BY <1>7 DEF Finish, ManagerTypeOK
  <2>3. \A other \in TxIds : other >= nextId => other # id
    BY <2>1 DEF Active
  <2>4. up'
    BY <2>1, Zenon
  <2> QED
    BY <2>1, <2>2, <2>3, <2>4
<1>8. ASSUME NEW id \in TxIds, NEW outcome \in Terminal,
             FinishAppendFails(id) \/ FinishFlushFails(id, outcome)
      PROVE  FreshIds'
  BY <1>8 DEF FinishAppendFails, FinishFlushFails, AppendFails, tmVars
<1>9. CASE UNCHANGED vars
  BY <1>9 DEF vars, walVars, tmVars
<1>10. ASSUME NEW id \in TxIds, FinishAppendFails(id) PROVE FreshIds'
  <2>1. "Committed" \in Terminal
    BY DEF Terminal
  <2> QED
    BY <1>8, <1>10, <2>1
<1> QED
  BY <1>1, <1>2, <1>3, <1>4, <1>5, <1>6, <1>7, <1>8, <1>9, <1>10 DEF Next

LEMMA AlwaysFreshIds == Spec => []FreshIds
<1>1. Init => FreshIds
  BY DEF Init, FreshIds
<1> QED
  BY <1>1, NextFreshIds, TypeCorrect, PTL DEF Spec

LEMMA NextMovesForward ==
    ASSUME TypeOK, FreshIds, [Next]_vars
    PROVE  [MovesForward]_vars
<1> SUFFICES ASSUME Next, NEW id \in TxIds, up, up'
             PROVE  /\ status[id] \in Terminal => status'[id] = status[id]
                    /\ status'[id] = "Active" => status[id] \in {"Active", "Unknown"}
  BY DEF MovesForward
<1> USE DEF TypeOK
<1>1. CASE UNCHANGED status
  BY <1>1
<1>2. CASE BeginTx
  <2>1. nextId \in TxIds /\ status' = [status EXCEPT ![nextId] = "Active"]
    BY <1>2 DEF BeginTx
  <2>2. status[nextId] = "Unknown"
    BY <2>1 DEF FreshIds, ManagerTypeOK
  <2> QED
    BY <2>1, <2>2 DEF ManagerTypeOK, Terminal
<1>3. ASSUME NEW ended \in TxIds, NEW outcome \in Terminal, Finish(ended, outcome)
      PROVE  /\ status[id] \in Terminal => status'[id] = status[id]
             /\ status'[id] = "Active" => status[id] \in {"Active", "Unknown"}
  <2>1. status' = [status EXCEPT ![ended] = outcome] /\ status[ended] = "Active"
    BY <1>3 DEF Finish, Active
  <2> QED
    BY <2>1 DEF ManagerTypeOK, Terminal
<1>4. CASE Stop
  <2>1. ~up'
    BY <1>4, Zenon DEF Stop, Exit, Crash
  <2> QED
    BY <2>1
<1> QED
  BY <1>1, <1>2, <1>3, <1>4
     DEF Next, OpenManager, Rejected, BeginFails, AcquireShared, AcquireExclusive,
         FinishAppendFails, FinishFlushFails, tmVars

\* commit and rollback reject a transaction that has moved, and begin never
\* meets one, because ids only grow.
THEOREM TransactionsMoveOnce == Spec => MovesOnce
BY NextMovesForward, TypeCorrect, AlwaysFreshIds, PTL DEF Spec, MovesOnce

LEMMA NextReleasesDurably ==
    ASSUME WellFormed, [Next]_vars
    PROVE  [ReleasesDurably]_vars
<1> SUFFICES ASSUME Next, NEW c \in Collections, NEW id \in TxIds,
                    up, up', Holds(id, c), ~Holds(id, c)'
             PROVE  \E i \in 1 .. synced', o \in Terminal :
                       TerminalRecordAt(i, id, o)' /\ status'[id] = o
  BY DEF ReleasesDurably
<1> USE DEF WellFormed, TypeOK
<1>1. ASSUME NEW ended \in TxIds, NEW outcome \in Terminal, Finish(ended, outcome)
      PROVE  \E i \in 1 .. synced', o \in Terminal :
                TerminalRecordAt(i, id, o)' /\ status'[id] = o
  <2>1. /\ readers'[c] = readers[c] \ {ended}
        /\ writer'[c] = IF writer[c] = ended THEN None ELSE writer[c]
    BY <1>1, ReleaseLocksFacts DEF Finish
  <2>2. id = ended
    BY <2>1 DEF Holds
  <2>3. Marker(TerminalKind(outcome)) \in Operations /\ AppendRecord(ended, Marker(TerminalKind(outcome)))
    BY <1>1, TerminalMarkers DEF Finish
  <2>4. /\ Len(log') = Len(log) + 1
        /\ log'[Len(log) + 1] =
              [lsn |-> nextLsn, tx |-> ended, op |-> Marker(TerminalKind(outcome))]
    BY <2>3, AppendRecordFacts
  <2>5. PICK n \in 1 .. synced' : n = Len(log) + 1
    BY <1>1, <2>4 DEF Finish, SyncUpTo, WalTypeOK
  <2>6. TerminalRecordAt(n, id, outcome)'
    BY <2>2, <2>4, <2>5 DEF TerminalRecordAt, Marker, WalTypeOK
  <2>7. status'[id] = outcome
    BY <1>1, <2>2 DEF Finish, ManagerTypeOK
  <2> QED
    BY <2>6, <2>7
<1>2. CASE UNCHANGED <<readers, writer>>
  BY <1>2 DEF Holds
<1>3. ASSUME NEW other \in TxIds, NEW d \in Collections, AcquireShared(other, d)
      PROVE  FALSE
  <2>1. readers[c] \subseteq readers'[c] /\ writer' = writer
    BY <1>3 DEF AcquireShared, ManagerTypeOK
  <2> QED
    BY <2>1 DEF Holds
<1>4. ASSUME NEW other \in TxIds, NEW d \in Collections, AcquireExclusive(other, d)
      PROVE  FALSE
  <2>1. /\ d # c => readers'[c] = readers[c] /\ writer'[c] = writer[c]
        /\ d = c => readers[c] \subseteq {other} /\ writer[c] \in {None, other}
                      /\ writer'[c] = other
    BY <1>4 DEF AcquireExclusive, ExclusiveGrantable, ManagerTypeOK
  <2> QED
    BY <2>1, NoneAssumption DEF Holds, TxIds
<1>5. CASE Stop
  <2>1. ~up'
    BY <1>5, Zenon DEF Stop, Exit, Crash
  <2> QED
    BY <2>1
<1> QED
  BY <1>1, <1>2, <1>3, <1>4, <1>5
     DEF Next, OpenManager, Rejected, BeginTx, BeginFails, FinishAppendFails,
         FinishFlushFails, tmVars

\* Strictness of the two phases, with durability: whoever gets a lock after
\* another transaction finds that transaction's outcome on the disk.
THEOREM LocksOutliveDurability == Spec => ReleaseAfterDurableOutcome
BY NextReleasesDurably, AlwaysWellFormed, PTL DEF Spec, ReleaseAfterDurableOutcome

-----------------------------------------------------------------------------
(* Ids in the log *)

\* The two parts of IdsBeginOnce.
BeginsDistinct ==
    \A i, j \in 1 .. Len(log) :
        log[i].op.kind = "Begin" /\ log[j].op.kind = "Begin" /\ log[i].tx = log[j].tx => i = j

IdsBelowNext == \A i \in 1 .. Len(log) : log[i].tx < nextId

\* No cut of the log makes two Begin records of one id.
LEMMA PrefixBeginsDistinct ==
    ASSUME WalTypeOK, BeginsDistinct, NEW k \in 0 .. Len(log), log' = SubSeq(log, 1, k)
    PROVE  BeginsDistinct'
<1>1. Len(log') = k /\ \A i \in 1 .. k : log'[i] = log[i]
  BY PrefixFacts
<1>2. Len(log) \in Nat /\ \A i \in 1 .. k : i \in 1 .. Len(log)
  BY DEF WalTypeOK
<1> QED
  BY <1>1, <1>2 DEF BeginsDistinct

\* A record of an id below next_id that is not a Begin record changes nothing.
LEMMA TerminalKeepsIds ==
    ASSUME WalTypeOK, BeginsDistinct, IdsBelowNext, NEW id \in TxIds, NEW outcome \in Terminal,
           AppendRecord(id, Marker(TerminalKind(outcome))), id < nextId, nextId' = nextId
    PROVE  BeginsDistinct' /\ IdsBelowNext'
<1>1. /\ Len(log') = Len(log) + 1
      /\ \A i \in 1 .. Len(log) : log'[i] = log[i]
      /\ log'[Len(log) + 1] = [lsn |-> nextLsn, tx |-> id, op |-> Marker(TerminalKind(outcome))]
  BY AppendRecordFacts, TerminalMarkers
<1>2. log'[Len(log) + 1].op.kind # "Begin" /\ log'[Len(log) + 1].tx = id
  BY <1>1 DEF Marker, TerminalKind
<1>3. Len(log) \in Nat
  BY DEF WalTypeOK
<1>4. \A i \in 1 .. Len(log') : i \in 1 .. Len(log) \/ i = Len(log) + 1
  BY <1>1, <1>3
<1> QED
  BY <1>1, <1>2, <1>4 DEF BeginsDistinct, IdsBelowNext

LEMMA NextIdsBeginOnce ==
    ASSUME WellFormed, FreshIds, IdsBeginOnce, [Next]_vars
    PROVE  IdsBeginOnce'
<1> USE DEF WellFormed, TypeOK
<1>a. IdsBeginOnce <=> BeginsDistinct /\ (up => IdsBelowNext)
  BY Zenon DEF IdsBeginOnce, BeginsDistinct, IdsBelowNext
<1>b. IdsBeginOnce' <=> BeginsDistinct' /\ (up' => IdsBelowNext')
  BY Zenon DEF IdsBeginOnce, BeginsDistinct, IdsBelowNext
<1>c. BeginsDistinct
  BY <1>a
<1>d. up => IdsBelowNext
  BY <1>a
<1>e. Len(log) \in Nat /\ nextId \in Nat /\ \A i \in 1 .. Len(log) : log[i] \in LogRecord
  BY DEF WalTypeOK, ManagerTypeOK
<1>1. CASE OpenManager
  <2>1. ValidLength \in 0 .. Len(log)
    BY ValidLengthFacts
  <2>2. log' = SubSeq(log, 1, ValidLength)
    BY <1>1 DEF OpenManager, OpenLog, Readable
  <2>3. BeginsDistinct'
    BY <1>c, <2>1, <2>2, PrefixBeginsDistinct
  <2>4. Len(log') = ValidLength /\ \A i \in 1 .. ValidLength : log'[i] = log[i]
    BY <2>1, <2>2, PrefixFacts
  <2>5. \A i \in 1 .. ValidLength : log[i].tx < nextId'
    BY <1>1 DEF OpenManager, ResumesAt, Recorded
  <2>6. IdsBelowNext'
    BY <2>4, <2>5 DEF IdsBelowNext
  <2> QED
    BY <1>b, <2>3, <2>6
<1>2. CASE Stop
  <2>1. ~up'
    BY <1>2, Zenon DEF Stop, Exit, Crash
  <2>2. CASE Exit
    BY <1>b, <1>c, <2>1, <2>2 DEF Exit, BeginsDistinct
  <2>3. CASE Crash
    <3>1. PICK k \in synced .. Len(log) : log' = SubSeq(log, 1, k)
      BY <2>3 DEF Crash
    <3>2. k \in 0 .. Len(log)
      BY <3>1 DEF WalTypeOK
    <3> QED
      BY <1>b, <1>c, <2>1, <3>1, <3>2, PrefixBeginsDistinct
  <2> QED
    BY <1>2, <2>2, <2>3 DEF Stop
<1>3. CASE BeginTx
  <2>1. /\ nextId \in TxIds /\ AppendRecord(nextId, Marker("Begin")) /\ up
        /\ nextId' = nextId + 1
    BY <1>3 DEF BeginTx, AppendRecord
  <2>2. /\ Len(log') = Len(log) + 1
        /\ \A i \in 1 .. Len(log) : log'[i] = log[i]
        /\ log'[Len(log) + 1] = [lsn |-> nextLsn, tx |-> nextId, op |-> Marker("Begin")]
    BY <2>1, AppendRecordFacts, MarkersAreOperations
  <2>3. \A i \in 1 .. Len(log) : log[i].tx \in Nat /\ log[i].tx < nextId
    BY <1>d, <1>e, <2>1 DEF IdsBelowNext, LogRecord, TxIds
  <2>4. \A i \in 1 .. Len(log') : i \in 1 .. Len(log) \/ i = Len(log) + 1
    BY <1>e, <2>2
  <2>5. log'[Len(log) + 1].tx = nextId
    BY <2>2
  <2>6. BeginsDistinct'
    <3> SUFFICES ASSUME NEW i \in 1 .. Len(log'), NEW j \in 1 .. Len(log'),
                        log'[i].op.kind = "Begin", log'[j].op.kind = "Begin",
                        log'[i].tx = log'[j].tx
                 PROVE  i = j
      BY DEF BeginsDistinct
    <3>1. CASE i \in 1 .. Len(log) /\ j \in 1 .. Len(log)
      BY <1>c, <2>2, <3>1 DEF BeginsDistinct
    <3>2. CASE i = Len(log) + 1 /\ j \in 1 .. Len(log)
      BY <1>e, <2>2, <2>3, <2>5, <3>2
    <3>3. CASE j = Len(log) + 1 /\ i \in 1 .. Len(log)
      BY <1>e, <2>2, <2>3, <2>5, <3>3
    <3> QED
      BY <2>4, <3>1, <3>2, <3>3
  <2>7. IdsBelowNext'
    BY <1>e, <2>1, <2>2, <2>3, <2>4, <2>5 DEF IdsBelowNext
  <2> QED
    BY <1>b, <2>6, <2>7
<1>4. CASE BeginFails
  <2>1. nextId' = nextId + 1 /\ up /\ log' = log
    BY <1>4 DEF BeginFails, AppendFails
  <2>2. IdsBelowNext'
    BY <1>d, <1>e, <2>1 DEF IdsBelowNext, LogRecord, TxIds
  <2>3. BeginsDistinct'
    BY <1>c, <2>1 DEF BeginsDistinct
  <2> QED
    BY <1>b, <2>2, <2>3
<1>5. ASSUME NEW id \in TxIds, NEW outcome \in Terminal,
             Finish(id, outcome) \/ FinishFlushFails(id, outcome)
      PROVE  IdsBeginOnce'
  <2>1. /\ AppendRecord(id, Marker(TerminalKind(outcome))) /\ up /\ Active(id)
        /\ nextId' = nextId
    BY <1>5 DEF Finish, FinishFlushFails, tmVars
  <2>2. id < nextId
    BY <1>e, <2>1 DEF FreshIds, Active, TxIds
  <2>3. IdsBelowNext
    BY <1>d, <2>1
  <2> QED
    BY <1>b, <1>c, <2>1, <2>2, <2>3, TerminalKeepsIds
<1>6. CASE UNCHANGED <<log, nextId, up>>
  BY <1>6, Zenon DEF IdsBeginOnce
<1> QED
  BY <1>1, <1>2, <1>3, <1>4, <1>5, <1>6
     DEF Next, vars, walVars, tmVars, Rejected, OpenRejected, AcquireShared, AcquireExclusive,
         FinishAppendFails, AppendFails

\* open resumes above every id that is still recorded, so no id begins twice in
\* one log, whatever crashes and torn tails took away in between.
THEOREM IdsAreNeverReused == Spec => []IdsBeginOnce
<1>1. Init => IdsBeginOnce
  BY DEF Init, WalInit, IdsBeginOnce
<1> QED
  BY <1>1, NextIdsBeginOnce, AlwaysWellFormed, AlwaysFreshIds, PTL DEF Spec

-----------------------------------------------------------------------------
(* Durability of reported outcomes *)

\* Appending keeps every outcome that is on the disk.
LEMMA AppendKeepsOutcome ==
    ASSUME WalTypeOK, WalShape, NEW tx \in TxIds, NEW op \in Operations, AppendRecord(tx, op),
           UNCHANGED torn, synced' = synced \/ SyncUpTo(log'),
           NEW id \in TxIds, NEW outcome \in Terminal, OutcomeOnDisk(id, outcome)
    PROVE  OutcomeOnDisk(id, outcome)'
<1>1. PICK i \in 1 .. synced :
         TerminalRecordAt(i, id, outcome) /\ (torn # None => i <= torn)
  BY DEF OutcomeOnDisk
<1>2. Len(log') = Len(log) + 1 /\ \A j \in 1 .. Len(log) : log'[j] = log[j]
  BY AppendRecordFacts
<1>3. synced' \in Nat /\ i \in 1 .. synced'
  BY <1>2 DEF SyncUpTo, WalTypeOK, WalShape
<1>4. TerminalRecordAt(i, id, outcome)'
  BY <1>1, <1>2 DEF TerminalRecordAt, WalTypeOK
<1> QED
  BY <1>1, <1>3, <1>4 DEF OutcomeOnDisk

\* Cutting the file behind what is synchronized, or at a tear, keeps them too.
LEMMA PrefixKeepsOutcome ==
    ASSUME WalTypeOK, WalShape, NEW k \in 0 .. Len(log), log' = SubSeq(log, 1, k),
           synced' \in Nat, synced' <= k,
           \A i \in 1 .. synced : (torn # None => i <= torn) =>
               i \in 1 .. synced' /\ (torn' # None => i <= torn'),
           NEW id \in TxIds, NEW outcome \in Terminal, OutcomeOnDisk(id, outcome)
    PROVE  OutcomeOnDisk(id, outcome)'
<1>1. PICK i \in 1 .. synced :
         TerminalRecordAt(i, id, outcome) /\ (torn # None => i <= torn)
  BY DEF OutcomeOnDisk
<1>2. Len(log') = k /\ \A j \in 1 .. k : log'[j] = log[j]
  BY PrefixFacts
<1>3. i \in 1 .. synced' /\ i \in 1 .. k /\ (torn' # None => i <= torn')
  BY <1>1
<1>4. TerminalRecordAt(i, id, outcome)'
  BY <1>1, <1>2, <1>3 DEF TerminalRecordAt
<1> QED
  BY <1>3, <1>4 DEF OutcomeOnDisk

\* No step takes an outcome off the disk.
LEMMA NextKeepsOutcome ==
    ASSUME WellFormed, [Next]_vars,
           NEW id \in TxIds, NEW outcome \in Terminal, OutcomeOnDisk(id, outcome)
    PROVE  OutcomeOnDisk(id, outcome)'
<1> USE DEF WellFormed, TypeOK
<1>a. Len(log) \in Nat /\ synced \in Nat /\ synced <= Len(log)
  BY DEF WalTypeOK, WalShape
<1>1. CASE OpenManager
  <2>1. /\ log' = SubSeq(log, 1, ValidLength) /\ torn' = None
        /\ synced' = IF synced <= ValidLength THEN synced ELSE ValidLength
    BY <1>1 DEF OpenManager, OpenLog, Readable
  <2>2. /\ ValidLength \in 0 .. Len(log)
        /\ torn # None => ValidLength = torn
        /\ torn = None => ValidLength = Len(log)
    BY ValidLengthFacts
  <2>3. synced' \in Nat /\ synced' <= ValidLength
    BY <1>a, <2>1, <2>2
  <2>4. \A i \in 1 .. synced : (torn # None => i <= torn) =>
            i \in 1 .. synced' /\ (torn' # None => i <= torn')
    BY <1>a, <2>1, <2>2
  <2> QED
    BY <2>1, <2>2, <2>3, <2>4, PrefixKeepsOutcome
<1>2. CASE Crash
  <2>1. PICK k \in synced .. Len(log) :
           log' = SubSeq(log, 1, k) /\ torn' \in TearsAfterCrash(k) /\ synced' = k
    BY <1>2 DEF Crash
  <2>2. k \in 0 .. Len(log) /\ synced <= k
    BY <1>a, <2>1
  <2>3. torn' = None \/ torn' = k \/ torn' = torn
    BY <2>1 DEF TearsAfterCrash
  <2>4. \A i \in 1 .. synced : (torn # None => i <= torn) =>
            i \in 1 .. synced' /\ (torn' # None => i <= torn')
    BY <1>a, <2>1, <2>2, <2>3
  <2> QED
    BY <2>1, <2>2, <2>4, PrefixKeepsOutcome
<1>3. CASE AppendFails
  <2>1. /\ UNCHANGED <<log, synced>>
        /\ torn' = torn \/ torn' = IF torn = None THEN Len(log) ELSE torn
    BY <1>3 DEF AppendFails
  <2>2. PICK i \in 1 .. synced :
           TerminalRecordAt(i, id, outcome) /\ (torn # None => i <= torn)
    BY DEF OutcomeOnDisk
  <2>3. torn' # None => i <= torn'
    BY <1>a, <2>1, <2>2
  <2>4. TerminalRecordAt(i, id, outcome)'
    BY <2>1, <2>2 DEF TerminalRecordAt
  <2> QED
    BY <2>1, <2>2, <2>3, <2>4 DEF OutcomeOnDisk
<1>4. CASE BeginTx
  <2>1. /\ nextId \in TxIds /\ AppendRecord(nextId, Marker("Begin"))
        /\ UNCHANGED torn /\ synced' = synced
    BY <1>4 DEF BeginTx
  <2> QED
    BY <2>1, AppendKeepsOutcome, MarkersAreOperations
<1>5. ASSUME NEW tx \in TxIds, NEW o \in Terminal, Finish(tx, o) \/ FinishFlushFails(tx, o)
      PROVE  OutcomeOnDisk(id, outcome)'
  <2>1. /\ AppendRecord(tx, Marker(TerminalKind(o)))
        /\ UNCHANGED torn /\ (synced' = synced \/ SyncUpTo(log'))
    BY <1>5 DEF Finish, FinishFlushFails
  <2> QED
    BY <2>1, AppendKeepsOutcome, TerminalMarkers
<1>6. CASE UNCHANGED <<log, synced, torn>>
  BY <1>6 DEF OutcomeOnDisk, TerminalRecordAt
<1> QED
  BY <1>1, <1>2, <1>3, <1>4, <1>5, <1>6
     DEF Next, vars, walVars, tmVars, Rejected, OpenRejected, Stop, Exit, BeginFails,
         AcquireShared, AcquireExclusive, FinishAppendFails

\* What commit and rollback report with no tear in the file is on the disk.
LEMMA FinishIsOnDisk ==
    ASSUME WellFormed, NEW id \in TxIds, NEW outcome \in Terminal,
           Finish(id, outcome), torn = None
    PROVE  OutcomeOnDisk(id, outcome)'
<1> USE DEF WellFormed, TypeOK
<1>1. AppendRecord(id, Marker(TerminalKind(outcome))) /\ SyncUpTo(log') /\ torn' = None
  BY DEF Finish
<1>2. /\ Len(log') = Len(log) + 1
      /\ log'[Len(log) + 1] = [lsn |-> nextLsn, tx |-> id, op |-> Marker(TerminalKind(outcome))]
  BY <1>1, AppendRecordFacts, TerminalMarkers
<1>3. PICK n \in 1 .. synced' : n = Len(log) + 1
  BY <1>1, <1>2 DEF SyncUpTo, WalTypeOK
<1>4. TerminalRecordAt(n, id, outcome)'
  BY <1>2, <1>3 DEF TerminalRecordAt, Marker, WalTypeOK
<1> QED
  BY <1>1, <1>3, <1>4 DEF OutcomeOnDisk

LEMMA NextReportedOutcome ==
    ASSUME WellFormed, ReportedOutcomeStaysOnDisk, [Next]_vars
    PROVE  ReportedOutcomeStaysOnDisk'
<1> SUFFICES ASSUME NEW a \in acked', a.clean
             PROVE  OutcomeOnDisk(a.tx, a.outcome)'
  BY DEF ReportedOutcomeStaysOnDisk
<1>1. CASE a \in acked
  <2>1. a.tx \in TxIds /\ a.outcome \in Terminal
    BY <1>1 DEF WellFormed, TypeOK, ManagerTypeOK, Ack
  <2>2. OutcomeOnDisk(a.tx, a.outcome)
    BY <1>1 DEF ReportedOutcomeStaysOnDisk
  <2> QED
    BY <2>1, <2>2, NextKeepsOutcome
<1>2. CASE a \notin acked
  <2>1. PICK id \in TxIds, outcome \in Terminal :
           /\ Finish(id, outcome)
           /\ a = [tx |-> id, outcome |-> outcome, clean |-> torn = None]
    BY <1>2 DEF Next, vars, OpenManager, Rejected, Stop, BeginTx, BeginFails, AcquireShared,
                AcquireExclusive, Finish, FinishAppendFails, FinishFlushFails
  <2>2. torn = None /\ a.tx = id /\ a.outcome = outcome
    BY <2>1
  <2> QED
    BY <2>1, <2>2, FinishIsOnDisk
<1> QED
  BY <1>1, <1>2

\* Whatever fails, stops or crashes afterwards, an outcome reported before any
\* append failed is on the disk in front of every tear.
THEOREM ReportedOutcomesAreDurable == Spec => []ReportedOutcomeStaysOnDisk
<1>1. Init => ReportedOutcomeStaysOnDisk
  BY DEF Init, ReportedOutcomeStaysOnDisk
<1> QED
  BY <1>1, NextReportedOutcome, AlwaysWellFormed, PTL DEF Spec

\* A rollback whose Abort record is on the disk is decoded by every later
\* recovery, which then leaves the transaction out.
LEMMA AbortOnDiskIsDecoded ==
    ASSUME WellFormed, NEW id \in TxIds, OutcomeOnDisk(id, "RolledBack")
    PROVE  id \notin CommittedIds(Readable)
<1> USE DEF WellFormed, TypeOK
<1>1. PICK i \in 1 .. synced :
         TerminalRecordAt(i, id, "RolledBack") /\ (torn # None => i <= torn)
  BY DEF OutcomeOnDisk
<1>2. /\ ValidLength \in 0 .. Len(log)
      /\ torn # None => ValidLength = torn
      /\ torn = None => ValidLength = Len(log)
  BY ValidLengthFacts
<1>3. i \in 1 .. ValidLength
  BY <1>1, <1>2 DEF WalTypeOK, WalShape
<1>4. Len(Readable) = ValidLength /\ Readable[i] = log[i]
  BY <1>2, <1>3, PrefixFacts DEF Readable
<1>5. log[i].tx = id /\ log[i].op.kind = "Abort"
  BY <1>1 DEF TerminalRecordAt, TerminalKind
<1>6. i \in DOMAIN Readable
  BY <1>2, <1>3, <1>4, PrefixFacts DEF Readable
<1>7. id \in IdsWith(Readable, "Abort")
  BY <1>4, <1>5, <1>6 DEF IdsWith
<1> QED
  BY <1>7 DEF CommittedIds

\* recover never replays a transaction whose rollback was reported, although an
\* earlier commit of it may have left a Commit record in the log.
THEOREM RollbacksAreFinal == Spec => []RolledBackStaysOut
<1>1. WellFormed /\ ReportedOutcomeStaysOnDisk => RolledBackStaysOut
  BY AbortOnDiskIsDecoded
     DEF ReportedOutcomeStaysOnDisk, RolledBackStaysOut, WellFormed, TypeOK, ManagerTypeOK, Ack
<1> QED
  BY <1>1, AlwaysWellFormed, ReportedOutcomesAreDurable, PTL

-----------------------------------------------------------------------------
(* Positions *)

\* A nonempty set of positions has a first and a last one: take a position with
\* the fewest of the set on one side of it.
LEMMA FirstAndLast ==
    ASSUME NEW n \in Nat, NEW S \in SUBSET (1 .. n), S # {}
    PROVE  /\ \E m \in S : \A j \in S : m <= j
           /\ \E m \in S : \A j \in S : j <= m
<1>1. IsWellFoundedOn(StrictSubsetOrdering(1 .. n), FiniteSubsetsOf(1 .. n))
  BY FS_StrictSubsetOrderingWellFounded
<1>2. IsFiniteSet(1 .. n)
  BY FS_Interval
<1>3. \A T \in SUBSET (1 .. n) : T \in FiniteSubsetsOf(1 .. n)
  BY <1>2, FS_Subset DEF FiniteSubsetsOf
<1>4. \E m \in S : \A j \in S : m <= j
  <2> DEFINE Sides == {{j \in 1 .. n : j < m} : m \in S}
  <2>1. Sides \subseteq FiniteSubsetsOf(1 .. n) /\ Sides # {}
    BY <1>3
  <2>2. PICK x \in Sides : \A y \in Sides : ~ (<<y, x>> \in StrictSubsetOrdering(1 .. n))
    BY <1>1, <2>1, WFMin
  <2>3. PICK m \in S : x = {j \in 1 .. n : j < m}
    BY <2>2
  <2>4. ASSUME NEW j \in S, ~(m <= j)
        PROVE  FALSE
    <3>1. j \in 1 .. n /\ m \in 1 .. n /\ j < m
      BY <2>4
    <3>2. {k \in 1 .. n : k < j} \subseteq x /\ j \in x /\ j \notin {k \in 1 .. n : k < j}
      BY <2>3, <3>1
    <3>3. <<{k \in 1 .. n : k < j}, x>> \in StrictSubsetOrdering(1 .. n)
      BY <2>3, <3>2 DEF StrictSubsetOrdering
    <3> QED
      BY <2>2, <2>4, <3>3
  <2> QED
    BY <2>4
<1>5. \E m \in S : \A j \in S : j <= m
  <2> DEFINE Sides == {{j \in 1 .. n : m < j} : m \in S}
  <2>1. Sides \subseteq FiniteSubsetsOf(1 .. n) /\ Sides # {}
    BY <1>3
  <2>2. PICK x \in Sides : \A y \in Sides : ~ (<<y, x>> \in StrictSubsetOrdering(1 .. n))
    BY <1>1, <2>1, WFMin
  <2>3. PICK m \in S : x = {j \in 1 .. n : m < j}
    BY <2>2
  <2>4. ASSUME NEW j \in S, ~(j <= m)
        PROVE  FALSE
    <3>1. j \in 1 .. n /\ m \in 1 .. n /\ m < j
      BY <2>4
    <3>2. {k \in 1 .. n : j < k} \subseteq x /\ j \in x /\ j \notin {k \in 1 .. n : j < k}
      BY <2>3, <3>1
    <3>3. <<{k \in 1 .. n : j < k}, x>> \in StrictSubsetOrdering(1 .. n)
      BY <2>3, <3>2 DEF StrictSubsetOrdering
    <3> QED
      BY <2>2, <2>4, <3>3
  <2> QED
    BY <2>4
<1> QED
  BY <1>4, <1>5

-----------------------------------------------------------------------------
(* The records recovery reads *)

\* The positions of the records that recover replays.
Replayed == {i \in DOMAIN Readable : Replays(Readable, Readable[i])}

LEMMA ReadableFacts ==
    ASSUME WalTypeOK, WalShape
    PROVE  /\ ValidLength \in 0 .. Len(log)
           /\ DOMAIN Readable = 1 .. ValidLength
           /\ \A i \in 1 .. ValidLength : Readable[i] = log[i]
<1>1. ValidLength \in 0 .. Len(log)
  BY ValidLengthFacts
<1>2. Len(Readable) = ValidLength /\ Readable \in Seq(LogRecord)
  BY <1>1, PrefixFacts DEF Readable
<1> QED
  BY <1>1, <1>2, PrefixFacts DEF Readable

\* Every operation that is a page write names a page and an image.
LEMMA WriteTypes ==
    ASSUME NEW op \in Operations, op.kind = "PageWrite"
    PROVE  op.page \in Pages /\ op.image \in Images
BY DEF Operations, Marker, PageWrite

LEMMA ReplayedFacts ==
    ASSUME WalTypeOK, WalShape
    PROVE  /\ Replayed \subseteq 1 .. ValidLength
           /\ \A i \in Replayed : /\ log[i].op.kind = "PageWrite"
                                  /\ log[i].op.page \in Pages
                                  /\ log[i].op.image \in Images
           /\ \A p \in Pages : WritesOf(Readable, p) = {i \in Replayed : log[i].op.page = p}
<1>1. /\ ValidLength \in 0 .. Len(log)
      /\ DOMAIN Readable = 1 .. ValidLength
      /\ \A i \in 1 .. ValidLength : Readable[i] = log[i]
  BY ReadableFacts
<1>2. \A i \in 1 .. ValidLength : log[i].op \in Operations
  <2>1. \A i \in 1 .. Len(log) : log[i] \in LogRecord
    BY DEF WalTypeOK
  <2> QED
    BY <1>1, <2>1 DEF LogRecord
<1>3. \A i \in Replayed : i \in 1 .. ValidLength /\ log[i].op.kind = "PageWrite"
  BY <1>1 DEF Replayed, Replays
<1>4. \A p \in Pages : WritesOf(Readable, p) = {i \in Replayed : log[i].op.page = p}
  BY <1>1 DEF WritesOf, Replayed, Replays, CommittedIds
<1> QED
  BY <1>2, <1>3, <1>4, WriteTypes

\* Decoding depends on the records and the tear alone.
LEMMA SameReadable ==
    ASSUME UNCHANGED <<log, torn>>
    PROVE  /\ ValidLength' = ValidLength /\ Readable' = Readable
           /\ Replayed' = Replayed
           /\ \A p \in Pages : WritesOf(Readable, p)' = WritesOf(Readable, p)
           /\ \A p \in Pages : LastImage(Readable, p)' = LastImage(Readable, p)
<1>1. ValidLength' = ValidLength /\ Readable' = Readable
  BY DEF ValidLength, Readable
<1>2. Replayed' = Replayed
  BY <1>1 DEF Replayed
<1> QED
  BY <1>1, <1>2

\* A page without a committed write has no last image; any other has that of a
\* write behind which there is no other.
LEMMA LastImageFacts ==
    ASSUME WalTypeOK, WalShape, NEW p \in Pages
    PROVE  /\ LastImage(Readable, p) \in Images \cup {NoImage}
           /\ LastImage(Readable, p) # NoImage =>
                \E i \in WritesOf(Readable, p) :
                    /\ \A j \in WritesOf(Readable, p) : j <= i
                    /\ LastImage(Readable, p) = log[i].op.image
<1> DEFINE W == WritesOf(Readable, p)
<1>1. /\ W \in SUBSET (1 .. ValidLength) /\ ValidLength \in Nat
      /\ \A i \in W : log[i].op.image \in Images /\ Readable[i] = log[i]
  BY ReplayedFacts, ReadableFacts DEF WalTypeOK
<1>2. CASE W = {}
  BY <1>2 DEF LastImage
<1>3. CASE W # {}
  <2>1. \E i \in W : \A j \in W : j <= i
    BY <1>1, <1>3, FirstAndLast
  <2> DEFINE last == CHOOSE i \in W : \A j \in W : j <= i
  <2>2. last \in W /\ \A j \in W : j <= last
    BY <2>1
  <2>3. LastImage(Readable, p) = Readable[last].op.image
    BY <1>3 DEF LastImage
  <2> QED
    BY <1>1, <2>2, <2>3
<1> QED
  BY <1>2, <1>3

-----------------------------------------------------------------------------
(* Recovery: types *)

\* A recovery runs on a closed log, and has replayed records left to apply.
RedoShape ==
    /\ todo \subseteq Replayed
    /\ redo => ~up
    /\ ~redo => todo = {}

\* What every state satisfies and every later proof starts from.
Base == RecoveryTypeOK /\ WalShape /\ RedoShape

LEMMA InitBase == RecoveryInit => Base
<1> SUFFICES ASSUME RecoveryInit PROVE Base
  OBVIOUS
<1>1. WalTypeOK /\ WalShape
  BY InitWal DEF RecoveryInit
<1>2. page \in [Pages -> PageValues] /\ disk \in [Pages -> SUBSET PageValues]
  BY DEF RecoveryInit, PageValues
<1>3. redo = FALSE /\ todo = {} /\ recovered = FALSE /\ early = FALSE /\ ragged = FALSE
  BY DEF RecoveryInit
<1>4. RedoShape
  BY <1>3, Zenon DEF RedoShape
<1>5. /\ count \in Nat /\ diskCount \in 0 .. count
      /\ phase \in [TxIds -> {"none", "active", "committing", "done"}]
      /\ target \in [Pages -> Images \cup {NoImage}]
  BY DEF RecoveryInit
<1>6. RecoveryTypeOK
  BY <1>1, <1>2, <1>3, <1>5 DEF RecoveryTypeOK
<1> QED
  BY <1>1, <1>4, <1>6 DEF Base

\* The client appends one record and changes its view of at most one transaction.
Appending(tx, op) ==
    /\ AppendRecord(tx, op)
    /\ phase' \in [TxIds -> {"none", "active", "committing", "done"}]
    /\ \A id \in TxIds : id # tx => phase'[id] = phase[id]
    /\ UNCHANGED <<up, torn, synced, durableLsn, restarts, count, page, disk, diskCount,
                   ragged, redo, todo, target, recovered, early>>

\* The steps of the client that append, and what they append.
ClientStep ==
    \/ \E id \in TxIds : ClientBegin(id) \/ ClientCommit(id) \/ ClientAbort(id)
    \/ \E w \in LoggedWrites : ClientPageWrite(w[1], w[2], w[3])
    \/ Checkpoint

LEMMA ClientStepAppends ==
    ASSUME Base, ClientStep
    PROVE  \E tx \in TxIds \cup {0}, op \in Operations : Appending(tx, op)
<1>1. phase \in [TxIds -> {"none", "active", "committing", "done"}]
  BY DEF Base, RecoveryTypeOK
<1>2. ASSUME NEW id \in TxIds, ClientBegin(id)
      PROVE  Appending(id, Marker("Begin"))
  BY <1>1, <1>2 DEF ClientBegin, Appending, pageVars, redoVars
<1>3. ASSUME NEW id \in TxIds, ClientCommit(id)
      PROVE  Appending(id, Marker("Commit"))
  BY <1>1, <1>3 DEF ClientCommit, Appending, pageVars, redoVars
<1>4. ASSUME NEW id \in TxIds, ClientAbort(id)
      PROVE  Appending(id, Marker("Abort"))
  BY <1>1, <1>4 DEF ClientAbort, Appending, pageVars, redoVars
<1>5. ASSUME NEW w \in LoggedWrites, ClientPageWrite(w[1], w[2], w[3])
      PROVE  /\ w[1] \in TxIds /\ PageWrite(w[2], w[3]) \in Operations
             /\ Appending(w[1], PageWrite(w[2], w[3]))
  <2>1. w[1] \in TxIds /\ w[2] \in Pages /\ w[3] \in Images
    BY <1>5, PageValuesAssumption
  <2> QED
    BY <1>1, <1>5, <2>1 DEF ClientPageWrite, Appending, pageVars, redoVars, Operations
<1>6. CASE Checkpoint
  <2>1. Appending(0, Marker("Checkpoint"))
    BY <1>1, <1>6 DEF Checkpoint, Appending, pageVars, redoVars
  <2> QED
    BY <2>1, MarkersAreOperations
<1> QED
  BY <1>2, <1>3, <1>4, <1>5, <1>6, MarkersAreOperations DEF ClientStep

\* recover has a next write while any is left.
LEMMA UpcomingFacts ==
    ASSUME Base, todo # {}
    PROVE  /\ Upcoming \in todo /\ Upcoming \in Replayed
           /\ \A j \in todo : Upcoming <= j
           /\ Write = log[Upcoming].op
           /\ Write.page \in Pages /\ Write.image \in Images
<1>1. todo \in SUBSET (1 .. Len(log)) /\ Len(log) \in Nat
  BY DEF Base, RecoveryTypeOK, WalTypeOK
<1>2. \E i \in todo : \A j \in todo : i <= j
  BY <1>1, FirstAndLast
<1>3. Upcoming \in todo /\ \A j \in todo : Upcoming <= j
  BY <1>2 DEF Upcoming
<1>4. todo \subseteq Replayed /\ WalTypeOK /\ WalShape
  BY DEF Base, RedoShape, RecoveryTypeOK
<1> QED
  BY <1>3, <1>4, ReplayedFacts DEF Write

\* Each step of a running recovery leaves the log and the client alone.
RedoStep == RedoAllocate \/ RedoApply \/ RedoFails \/ RecoverReturn

LEMMA RedoStepFacts ==
    ASSUME Base, RedoStep
    PROVE  /\ redo /\ ~up
           /\ UNCHANGED <<up, log, torn, synced, nextLsn, durableLsn, restarts, phase>>
           /\ UNCHANGED <<target, early>>
           /\ todo' \subseteq todo
           /\ redo' = redo \/ (redo' = FALSE /\ todo' = {})
           /\ count' \in Nat /\ diskCount' \in 0 .. count' /\ ragged' \in BOOLEAN
           /\ page' \in [Pages -> PageValues] /\ disk' \in [Pages -> SUBSET PageValues]
           /\ recovered' \in BOOLEAN
<1>1. /\ count \in Nat /\ diskCount \in 0 .. count /\ ragged \in BOOLEAN
      /\ page \in [Pages -> PageValues] /\ disk \in [Pages -> SUBSET PageValues]
      /\ redo \in BOOLEAN /\ recovered \in BOOLEAN
  BY DEF Base, RecoveryTypeOK
<1>2. redo
  BY DEF RedoStep, RedoAllocate, RedoApply, RedoFails, RecoverReturn
<1>3. ~up
  BY <1>2 DEF Base, RedoShape
<1>4. /\ UNCHANGED <<up, log, torn, synced, nextLsn, durableLsn, restarts, phase>>
      /\ UNCHANGED <<target, early>>
  BY DEF RedoStep, RedoAllocate, RedoApply, RedoFails, RecoverReturn, walVars, redoVars
<1>5. CASE RedoAllocate
  <2>1. UNCHANGED <<diskCount, ragged, redo, todo, recovered>> /\ count' = count + 1
    BY <1>5 DEF RedoAllocate, redoVars
  <2>2. page' = [page EXCEPT ![count] = Blank] /\ page' \in [Pages -> PageValues]
    BY <1>1, <1>5 DEF RedoAllocate, PageValues
  <2>3. disk' = [disk EXCEPT ![count] = {Blank, Garbled}]
    BY <1>5 DEF RedoAllocate
  <2>4. {Blank, Garbled} \in SUBSET PageValues
    BY DEF PageValues
  <2>5. disk' \in [Pages -> SUBSET PageValues]
    BY <1>1, <2>3, <2>4
  <2>6. count' \in Nat /\ diskCount' \in 0 .. count'
    BY <1>1, <2>1
  <2>7. todo' \subseteq todo /\ redo' = redo /\ ragged' \in BOOLEAN /\ recovered' \in BOOLEAN
    BY <1>1, <2>1
  <2> QED
    BY <1>2, <1>3, <1>4, <2>2, <2>5, <2>6, <2>7, Zenon
<1>6. CASE RedoApply
  <2>1. /\ UNCHANGED <<diskCount, ragged, redo, recovered, count>>
        /\ todo' \subseteq todo /\ todo # {}
    BY <1>6 DEF RedoApply
  <2>2. Write.page \in Pages /\ Write.image \in PageValues
    BY <2>1, UpcomingFacts DEF PageValues
  <2>3. page' \in [Pages -> PageValues]
    BY <1>1, <1>6, <2>2 DEF RedoApply
  <2>4. disk[Write.page] \cup {Write.image, Garbled} \in SUBSET PageValues
    BY <1>1, <2>2 DEF PageValues
  <2>5. disk' \in [Pages -> SUBSET PageValues]
    BY <1>1, <1>6, <2>2, <2>4 DEF RedoApply
  <2> QED
    BY <1>1, <1>2, <1>3, <1>4, <2>1, <2>3, <2>5
<1>7. CASE RedoFails
  <2>1. UNCHANGED <<diskCount, recovered, count>> /\ redo' = FALSE /\ todo' = {}
    BY <1>7 DEF RedoFails, RedoOver
  <2>2. ragged' \in BOOLEAN
    BY <1>1, <1>7 DEF RedoFails
  <2>3. CASE UNCHANGED <<page, disk>>
    BY <1>1, <1>2, <1>3, <1>4, <2>1, <2>2, <2>3
  <2>4. ASSUME NEW left \in {Write.image, Garbled},
               page' = [page EXCEPT ![Write.page] = left],
               disk' = [disk EXCEPT ![Write.page] = @ \cup {left, Garbled}]
        PROVE  page' \in [Pages -> PageValues] /\ disk' \in [Pages -> SUBSET PageValues]
    <3>1. left \in PageValues /\ Garbled \in PageValues
      <4>1. todo # {}
        BY <1>7 DEF RedoFails
      <4> QED
        BY <4>1, UpcomingFacts DEF PageValues
    <3>2. \A p \in Pages : disk[p] \cup {left, Garbled} \in SUBSET PageValues
      BY <1>1, <3>1
    <3> QED
      BY <1>1, <2>4, <3>1, <3>2
  <2>5. CASE \E left \in {Write.image, Garbled} :
               /\ page' = [page EXCEPT ![Write.page] = left]
               /\ disk' = [disk EXCEPT ![Write.page] = @ \cup {left, Garbled}]
    <3>1. page' \in [Pages -> PageValues] /\ disk' \in [Pages -> SUBSET PageValues]
      BY <2>4, <2>5
    <3> QED
      BY <1>1, <1>2, <1>3, <1>4, <2>1, <2>2, <3>1
  <2> QED
    BY <1>7, <2>3, <2>5 DEF RedoFails
<1>8. CASE RecoverReturn
  <2>1. /\ UNCHANGED <<ragged, count, page>> /\ diskCount' = count
        /\ redo' = FALSE /\ todo' = {} /\ recovered' = TRUE
    BY <1>8 DEF RecoverReturn, RedoOver
  <2>2. disk' \in [Pages -> SUBSET PageValues]
    BY <1>1, <1>8 DEF RecoverReturn
  <2>3. count' \in Nat /\ diskCount' \in 0 .. count'
    BY <1>1, <2>1
  <2>4. todo' \subseteq todo /\ ragged' \in BOOLEAN /\ recovered' \in BOOLEAN
    BY <1>1, <2>1
  <2>5. page' \in [Pages -> PageValues] /\ redo' = FALSE /\ todo' = {}
    BY <1>1, <2>1
  <2> QED
    BY <1>2, <1>3, <1>4, <2>2, <2>3, <2>4, <2>5, Zenon
<1> QED
  BY <1>5, <1>6, <1>7, <1>8 DEF RedoStep

LEMMA StepBase ==
    ASSUME Base, [RecoveryNext]_recoveryVars
    PROVE  Base'
<1>a. /\ WalTypeOK /\ WalShape /\ todo \subseteq Replayed
      /\ todo \subseteq 1 .. Len(log) /\ Len(log) \in Nat
  BY DEF Base, RecoveryTypeOK, WalTypeOK, RedoShape
<1>1. CASE Open
  <2>1. WalTypeOK' /\ WalShape'
    BY <1>1, <1>a, OpenKeepsWal DEF Open
  <2>2. ~redo /\ todo = {} /\ UNCHANGED <<phase, pageVars, redoVars>>
    BY <1>1 DEF Open, Base, RedoShape
  <2>3. RedoShape'
    BY <2>2 DEF RedoShape, redoVars
  <2>4. RecoveryTypeOK'
    BY <2>1, <2>2 DEF RecoveryTypeOK, pageVars, redoVars, Base
  <2> QED
    BY <2>1, <2>3, <2>4 DEF Base
<1>2. CASE ClientStep
  <2>1. PICK tx \in TxIds \cup {0}, op \in Operations : Appending(tx, op)
    BY <1>2, ClientStepAppends
  <2>2. WalTypeOK' /\ WalShape'
    BY <1>a, <2>1, AppendKeepsWal DEF Appending
  <2>3. up /\ ~redo /\ todo = {}
    BY <2>1 DEF Appending, AppendRecord, Base, RedoShape
  <2>4. RedoShape'
    BY <2>1, <2>3 DEF RedoShape, Appending
  <2>5. RecoveryTypeOK'
    BY <2>1, <2>2, <2>3 DEF RecoveryTypeOK, Appending, Base
  <2> QED
    BY <2>2, <2>4, <2>5 DEF Base
<1>3. CASE Flush
  <2>1. synced' = Len(log) /\ durableLsn' \in Nat \cup {None}
        /\ (durableLsn' # None => durableLsn' < Len(log))
    <3>1. log # <<>> /\ Len(log) \in 1 .. Len(log)
      BY <1>3, <1>a DEF Flush, WalTypeOK
    <3>2. synced' = Len(log) /\ durableLsn' = log[Len(log)].lsn
      BY <1>3, <3>1 DEF Flush, SyncUpTo
    <3>3. log[Len(log)].lsn = Len(log) - 1
      BY <3>1, <1>a DEF WalShape
    <3> QED
      BY <3>1, <3>2, <3>3, <1>a
  <2>2. UNCHANGED <<up, log, torn, nextLsn, restarts, count, page, disk, diskCount,
                    ragged, redo, todo, target, recovered, early>>
    BY <1>3 DEF Flush, pageVars, redoVars
  <2>3. phase' \in [TxIds -> {"none", "active", "committing", "done"}]
    BY <1>3 DEF Flush, Base, RecoveryTypeOK
  <2>4. WalTypeOK'
    BY <2>1, <2>2, <1>a DEF WalTypeOK
  <2>5. WalShape'
    BY <2>1, <2>2, <1>a DEF WalShape
  <2>6. RedoShape'
    BY <2>2, SameReadable DEF Base, RedoShape
  <2>7. RecoveryTypeOK'
    BY <2>2, <2>3, <2>4 DEF RecoveryTypeOK, Base
  <2> QED
    BY <2>5, <2>6, <2>7 DEF Base
<1>4. CASE FailedAppend
  <2>1. WalTypeOK' /\ WalShape'
    BY <1>4, <1>a, AppendFailsKeepsWal DEF FailedAppend
  <2>2. /\ up /\ ~redo /\ todo = {}
        /\ UNCHANGED <<up, log, phase, pageVars, redoVars>>
    BY <1>4 DEF FailedAppend, AppendFails, Base, RedoShape
  <2>3. RedoShape'
    BY <2>2 DEF RedoShape, redoVars
  <2>4. RecoveryTypeOK'
    BY <2>1, <2>2 DEF RecoveryTypeOK, pageVars, redoVars, Base
  <2> QED
    BY <2>1, <2>3, <2>4 DEF Base
<1>5. CASE ProcessEnds
  <2>1. CASE Exit /\ phase' = [id \in TxIds |-> "none"] /\ UNCHANGED <<pageVars, redoVars>>
    <3>1. WalTypeOK' /\ WalShape' /\ UNCHANGED <<log, torn>> /\ up' = FALSE
      BY <2>1, <1>a, StopKeepsWal DEF Exit
    <3>2. RedoShape'
      BY <2>1, <3>1, SameReadable DEF RedoShape, redoVars, Base
    <3>3. RecoveryTypeOK'
      BY <2>1, <3>1 DEF RecoveryTypeOK, pageVars, redoVars, Base
    <3> QED
      BY <3>1, <3>2, <3>3 DEF Base
  <2>2. CASE /\ restarts' = restarts + 1 /\ RedoOver
             /\ UNCHANGED <<up, log, torn, synced, nextLsn, durableLsn, phase, pageVars,
                            target, recovered, early>>
    <3>1. restarts' \in Nat
      BY <2>2, <1>a DEF WalTypeOK
    <3>2. WalTypeOK' /\ WalShape'
      BY <2>2, <3>1, <1>a DEF WalTypeOK, WalShape
    <3>3. RedoShape'
      BY <2>2 DEF RedoShape, RedoOver
    <3>4. RecoveryTypeOK'
      BY <2>2, <3>2 DEF RecoveryTypeOK, pageVars, RedoOver, Base
    <3> QED
      BY <3>2, <3>3, <3>4 DEF Base
  <2> QED
    BY <1>5, <2>1, <2>2 DEF ProcessEnds
<1>6. CASE MachineCrash
  <2>1. WalTypeOK' /\ WalShape'
    BY <1>6, <1>a, StopKeepsWal DEF MachineCrash
  <2>2. PICK n \in diskCount .. count :
          /\ count' = n
          /\ diskCount' = n
          /\ ragged' \in IF n < count THEN BOOLEAN ELSE {ragged}
          /\ page' \in {f \in [Pages -> PageValues] :
                           \A p \in Pages : IF p < n THEN f[p] \in disk[p] ELSE f[p] = Blank}
    BY <1>6 DEF MachineCrash
  <2>3. count' \in Nat /\ diskCount' \in 0 .. count' /\ ragged' \in BOOLEAN
    BY <2>2 DEF RecoveryTypeOK, Base
  <2>4. disk' = [p \in Pages |-> IF p < count' THEN {page'[p]} ELSE {}]
    BY <1>6 DEF MachineCrash
  <2>5. page' \in [Pages -> PageValues] /\ disk' \in [Pages -> SUBSET PageValues]
    BY <2>2, <2>4
  <2>6. RedoShape'
    BY <1>6 DEF MachineCrash, RedoShape, RedoOver
  <2>7. RecoveryTypeOK'
    BY <1>6, <2>1, <2>3, <2>5 DEF MachineCrash, RecoveryTypeOK, RedoOver, Base
  <2> QED
    BY <2>1, <2>6, <2>7 DEF Base
<1>7. CASE RecoverStart
  <2>1. UNCHANGED <<up, log, torn, synced, nextLsn, durableLsn, restarts, phase, pageVars>>
    BY <1>7 DEF RecoverStart, walVars
  <2>2. WalTypeOK' /\ WalShape'
    BY <2>1, <1>a DEF WalTypeOK, WalShape
  <2>3. todo' = Replayed /\ redo' = TRUE /\ ~up
    BY <1>7 DEF RecoverStart, Replayed
  <2>4. RedoShape'
    BY <2>1, <2>3, SameReadable DEF RedoShape
  <2>5. todo' \subseteq DOMAIN log'
    BY <1>a, <2>1, <2>3, ReplayedFacts, ReadableFacts
  <2>6. target' \in [Pages -> Images \cup {NoImage}]
    BY <1>7, <1>a, LastImageFacts DEF RecoverStart
  <2>7. redo' \in BOOLEAN /\ recovered' \in BOOLEAN /\ early' \in BOOLEAN
    BY <1>7 DEF RecoverStart, RecoveryTypeOK, Base
  <2>8. RecoveryTypeOK'
    BY <2>1, <2>2, <2>5, <2>6, <2>7 DEF RecoveryTypeOK, pageVars, Base
  <2> QED
    BY <2>2, <2>4, <2>8 DEF Base
<1>8. CASE RecoverRejected \/ UNCHANGED recoveryVars
  <2>1. UNCHANGED <<walVars, phase, pageVars, redoVars>>
    BY <1>8 DEF RecoverRejected, recoveryVars
  <2>2. WalTypeOK' /\ WalShape'
    BY <2>1, <1>a DEF walVars, WalTypeOK, WalShape
  <2>3. RedoShape'
    BY <2>1, SameReadable DEF RedoShape, walVars, redoVars, Base
  <2>4. RecoveryTypeOK'
    BY <2>1, <2>2 DEF RecoveryTypeOK, walVars, pageVars, redoVars, Base
  <2> QED
    BY <2>2, <2>3, <2>4 DEF Base
<1>9. CASE RedoStep
  <2>1. /\ UNCHANGED <<up, log, torn, synced, nextLsn, durableLsn, restarts, phase, target, early>>
        /\ ~up /\ redo /\ todo' \subseteq todo
        /\ redo' = redo \/ (redo' = FALSE /\ todo' = {})
    BY <1>9, RedoStepFacts
  <2>2. WalTypeOK' /\ WalShape'
    BY <2>1, <1>a DEF WalTypeOK, WalShape
  <2>3. RedoShape'
    BY <1>a, <2>1, SameReadable DEF RedoShape
  <2>4. RecoveryTypeOK'
    BY <1>9, <2>1, <2>2, RedoStepFacts DEF RecoveryTypeOK, Base
  <2> QED
    BY <2>2, <2>3, <2>4 DEF Base
<1> QED
  BY <1>1, <1>2, <1>3, <1>4, <1>5, <1>6, <1>7, <1>8, <1>9
  DEF RecoveryNext, ClientStep, RedoStep

-----------------------------------------------------------------------------
(* The client *)

\* A transaction that the client may still end has no synchronized commit: an
\* active one has no commit at all.
CommitsFollowPhases ==
    \A i \in 1 .. Len(log), id \in TxIds :
        log[i].op.kind = "Commit" /\ log[i].tx = id =>
            /\ phase[id] # "active"
            /\ phase[id] = "committing" => synced < i

ClientInv ==
    /\ ~up => \A id \in TxIds : phase[id] = "none"
    /\ CommitsFollowPhases

LEMMA InitClient == RecoveryInit => ClientInv
<1> SUFFICES ASSUME RecoveryInit PROVE ClientInv
  OBVIOUS
<1>1. Len(log) = 0 /\ \A id \in TxIds : phase[id] = "none"
  BY DEF RecoveryInit, WalInit
<1> QED
  BY <1>1 DEF ClientInv, CommitsFollowPhases

\* What an appended record does to commits and phases.
LEMMA AppendKeepsClient ==
    ASSUME Base, ClientInv, ClientStep
    PROVE  ClientInv'
<1>1. /\ log \in Seq(LogRecord) /\ Len(log) \in Nat /\ synced \in Nat /\ synced <= Len(log)
      /\ WalTypeOK
  BY DEF Base, RecoveryTypeOK, WalTypeOK, WalShape
<1>2. ASSUME NEW tx \in TxIds \cup {0}, NEW op \in Operations, AppendRecord(tx, op),
             UNCHANGED <<up, synced>>,
             \A id \in TxIds : id # tx => phase'[id] = phase[id],
             tx \in TxIds => \/ phase'[tx] = phase[tx] /\ op.kind # "Commit"
                             \/ /\ phase'[tx] = "active" /\ op.kind # "Commit"
                                /\ \A i \in 1 .. Len(log) : log[i].tx # tx
                             \/ phase'[tx] = "committing" /\ phase[tx] = "active"
                             \/ phase'[tx] = "done"
      PROVE  ClientInv'
  <2>1. /\ Len(log') = Len(log) + 1
        /\ \A i \in 1 .. Len(log) : log'[i] = log[i]
        /\ log'[Len(log) + 1] = [lsn |-> nextLsn, tx |-> tx, op |-> op]
    BY <1>1, <1>2, AppendRecordFacts
  <2>2. up /\ up' = up
    BY <1>2 DEF AppendRecord
  <2>3. ASSUME NEW i \in 1 .. Len(log'), NEW id \in TxIds,
               log'[i].op.kind = "Commit", log'[i].tx = id
        PROVE  phase'[id] # "active" /\ (phase'[id] = "committing" => synced' < i)
    <3>1. CASE i \in 1 .. Len(log)
      <4>1. log[i].op.kind = "Commit" /\ log[i].tx = id
        BY <2>1, <2>3, <3>1
      <4>2. phase[id] # "active" /\ (phase[id] = "committing" => synced < i)
        BY <3>1, <4>1 DEF ClientInv, CommitsFollowPhases
      <4>3. CASE id # tx
        BY <1>2, <4>2, <4>3
      <4>4. CASE id = tx
        <5>1. tx \in TxIds /\ log[i].tx = tx
          BY <4>1, <4>4
        <5> QED
          BY <1>2, <3>1, <4>2, <4>4, <5>1
      <4> QED
        BY <4>3, <4>4
    <3>2. CASE i = Len(log) + 1
      <4>1. id = tx /\ op.kind = "Commit"
        BY <2>1, <2>3, <3>2
      <4>2. phase'[tx] \in {"committing", "done"}
        BY <1>2, <4>1
      <4>3. synced' < i
        BY <1>1, <1>2, <3>2
      <4> QED
        BY <4>1, <4>2, <4>3
    <3> QED
      BY <1>1, <2>1, <3>1, <3>2
  <2> QED
    BY <2>2, <2>3 DEF ClientInv, CommitsFollowPhases
<1>3. phase \in [TxIds -> {"none", "active", "committing", "done"}]
  BY DEF Base, RecoveryTypeOK
<1>4. ASSUME NEW id \in TxIds, ClientBegin(id)
      PROVE  ClientInv'
  <2>1. \A i \in DOMAIN log : log[i].tx # id
    <3>1. ~(id < id)
      BY DEF TxIds
    <3> QED
      BY <1>4, <3>1 DEF ClientBegin
  <2>2. \A i \in 1 .. Len(log) : log[i].tx # id
    BY <1>1, <2>1
  <2> QED
    BY <1>2, <1>3, <1>4, <2>2, MarkersAreOperations DEF ClientBegin, Marker
<1>5. ASSUME NEW id \in TxIds, ClientCommit(id)
      PROVE  ClientInv'
  BY <1>2, <1>3, <1>5, MarkersAreOperations DEF ClientCommit
<1>6. ASSUME NEW id \in TxIds, ClientAbort(id)
      PROVE  ClientInv'
  BY <1>2, <1>3, <1>6, MarkersAreOperations DEF ClientAbort
<1>7. ASSUME NEW w \in LoggedWrites, ClientPageWrite(w[1], w[2], w[3])
      PROVE  ClientInv'
  <2>1. w[1] \in TxIds /\ w[2] \in Pages /\ w[3] \in Images
    BY <1>7, PageValuesAssumption
  <2>2. PageWrite(w[2], w[3]) \in Operations /\ PageWrite(w[2], w[3]).kind # "Commit"
    BY <2>1 DEF Operations, PageWrite
  <2> QED
    BY <1>2, <1>7, <2>1, <2>2 DEF ClientPageWrite
<1>8. CASE Checkpoint
  <2>1. Marker("Checkpoint") \in Operations /\ 0 \notin TxIds
    BY MarkersAreOperations DEF TxIds
  <2> QED
    BY <1>2, <1>8, <2>1 DEF Checkpoint
<1> QED
  BY <1>4, <1>5, <1>6, <1>7, <1>8 DEF ClientStep

LEMMA StepClient ==
    ASSUME Base, ClientInv, [RecoveryNext]_recoveryVars
    PROVE  ClientInv'
<1>a. /\ log \in Seq(LogRecord) /\ Len(log) \in Nat /\ synced \in Nat /\ synced <= Len(log)
      /\ WalTypeOK /\ WalShape
      /\ phase \in [TxIds -> {"none", "active", "committing", "done"}]
  BY DEF Base, RecoveryTypeOK, WalTypeOK, WalShape
\* Without transactions nothing is asked of commits.
<1>b. ASSUME \A id \in TxIds : phase'[id] = "none"
      PROVE  ClientInv'
  BY <1>b DEF ClientInv, CommitsFollowPhases
<1>1. CASE Open \/ RecoverStart \/ RedoStep
  <2>1. \A id \in TxIds : phase'[id] = "none"
    <3>1. ~up /\ phase' = phase
      BY <1>1, RedoStepFacts DEF Open, OpenLog, RecoverStart
    <3> QED
      BY <3>1 DEF ClientInv
  <2> QED
    BY <1>b, <2>1
<1>2. CASE ClientStep
  BY <1>2, AppendKeepsClient
<1>3. CASE Flush
  <2>1. /\ up' = up /\ up /\ log' = log
        /\ phase' = [id \in TxIds |-> IF phase[id] = "committing" THEN "done" ELSE phase[id]]
    BY <1>3 DEF Flush
  <2> QED
    BY <2>1 DEF ClientInv, CommitsFollowPhases
<1>4. CASE FailedAppend \/ RecoverRejected \/ UNCHANGED recoveryVars
  <2>1. UNCHANGED <<up, log, synced, phase>>
    BY <1>4 DEF FailedAppend, AppendFails, RecoverRejected, recoveryVars, walVars
  <2> QED
    BY <2>1 DEF ClientInv, CommitsFollowPhases
<1>5. CASE ProcessEnds
  <2>1. CASE \A id \in TxIds : phase'[id] = "none"
    BY <1>b, <2>1
  <2>2. CASE UNCHANGED <<up, log, synced, phase>>
    BY <2>2 DEF ClientInv, CommitsFollowPhases
  <2> QED
    BY <1>5, <2>1, <2>2 DEF ProcessEnds
<1>6. CASE MachineCrash
  BY <1>6, <1>b DEF MachineCrash
<1> QED
  BY <1>1, <1>2, <1>3, <1>4, <1>5, <1>6 DEF RecoveryNext, ClientStep, RedoStep

-----------------------------------------------------------------------------
(* Settled writes *)

\* Record i is a page write whose transaction commits with record j, both are
\* synchronized and readable, and no readable record aborts the transaction.
Settled(i, j) ==
    /\ i \in 1 .. ValidLength /\ i <= synced
    /\ j \in 1 .. ValidLength /\ j <= synced
    /\ log[i].op.kind = "PageWrite" /\ log[j].op.kind = "Commit"
    /\ log[i].tx = log[j].tx
    /\ \A k \in 1 .. ValidLength : log[k].op.kind = "Abort" => log[k].tx # log[i].tx

\* Once settled, always settled: crashes keep the synchronized prefix, tears
\* begin behind what is readable, and the client aborts no such transaction.
LEMMA SettledStays ==
    ASSUME Base, ClientInv, [RecoveryNext]_recoveryVars, NEW i, NEW j, Settled(i, j)
    PROVE  Settled(i, j)' /\ log'[i] = log[i]
<1>a. /\ WalTypeOK /\ WalShape /\ ValidLength \in 0 .. Len(log)
      /\ torn # None => ValidLength = torn
      /\ torn = None => ValidLength = Len(log)
      /\ Len(log) \in Nat /\ synced \in Nat /\ synced <= Len(log)
      /\ torn \in Nat \/ torn = None
  BY ValidLengthFacts DEF Base, RecoveryTypeOK, WalTypeOK, WalShape, Tears
<1>b. /\ i \in 1 .. ValidLength /\ i <= synced /\ j \in 1 .. ValidLength /\ j <= synced
      /\ log[i].op.kind = "PageWrite" /\ log[j].op.kind = "Commit" /\ log[i].tx = log[j].tx
      /\ \A k \in 1 .. ValidLength : log[k].op.kind = "Abort" => log[k].tx # log[i].tx
  BY DEF Settled
\* It is enough that the synchronized readable records stay where they are and
\* that no readable record becomes an abort of the transaction.
<1>c. ASSUME \A k \in 1 .. ValidLength : k <= synced =>
                 k \in 1 .. ValidLength' /\ k <= synced' /\ log'[k] = log[k],
             \A k \in 1 .. ValidLength' :
                 \/ k \in 1 .. ValidLength /\ log'[k] = log[k]
                 \/ log'[k].op.kind = "Abort" => log'[k].tx # log[i].tx
      PROVE  Settled(i, j)' /\ log'[i] = log[i]
  <2>1. log'[i] = log[i] /\ log'[j] = log[j]
    BY <1>b, <1>c
  <2>2. /\ i \in 1 .. ValidLength' /\ i <= synced'
        /\ j \in 1 .. ValidLength' /\ j <= synced'
    BY <1>b, <1>c
  <2>3. \A k \in 1 .. ValidLength' : log'[k].op.kind = "Abort" => log'[k].tx # log[i].tx
    BY <1>b, <1>c
  <2> QED
    BY <1>b, <2>1, <2>2, <2>3 DEF Settled
<1>d. ASSUME UNCHANGED <<log, synced>>, ValidLength' = ValidLength
      PROVE  Settled(i, j)' /\ log'[i] = log[i]
  BY <1>a, <1>b, <1>c, <1>d
<1>1. CASE Open
  <2>1. /\ torn' = None /\ log' = SubSeq(log, 1, ValidLength)
        /\ synced' = IF synced <= ValidLength THEN synced ELSE ValidLength
    BY <1>1 DEF Open, OpenLog, Readable
  <2>2. Len(log') = ValidLength /\ \A k \in 1 .. ValidLength : log'[k] = log[k]
    BY <1>a, <2>1, PrefixFacts
  <2>3. ValidLength' = ValidLength
    BY <2>1, <2>2 DEF ValidLength
  <2>4. \A k \in 1 .. ValidLength : k <= synced => k <= synced'
    BY <1>a, <2>1
  <2> QED
    BY <1>c, <2>2, <2>3, <2>4
<1>2. CASE ClientStep
  <2>1. PICK tx \in TxIds \cup {0}, op \in Operations :
            /\ AppendRecord(tx, op) /\ UNCHANGED <<torn, synced>>
            /\ op.kind = "Abort" => /\ tx \in TxIds
                                    /\ phase[tx] \in {"active", "committing"}
    <3>1. ASSUME NEW id \in TxIds, ClientBegin(id) \/ ClientCommit(id) \/ ClientAbort(id)
          PROVE  \E op \in Operations :
                    /\ AppendRecord(id, op) /\ UNCHANGED <<torn, synced>>
                    /\ op.kind = "Abort" => phase[id] \in {"active", "committing"}
      <4>1. CASE ClientBegin(id)
        BY <4>1, MarkersAreOperations DEF ClientBegin, Marker
      <4>2. CASE ClientCommit(id)
        BY <4>2, MarkersAreOperations DEF ClientCommit, Marker
      <4>3. CASE ClientAbort(id)
        BY <4>3, MarkersAreOperations DEF ClientAbort
      <4> QED
        BY <3>1, <4>1, <4>2, <4>3
    <3>2. ASSUME NEW w \in LoggedWrites, ClientPageWrite(w[1], w[2], w[3])
          PROVE  \E tx \in TxIds, op \in Operations :
                    /\ AppendRecord(tx, op) /\ UNCHANGED <<torn, synced>>
                    /\ op.kind # "Abort"
      <4>1. w[1] \in TxIds /\ w[2] \in Pages /\ w[3] \in Images
        BY <3>2, PageValuesAssumption
      <4>2. PageWrite(w[2], w[3]) \in Operations /\ PageWrite(w[2], w[3]).kind # "Abort"
        BY <4>1 DEF Operations, PageWrite
      <4> QED
        BY <3>2, <4>1, <4>2 DEF ClientPageWrite
    <3>3. CASE Checkpoint
      BY <3>3, MarkersAreOperations DEF Checkpoint, Marker
    <3> QED
      BY <1>2, <3>1, <3>2, <3>3 DEF ClientStep
  <2>2. /\ Len(log') = Len(log) + 1
        /\ \A k \in 1 .. Len(log) : log'[k] = log[k]
        /\ log'[Len(log) + 1] = [lsn |-> nextLsn, tx |-> tx, op |-> op]
    BY <1>a, <2>1, AppendRecordFacts
  <2>3. op.kind = "Abort" => tx # log[i].tx
    <3>1. SUFFICES ASSUME op.kind = "Abort", tx = log[i].tx PROVE FALSE
      OBVIOUS
    <3>2. tx \in TxIds /\ phase[tx] \in {"active", "committing"} /\ log[j].tx = tx
      BY <1>b, <2>1, <3>1
    <3>3. j \in 1 .. Len(log) /\ ~(synced < j)
      BY <1>a, <1>b
    <3>4. phase[tx] # "active" /\ phase[tx] # "committing"
      BY <1>b, <3>2, <3>3 DEF ClientInv, CommitsFollowPhases
    <3> QED
      BY <3>2, <3>4
  <2>4. ValidLength' \in {ValidLength, Len(log) + 1} /\ ValidLength' >= ValidLength
    BY <1>a, <2>1, <2>2 DEF ValidLength
  <2>5. torn = None => ValidLength' = Len(log) + 1
    BY <2>1, <2>2 DEF ValidLength
  <2>6. torn # None => ValidLength' = ValidLength
    BY <2>1, <2>2 DEF ValidLength
  <2>7. \A k \in 1 .. ValidLength' :
            \/ k \in 1 .. ValidLength /\ log'[k] = log[k]
            \/ log'[k].op.kind = "Abort" => log'[k].tx # log[i].tx
    <3> SUFFICES ASSUME NEW k \in 1 .. ValidLength', k \notin 1 .. ValidLength
                 PROVE  log'[k].op.kind = "Abort" => log'[k].tx # log[i].tx
      BY <1>a, <2>2
    <3>1. k = Len(log) + 1
      BY <1>a, <2>4, <2>5, <2>6
    <3> QED
      BY <2>2, <2>3, <3>1
  <2>8. \A k \in 1 .. ValidLength : k <= synced =>
            k \in 1 .. ValidLength' /\ k <= synced' /\ log'[k] = log[k]
    BY <1>a, <2>1, <2>2, <2>4
  <2> QED
    BY <1>c, <2>7, <2>8
<1>3. CASE Flush
  <2>1. log' = log /\ torn' = torn /\ synced' = Len(log)
    BY <1>3 DEF Flush, SyncUpTo
  <2>2. ValidLength' = ValidLength
    BY <2>1, SameReadable
  <2> QED
    BY <1>a, <1>c, <2>1, <2>2
<1>4. CASE FailedAppend
  <2>1. /\ torn' = torn \/ torn' = IF torn = None THEN Len(log) ELSE torn
        /\ UNCHANGED <<log, synced>>
    BY <1>4 DEF FailedAppend, AppendFails
  <2>2. ValidLength' = ValidLength
    BY <1>a, <2>1, NoneAssumption DEF ValidLength
  <2> QED
    BY <1>d, <2>1, <2>2
<1>5. CASE ProcessEnds \/ RecoverStart \/ RecoverRejected \/ RedoStep \/ UNCHANGED recoveryVars
  <2>1. UNCHANGED <<log, torn, synced>>
    BY <1>5, RedoStepFacts DEF ProcessEnds, Exit, RecoverStart, RecoverRejected, recoveryVars, walVars
  <2> QED
    BY <1>d, <2>1, SameReadable
<1>6. CASE MachineCrash
  <2>1. PICK n \in synced .. Len(log) :
           log' = SubSeq(log, 1, n) /\ torn' \in TearsAfterCrash(n) /\ synced' = n
    BY <1>6 DEF MachineCrash, Crash
  <2>2. n \in 0 .. Len(log)
    BY <1>a, <2>1
  <2>3. Len(log') = n /\ \A k \in 1 .. n : log'[k] = log[k]
    BY <1>a, <2>1, <2>2, PrefixFacts
  <2>4. CASE torn # None /\ torn <= n
    <3>1. torn' = torn
      BY <2>1, <2>4 DEF TearsAfterCrash
    <3>2. ValidLength' = ValidLength /\ ValidLength <= n
      BY <1>a, <2>4, <3>1 DEF ValidLength
    <3>3. \A k \in 1 .. ValidLength : k \in 1 .. ValidLength' /\ log'[k] = log[k]
      BY <1>a, <2>2, <2>3, <3>2
    <3>4. \A k \in 1 .. ValidLength' : k \in 1 .. ValidLength /\ log'[k] = log[k]
      BY <3>2, <3>3
    <3>5. synced' >= synced /\ synced' \in Nat
      BY <1>a, <2>1, <2>2
    <3> QED
      BY <1>a, <1>c, <3>3, <3>4, <3>5
  <2>5. CASE ~(torn # None /\ torn <= n)
    <3>1. torn' = None \/ torn' = n
      BY <2>1, <2>5 DEF TearsAfterCrash
    <3>2. ValidLength' = n
      BY <2>3, <3>1 DEF ValidLength
    <3>3. n <= ValidLength
      BY <1>a, <2>2, <2>5
    <3>4. \A k \in 1 .. ValidLength : k <= synced =>
              k \in 1 .. ValidLength' /\ k <= synced' /\ log'[k] = log[k]
      BY <1>a, <2>1, <2>2, <2>3, <3>2
    <3>5. \A k \in 1 .. ValidLength' : k \in 1 .. ValidLength /\ log'[k] = log[k]
      BY <1>a, <2>2, <2>3, <3>2, <3>3
    <3> QED
      BY <1>c, <3>4, <3>5
  <2> QED
    BY <2>4, <2>5
<1> QED
  BY <1>1, <1>2, <1>3, <1>4, <1>5, <1>6 DEF RecoveryNext, ClientStep, RedoStep

-----------------------------------------------------------------------------
(* Only committed images *)

\* A settled write of p has written v.
SettledImage(p, v) ==
    \E i, j \in 1 .. ValidLength :
        Settled(i, j) /\ log[i].op.page = p /\ log[i].op.image = v

\* The page file holds, now and after any crash, images of settled writes.
ImagesInv ==
    /\ redo /\ ~early => ValidLength <= synced
    /\ \A p \in Pages : p < count => page[p] \in disk[p]
    /\ ~early => \A p \in Pages : \A v \in disk[p] \ {Blank, Garbled} : SettledImage(p, v)

LEMMA InitImages == RecoveryInit => ImagesInv
<1> SUFFICES ASSUME RecoveryInit PROVE ImagesInv
  OBVIOUS
<1>1. redo = FALSE /\ count = 0 /\ \A p \in Pages : disk[p] = {}
  BY DEF RecoveryInit
<1>2. \A p \in Pages : ~(p < count)
  BY <1>1, BoundsAssumption
<1>3. ~redo
  BY <1>1, Zenon
<1> QED
  BY <1>1, <1>2, <1>3 DEF ImagesInv

\* What a redo step leaves in a page: what was there, an empty or garbled page, or
\* the image it applies.
LEMMA RedoImages ==
    ASSUME Base, RedoStep, ImagesInv
    PROVE  /\ \A p \in Pages : p < count' => page'[p] \in disk'[p]
           /\ \A p \in Pages : \A v \in disk'[p] \ {Blank, Garbled} :
                 \/ v \in disk[p]
                 \/ /\ todo # {} /\ p = Write.page /\ v = Write.image
<1>1. /\ count \in Nat /\ \A p \in Pages : p \in Nat
      /\ page \in [Pages -> PageValues] /\ disk \in [Pages -> SUBSET PageValues]
      /\ \A p \in Pages : p < count => page[p] \in disk[p]
  BY BoundsAssumption DEF Base, RecoveryTypeOK, ImagesInv
<1>2. CASE RedoAllocate
  <2>1. /\ count' = count + 1
        /\ page' = [page EXCEPT ![count] = Blank]
        /\ disk' = [disk EXCEPT ![count] = {Blank, Garbled}]
    BY <1>2 DEF RedoAllocate
  <2>2. ASSUME NEW p \in Pages, p < count'
        PROVE  page'[p] \in disk'[p]
    BY <1>1, <2>1, <2>2
  <2>3. ASSUME NEW p \in Pages, NEW v \in disk'[p] \ {Blank, Garbled}
        PROVE  v \in disk[p]
    BY <1>1, <2>1, <2>3
  <2> QED
    BY <2>2, <2>3
<1>3. CASE RedoApply
  <2>1. /\ count' = count /\ todo # {}
        /\ page' = [page EXCEPT ![Write.page] = Write.image]
        /\ disk' = [disk EXCEPT ![Write.page] = @ \cup {Write.image, Garbled}]
    BY <1>3 DEF RedoApply
  <2>2. ASSUME NEW p \in Pages, p < count'
        PROVE  page'[p] \in disk'[p]
    BY <1>1, <2>1, <2>2
  <2>3. ASSUME NEW p \in Pages, NEW v \in disk'[p] \ {Blank, Garbled}
        PROVE  v \in disk[p] \/ (p = Write.page /\ v = Write.image)
    BY <1>1, <2>1, <2>3
  <2> QED
    BY <2>1, <2>2, <2>3
<1>4. CASE RedoFails
  <2>1. CASE UNCHANGED <<count, page, disk>>
    BY <1>1, <2>1
  <2>2. ASSUME NEW left \in {Write.image, Garbled}, todo # {}, count' = count,
               page' = [page EXCEPT ![Write.page] = left],
               disk' = [disk EXCEPT ![Write.page] = @ \cup {left, Garbled}]
        PROVE  /\ \A p \in Pages : p < count' => page'[p] \in disk'[p]
               /\ \A p \in Pages : \A v \in disk'[p] \ {Blank, Garbled} :
                     v \in disk[p] \/ (todo # {} /\ p = Write.page /\ v = Write.image)
    <3>1. ASSUME NEW p \in Pages, p < count'
          PROVE  page'[p] \in disk'[p]
      BY <1>1, <2>2, <3>1
    <3>2. ASSUME NEW p \in Pages, NEW v \in disk'[p] \ {Blank, Garbled}
          PROVE  v \in disk[p] \/ (p = Write.page /\ v = Write.image)
      BY <1>1, <2>2, <3>2
    <3> QED
      BY <2>2, <3>1, <3>2
  <2>3. todo # {} /\ count' = count
    BY <1>4 DEF RedoFails
  <2>4. CASE \E left \in {Write.image, Garbled} :
               /\ page' = [page EXCEPT ![Write.page] = left]
               /\ disk' = [disk EXCEPT ![Write.page] = @ \cup {left, Garbled}]
    <3>1. PICK left \in {Write.image, Garbled} :
               /\ page' = [page EXCEPT ![Write.page] = left]
               /\ disk' = [disk EXCEPT ![Write.page] = @ \cup {left, Garbled}]
      BY <2>4
    <3> QED
      BY <2>2, <2>3, <3>1
  <2> QED
    BY <1>4, <2>1, <2>3, <2>4 DEF RedoFails
<1>5. CASE RecoverReturn
  <2>1. /\ UNCHANGED <<count, page>>
        /\ disk' = [p \in Pages |-> IF p < count THEN {page[p]} ELSE {}]
    BY <1>5 DEF RecoverReturn
  <2> QED
    BY <1>1, <2>1
<1> QED
  BY <1>2, <1>3, <1>4, <1>5 DEF RedoStep

\* The write that recover applies next is settled, if the log is synchronized.
LEMMA UpcomingSettled ==
    ASSUME Base, todo # {}, ValidLength <= synced
    PROVE  SettledImage(Write.page, Write.image)
<1>1. /\ WalTypeOK /\ WalShape /\ ValidLength \in 0 .. Len(log) /\ synced \in Nat
      /\ DOMAIN Readable = 1 .. ValidLength
      /\ \A i \in 1 .. ValidLength : Readable[i] = log[i]
  BY ReadableFacts DEF Base, RecoveryTypeOK, WalTypeOK
<1>2. Upcoming \in Replayed /\ Write = log[Upcoming].op
  BY UpcomingFacts
<1>3. /\ Upcoming \in 1 .. ValidLength /\ log[Upcoming].op.kind = "PageWrite"
      /\ log[Upcoming].tx \in IdsWith(Readable, "Commit")
      /\ log[Upcoming].tx \notin IdsWith(Readable, "Abort")
  BY <1>1, <1>2 DEF Replayed, Replays, CommittedIds
<1>4. PICK j \in 1 .. ValidLength : log[j].op.kind = "Commit" /\ log[j].tx = log[Upcoming].tx
  BY <1>1, <1>3 DEF IdsWith
<1>5. \A k \in 1 .. ValidLength : log[k].op.kind = "Abort" => log[k].tx # log[Upcoming].tx
  BY <1>1, <1>3 DEF IdsWith
<1>6. Settled(Upcoming, j)
  BY <1>1, <1>3, <1>4, <1>5 DEF Settled
<1> QED
  BY <1>2, <1>3, <1>6 DEF SettledImage

LEMMA SettledImageStays ==
    ASSUME Base, ClientInv, [RecoveryNext]_recoveryVars, NEW p, NEW v, SettledImage(p, v)
    PROVE  SettledImage(p, v)'
<1>1. PICK i, j \in 1 .. ValidLength :
          Settled(i, j) /\ log[i].op.page = p /\ log[i].op.image = v
  BY DEF SettledImage
<1>2. Settled(i, j)' /\ log'[i] = log[i]
  BY <1>1, SettledStays
<1>3. i \in 1 .. ValidLength' /\ j \in 1 .. ValidLength'
  BY <1>2 DEF Settled
<1> QED
  BY <1>1, <1>2, <1>3 DEF SettledImage

LEMMA StepImages ==
    ASSUME Base, ClientInv, ImagesInv, [RecoveryNext]_recoveryVars
    PROVE  ImagesInv'
<1>a. \A p \in Pages, v \in PageValues : SettledImage(p, v) => SettledImage(p, v)'
  BY SettledImageStays
<1>b. /\ redo \in BOOLEAN /\ early \in BOOLEAN
      /\ disk \in [Pages -> SUBSET PageValues]
      /\ \A p \in Pages : p < count => page[p] \in disk[p]
      /\ WalTypeOK /\ WalShape
  BY DEF Base, RecoveryTypeOK, ImagesInv
\* Steps that leave the page file alone.
<1>c. ASSUME UNCHANGED <<count, page, disk, early>>, redo' /\ ~early' => ValidLength' <= synced'
      PROVE  ImagesInv'
  BY <1>a, <1>b, <1>c DEF ImagesInv
<1>1. CASE Open \/ ClientStep \/ Flush \/ FailedAppend
  <2>1. UNCHANGED <<count, page, disk, redo, early>>
    BY <1>1, ClientStepAppends
    DEF Open, Flush, FailedAppend, Appending, pageVars, redoVars
  <2>2. ~redo
    <3>1. up \/ ~redo
      BY <1>1, ClientStepAppends
      DEF Open, Flush, FailedAppend, AppendFails, Appending, AppendRecord
    <3> QED
      BY <3>1 DEF Base, RedoShape
  <2>3. ~redo'
    BY <2>1, <2>2
  <2> QED
    BY <1>c, <2>1, <2>3
<1>2. CASE ProcessEnds
  <2>1. UNCHANGED <<count, page, disk, early>>
    BY <1>2 DEF ProcessEnds, pageVars, redoVars
  <2>2. UNCHANGED <<log, torn, synced>>
    BY <1>2 DEF ProcessEnds, Exit
  <2>3. redo' => redo
    BY <1>2 DEF ProcessEnds, RedoOver, redoVars
  <2> QED
    BY <1>c, <2>1, <2>2, <2>3, SameReadable DEF ImagesInv
<1>3. CASE MachineCrash
  <2>1. PICK n \in diskCount .. count :
          /\ count' = n
          /\ page' \in {f \in [Pages -> PageValues] :
                           \A p \in Pages : IF p < n THEN f[p] \in disk[p] ELSE f[p] = Blank}
    BY <1>3 DEF MachineCrash
  <2>2. disk' = [p \in Pages |-> IF p < count' THEN {page'[p]} ELSE {}]
        /\ early' = early /\ redo' = FALSE
    BY <1>3 DEF MachineCrash, RedoOver
  <2>3. \A p \in Pages : /\ p < count' => page'[p] \in disk'[p]
                         /\ disk'[p] \subseteq disk[p]
    BY <2>1, <2>2
  <2>4. ~redo'
    BY <2>2, Zenon
  <2> QED
    BY <1>a, <1>b, <2>2, <2>3, <2>4 DEF ImagesInv
<1>4. CASE RecoverStart
  <2>1. UNCHANGED <<count, page, disk, log, torn, synced>> /\ early' = (early \/ synced < ValidLength)
    BY <1>4 DEF RecoverStart, walVars, pageVars
  <2>2. ~early' => ~early /\ ValidLength' <= synced'
    <3>1. ValidLength \in Nat /\ synced \in Nat /\ ValidLength' = ValidLength
      BY <1>b, <2>1, ValidLengthFacts, SameReadable DEF WalTypeOK
    <3>2. ~early' => ~early /\ ~(synced < ValidLength)
      BY <2>1, Zenon
    <3>3. ~(synced < ValidLength) => ValidLength' <= synced'
      BY <2>1, <3>1
    <3> QED
      BY <3>2, <3>3, Zenon
  <2> QED
    BY <1>a, <1>b, <2>1, <2>2 DEF ImagesInv
<1>5. CASE RecoverRejected \/ UNCHANGED recoveryVars
  <2>1. UNCHANGED <<count, page, disk, early, redo, log, torn, synced>>
    BY <1>5 DEF RecoverRejected, recoveryVars, walVars, pageVars, redoVars
  <2> QED
    BY <1>c, <2>1, SameReadable DEF ImagesInv
<1>6. CASE RedoStep
  <2>1. /\ redo /\ UNCHANGED <<log, torn, synced, early>>
    BY <1>6, RedoStepFacts
  <2>2. ValidLength' = ValidLength
    BY <2>1, SameReadable
  <2>3. ~early => ValidLength <= synced
    BY <2>1 DEF ImagesInv
  <2>4. disk' \in [Pages -> SUBSET PageValues]
    BY <1>6, RedoStepFacts
  <2>5. ASSUME ~early, NEW p \in Pages, NEW v \in disk'[p] \ {Blank, Garbled}
        PROVE  SettledImage(p, v)'
    <3>1. v \in PageValues
      BY <2>4, <2>5
    <3>2. CASE v \in disk[p]
      BY <1>a, <2>5, <3>1, <3>2 DEF ImagesInv
    <3>3. CASE todo # {} /\ p = Write.page /\ v = Write.image
      BY <1>a, <2>3, <2>5, <3>1, <3>3, UpcomingSettled
    <3>4. \A q \in Pages : \A u \in disk'[q] \ {Blank, Garbled} :
              u \in disk[q] \/ (todo # {} /\ q = Write.page /\ u = Write.image)
      BY <1>6, RedoImages
    <3>5. v \in disk[p] \/ (todo # {} /\ p = Write.page /\ v = Write.image)
      BY <2>5, <3>4
    <3> QED
      BY <3>2, <3>3, <3>5
  <2>6. \A p \in Pages : p < count' => page'[p] \in disk'[p]
    BY <1>6, RedoImages
  <2> QED
    BY <2>1, <2>2, <2>3, <2>5, <2>6 DEF ImagesInv
<1> QED
  BY <1>1, <1>2, <1>3, <1>4, <1>5, <1>6 DEF RecoveryNext, ClientStep, RedoStep

-----------------------------------------------------------------------------
(* Recovered pages *)

\* A running recovery applies the replayed writes from the first to the last, so
\* that what is left is the end of them, and a page whose last write is not among
\* them holds its image.
RedoInv ==
    redo =>
        /\ ~recovered
        /\ \A i \in todo, j \in Replayed : i <= j => j \in todo
        /\ \A p \in Pages : target[p] = LastImage(Readable, p)
        /\ \A p \in Pages : \A i \in WritesOf(Readable, p) :
              (\A j \in WritesOf(Readable, p) : j <= i) =>
                  i \in todo \/ (p < count /\ page[p] = log[i].op.image)

LEMMA InitRecovered == RecoveryInit => RedoInv /\ RecoveredPagesStay
<1> SUFFICES ASSUME RecoveryInit PROVE RedoInv /\ RecoveredPagesStay
  OBVIOUS
<1>1. ~redo /\ ~recovered
  BY Zenon DEF RecoveryInit
<1> QED
  BY <1>1, Zenon DEF RedoInv, RecoveredPagesStay

\* With nothing left to apply, every page holds its last committed image.
LEMMA AllApplied ==
    ASSUME Base, RedoInv, redo, todo = {}, NEW p \in Pages, target[p] # NoImage
    PROVE  p < count /\ page[p] = target[p]
<1>1. WalTypeOK /\ WalShape /\ target[p] = LastImage(Readable, p)
  BY DEF Base, RecoveryTypeOK, RedoInv
<1>2. PICK i \in WritesOf(Readable, p) :
          /\ \A j \in WritesOf(Readable, p) : j <= i
          /\ LastImage(Readable, p) = log[i].op.image
  BY <1>1, LastImageFacts
<1> QED
  BY <1>1, <1>2 DEF RedoInv

LEMMA RedoKeepsOrder ==
    ASSUME Base, RedoInv, RedoStep
    PROVE  RedoInv'
<1>a. /\ redo /\ UNCHANGED <<log, torn, target>>
      /\ WalTypeOK /\ WalShape /\ ValidLength \in 0 .. Len(log)
      /\ count \in Nat /\ page \in [Pages -> PageValues] /\ \A p \in Pages : p \in Nat
  BY RedoStepFacts, ValidLengthFacts, BoundsAssumption DEF Base, RecoveryTypeOK
<1>b. /\ Readable' = Readable /\ Replayed' = Replayed
      /\ \A p \in Pages : WritesOf(Readable, p)' = WritesOf(Readable, p)
      /\ \A p \in Pages : LastImage(Readable, p)' = LastImage(Readable, p)
  BY <1>a, SameReadable
<1>c. /\ ~recovered
      /\ \A i \in todo, j \in Replayed : i <= j => j \in todo
      /\ \A p \in Pages : target[p] = LastImage(Readable, p)
      /\ \A p \in Pages : \A i \in WritesOf(Readable, p) :
            (\A j \in WritesOf(Readable, p) : j <= i) =>
                i \in todo \/ (p < count /\ page[p] = log[i].op.image)
  BY <1>a DEF RedoInv
<1>d. /\ Replayed \subseteq Nat
      /\ \A p \in Pages : WritesOf(Readable, p) = {i \in Replayed : log[i].op.page = p}
  BY <1>a, ReplayedFacts
<1>1. CASE RedoAllocate
  <2>1. /\ count' = count + 1 /\ UNCHANGED <<redo, todo, recovered>>
        /\ page' = [page EXCEPT ![count] = Blank]
    BY <1>1 DEF RedoAllocate, redoVars
  <2>2. \A p \in Pages : p < count => p < count' /\ page'[p] = page[p]
    BY <1>a, <2>1
  <2> QED
    BY <1>a, <1>b, <1>c, <2>1, <2>2 DEF RedoInv
<1>2. CASE RedoApply
  <2>1. /\ todo # {} /\ ~PageMissing(Write.page)
        /\ page' = [page EXCEPT ![Write.page] = Write.image]
        /\ todo' = todo \ {Upcoming} /\ UNCHANGED <<count, redo, recovered>>
    BY <1>2 DEF RedoApply
  <2>2. /\ Upcoming \in todo /\ Upcoming \in Replayed
        /\ \A j \in todo : Upcoming <= j
        /\ Write = log[Upcoming].op /\ Write.page \in Pages
    BY <2>1, UpcomingFacts
  <2>3. todo \subseteq Replayed
    BY DEF Base, RedoShape
  <2>4. ASSUME NEW i \in todo', NEW j \in Replayed, i <= j
        PROVE  j \in todo'
    <3>1. i \in todo /\ i # Upcoming /\ j \in todo
      BY <1>c, <2>1, <2>4
    <3>2. Upcoming <= i /\ i \in Nat /\ j \in Nat /\ Upcoming \in Nat
      BY <1>d, <2>2, <2>3, <3>1
    <3> QED
      BY <2>1, <2>4, <3>1, <3>2
  <2>5. ASSUME NEW p \in Pages, NEW i \in WritesOf(Readable, p),
               \A j \in WritesOf(Readable, p) : j <= i
        PROVE  i \in todo' \/ (p < count' /\ page'[p] = log'[i].op.image)
    <3>1. i \in Replayed /\ log[i].op.page = p
      BY <1>d, <2>5
    <3>2. CASE i = Upcoming
      <4>1. p = Write.page /\ ~(count <= p)
        BY <2>1, <2>2, <3>1, <3>2 DEF PageMissing
      <4> QED
        BY <1>a, <2>1, <2>2, <3>2, <4>1
    <3>3. CASE i # Upcoming /\ i \in todo
      BY <2>1, <3>3
    <3>4. CASE i \notin todo
      <4>1. p < count /\ page[p] = log[i].op.image
        BY <1>c, <2>5, <3>4
      <4>2. p # Write.page
        <5>1. SUFFICES ASSUME p = Write.page PROVE FALSE
          OBVIOUS
        <5>2. Upcoming \in WritesOf(Readable, p)
          BY <1>d, <2>2, <5>1
        <5>3. Upcoming <= i
          BY <2>5, <5>2
        <5> QED
          BY <1>c, <2>2, <3>1, <3>4, <5>3
      <4> QED
        BY <1>a, <2>1, <4>1, <4>2
    <3> QED
      BY <3>2, <3>3, <3>4
  <2> QED
    BY <1>a, <1>b, <1>c, <2>1, <2>4, <2>5 DEF RedoInv
<1>3. CASE RedoFails \/ RecoverReturn
  <2>1. redo' = FALSE
    BY <1>3 DEF RedoFails, RecoverReturn, RedoOver
  <2>2. ~redo'
    BY <2>1, Zenon
  <2> QED
    BY <2>2 DEF RedoInv
<1> QED
  BY <1>1, <1>2, <1>3 DEF RedoStep

LEMMA StepRedo ==
    ASSUME Base, RedoInv, [RecoveryNext]_recoveryVars
    PROVE  RedoInv'
<1>1. CASE RedoStep
  BY <1>1, RedoKeepsOrder
<1>2. CASE RecoverStart
  <2>1. /\ todo' = Replayed /\ ~recovered'
        /\ target' = [p \in Pages |-> LastImage(Readable, p)]
        /\ UNCHANGED <<log, torn>>
    BY <1>2 DEF RecoverStart, Replayed, walVars
  <2>2. /\ Replayed' = Replayed
        /\ \A p \in Pages : WritesOf(Readable, p)' = WritesOf(Readable, p)
        /\ \A p \in Pages : LastImage(Readable, p)' = LastImage(Readable, p)
    BY <2>1, SameReadable
  <2>3. \A p \in Pages : WritesOf(Readable, p) \subseteq Replayed
    BY ReplayedFacts DEF Base, RecoveryTypeOK
  <2> QED
    BY <2>1, <2>2, <2>3 DEF RedoInv
<1>3. CASE ProcessEnds \/ RecoverRejected \/ UNCHANGED recoveryVars
  <2>1. CASE UNCHANGED <<redo, todo, target, recovered, count, page, log, torn>>
    <3>1. /\ Readable' = Readable /\ Replayed' = Replayed
          /\ \A p \in Pages : WritesOf(Readable, p)' = WritesOf(Readable, p)
          /\ \A p \in Pages : LastImage(Readable, p)' = LastImage(Readable, p)
      BY <2>1, SameReadable
    <3> QED
      BY <2>1, <3>1 DEF RedoInv
  <2>2. CASE redo' = FALSE
    <3>1. ~redo'
      BY <2>2, Zenon
    <3> QED
      BY <3>1 DEF RedoInv
  <2> QED
    BY <1>3, <2>1, <2>2
    DEF ProcessEnds, Exit, RedoOver, RecoverRejected, recoveryVars, walVars, pageVars, redoVars
<1>4. CASE Open \/ ClientStep \/ Flush \/ FailedAppend
  <2>1. redo' = redo
    BY <1>4, ClientStepAppends DEF Open, Flush, FailedAppend, Appending, redoVars
  <2>2. ~redo
    <3>1. up \/ ~redo
      BY <1>4, ClientStepAppends
      DEF Open, Flush, FailedAppend, AppendFails, Appending, AppendRecord
    <3> QED
      BY <3>1 DEF Base, RedoShape
  <2> QED
    BY <2>1, <2>2 DEF RedoInv
<1>5. CASE MachineCrash
  <2>1. ~redo'
    BY <1>5, Zenon DEF MachineCrash, RedoOver
  <2> QED
    BY <2>1 DEF RedoInv
<1> QED
  BY <1>1, <1>2, <1>3, <1>4, <1>5 DEF RecoveryNext, ClientStep, RedoStep

LEMMA StepRecovered ==
    ASSUME Base, ImagesInv, RedoInv, RecoveredPagesStay, [RecoveryNext]_recoveryVars
    PROVE  RecoveredPagesStay'
<1>a. /\ count \in Nat /\ diskCount \in 0 .. count /\ \A p \in Pages : p \in Nat
      /\ \A p \in Pages : p < count => page[p] \in disk[p]
      /\ recovered \in BOOLEAN
  BY BoundsAssumption DEF Base, RecoveryTypeOK, ImagesInv
<1>1. CASE RecoverReturn
  <2>1. /\ redo /\ todo = {} /\ UNCHANGED <<count, page, target>> /\ diskCount' = count
        /\ disk' = [p \in Pages |-> IF p < count THEN {page[p]} ELSE {}]
    BY <1>1 DEF RecoverReturn
  <2>2. ASSUME NEW p \in Pages, target'[p] # NoImage
        PROVE  p < diskCount' /\ page'[p] = target'[p] /\ disk'[p] = {target'[p]}
    <3>1. p < count /\ page[p] = target[p]
      BY <2>1, <2>2, AllApplied
    <3> QED
      BY <2>1, <3>1
  <2> QED
    BY <2>2 DEF RecoveredPagesStay
<1>2. CASE RedoAllocate \/ RedoApply \/ RedoFails
  <2>1. redo /\ recovered' = recovered
    BY <1>2 DEF RedoAllocate, RedoApply, RedoFails, redoVars
  <2>2. ~recovered
    BY <2>1 DEF RedoInv
  <2> QED
    BY <2>1, <2>2 DEF RecoveredPagesStay
<1>3. CASE RecoverStart
  <2>1. ~recovered'
    BY <1>3, Zenon DEF RecoverStart
  <2> QED
    BY <2>1 DEF RecoveredPagesStay
<1>4. CASE MachineCrash
  <2>1. PICK n \in diskCount .. count :
          /\ count' = n /\ diskCount' = n
          /\ page' \in {f \in [Pages -> PageValues] :
                           \A p \in Pages : IF p < n THEN f[p] \in disk[p] ELSE f[p] = Blank}
    BY <1>4 DEF MachineCrash
  <2>2. /\ disk' = [p \in Pages |-> IF p < count' THEN {page'[p]} ELSE {}]
        /\ target' = target /\ recovered' = recovered
    BY <1>4 DEF MachineCrash
  <2>3. ASSUME recovered, NEW p \in Pages, target[p] # NoImage
        PROVE  p < diskCount' /\ page'[p] = target'[p] /\ disk'[p] = {target'[p]}
    <3>1. p < diskCount /\ disk[p] = {target[p]}
      BY <2>3 DEF RecoveredPagesStay
    <3>2. p < n /\ p < diskCount'
      BY <1>a, <2>1, <3>1
    <3> QED
      BY <2>1, <2>2, <3>1, <3>2
  <2> QED
    BY <2>2, <2>3 DEF RecoveredPagesStay
<1>5. CASE \/ Open \/ ClientStep \/ Flush \/ FailedAppend
           \/ ProcessEnds \/ RecoverRejected \/ UNCHANGED recoveryVars
  <2>1. UNCHANGED <<diskCount, page, disk, target, recovered>>
    BY <1>5, ClientStepAppends
    DEF Open, Flush, FailedAppend, Appending, ProcessEnds, RecoverRejected, recoveryVars, pageVars, redoVars
  <2> QED
    BY <2>1 DEF RecoveredPagesStay
<1> QED
  BY <1>1, <1>2, <1>3, <1>4, <1>5 DEF RecoveryNext, ClientStep

-----------------------------------------------------------------------------
(* Theorems *)

\* The inductive invariant.
IndInv == Base /\ ClientInv /\ ImagesInv /\ RedoInv /\ RecoveredPagesStay

LEMMA Invariance == RecoverySpec => []IndInv
<1>1. RecoveryInit => IndInv
  BY InitBase, InitClient, InitImages, InitRecovered DEF IndInv
<1>2. IndInv /\ [RecoveryNext]_recoveryVars => IndInv'
  BY StepBase, StepClient, StepImages, StepRedo, StepRecovered DEF IndInv
<1> QED
  BY <1>1, <1>2, PTL DEF RecoverySpec

\* Once recover has returned, each page holds its last committed image, and no
\* exit or crash takes it away, for every log a client may have written and
\* however often recovery was cut short before.
THEOREM RecoveryIsComplete == RecoverySpec => []RecoveredPagesStay
BY Invariance, PTL DEF IndInv

\* The images of settled writes are those the log commits.
LEMMA SettledAreCommitted ==
    ASSUME Base, NEW p \in Pages, NEW v, SettledImage(p, v)
    PROVE  v \in CommittedImages(p)
<1>1. /\ DOMAIN Readable = 1 .. ValidLength
      /\ \A i \in 1 .. ValidLength : Readable[i] = log[i]
  BY ReadableFacts DEF Base, RecoveryTypeOK
<1>2. PICK i, j \in 1 .. ValidLength :
          Settled(i, j) /\ log[i].op.page = p /\ log[i].op.image = v
  BY DEF SettledImage
<1>3. log[i].tx \in IdsWith(Readable, "Commit")
  BY <1>1, <1>2 DEF Settled, IdsWith
<1>4. log[i].tx \notin IdsWith(Readable, "Abort")
  BY <1>1, <1>2 DEF Settled, IdsWith
<1>5. i \in WritesOf(Readable, p)
  BY <1>1, <1>2, <1>3, <1>4 DEF WritesOf, Settled
<1> QED
  BY <1>1, <1>2, <1>5 DEF CommittedImages

\* No page holds, or could hold after a crash, an image of a transaction the log
\* does not commit, as long as every recovery replayed a synchronized log.
THEOREM OnlyCommittedShow == RecoverySpec => []OnlyCommittedImages
<1>1. IndInv => OnlyCommittedImages
  <2> SUFFICES ASSUME IndInv PROVE OnlyCommittedImages
    OBVIOUS
  <2>1. Base /\ ImagesInv /\ RecoveryTypeOK
    BY DEF IndInv, Base
  <2>2. ASSUME ~early, NEW p \in Pages, NEW v \in disk[p] \ {Blank, Garbled}
        PROVE  v \in CommittedImages(p)
    <3>1. SettledImage(p, v)
      BY <2>1, <2>2 DEF ImagesInv
    <3> QED
      BY <2>1, <3>1, SettledAreCommitted
  <2> QED
    BY <2>1, <2>2 DEF OnlyCommittedImages, PagesFollowLog
<1> QED
  BY <1>1, Invariance, PTL
====
