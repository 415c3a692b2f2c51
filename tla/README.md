# NovaDB in TLA+

Specifications, model-checking configurations and machine-checked proofs of
NovaDB (the Rust workspace in `src/`): a single-node document database with a
write-ahead log, a page file and buffer pool, transactions with collection
locks, B+ tree indexes, a query language, a TCP server with authentication, and
an analysis layer that recommends indexes.

Paths below are relative to `src/crates/`.

## Inventory

| Component | State it keeps | Operations | Talks to | What is hard | What makes it correct |
|---|---|---|---|---|---|
| Write-ahead log `nova-wal/src/lib.rs` | the record vector, next LSN, durable LSN, one file | begin, log_page_write, commit, abort, checkpoint, flush, open | file system | short writes, failed syncs, torn tails, crashes, reopening | LSNs equal positions; what was flushed stays readable |
| Redo recovery `nova-wal/src/lib.rs` `recover` | none beyond the call | recover | log file, page manager | interrupted and repeated runs, lost page writes, aborted and unfinished transactions | last committed image in every page, nothing else |
| Transaction manager `nova-transaction/src/lib.rs` | next id, statuses, lock table, all under one mutex | open, begin, acquire_shared, acquire_exclusive, commit, rollback, status | log | callers in any order, a finish that fails half way, reopening | exclusion, strict two-phase locks, durable outcomes, fresh ids |
| Page manager `nova-storage/src/manager.rs` | page count, one file | open, allocate, read, write, sync | file system | short writes, misaligned file | pages at their offsets, errors never silent |
| Buffer pool `nova-buffer/src/lib.rs` | frames with dirty flag, pin count, last use | open, allocate, get, get_mut, pin, unpin, flush_all, shutdown | page manager | eviction with pinned and dirty frames, half-done flushes | callers see their own last write; capacity; pins |
| Slotted page `nova-storage/src/page.rs` | slots and records of one page | insert, get, remove, to_bytes, from_bytes | checksum | free-space arithmetic, deleted slots | a page that accepts a record can be written and is read as it was |
| Storage engine `nova-storage/src/engine.rs` | map from document id to page and slot | open, insert, get, shutdown | page manager, slotted page, nbf | allocate-then-write, pages torn by failures and crashes | one record per id unless a failed insert is repeated, places resolve, synchronized documents return |
| B+ tree `nova-index/src/lib.rs` | nodes in memory, one snapshot file | create, open, insert, get, range, remove, sync, verify | file system | splits up to the root, sync in place | agrees with a set of pairs |
| Index catalog, indexed backend `nova-index/src/catalog.rs`, `nova-executor/src/indexed.rs` | definitions, open trees, metadata files | create, drop, insert, replace and delete documents, lookup | B+ trees, inner backend | two updates that are not atomic, orphan files, restarts | an index finds every document of its key |
| Lexer and parser `nova-query/src/{lexer,parser,ast}.rs` | none beyond the call | lex, parse | executor | where tokens end, precedence and associativity, lists and their last commas | longest lexemes; parsing inverts writing |
| Executor, memory backend `nova-executor/src/{executor,backend,evaluate}.rs` | collections | the query commands, execute_with_telemetry | planner, backend, sink | loops that stop in the middle, assignments that fail, sorting of unlike values | commands act on what `get` returns; stages keep their promises |
| Planner `nova-planner/src/lib.rs` | none | plan | index definitions | equality of keys, order of stages | index scan equals full scan |
| Authentication `nova-auth/src/lib.rs` | accounts and sessions under one mutex | create_user, authenticate, authorize, revoke, set_role, set_enabled, change_password | server | administrators and logins in any order | sessions never outlive the account state they were issued for |
| Server `nova-server/src/{lib,protocol}.rs` | listener, shutdown flag, worker list, active counter, backend mutex | serve, shutdown, handle_connection, authorize, reject_busy | authentication, executor, clients | threads, panics, poisoned mutex, slow or vanishing clients, shutdown | connection limit, no effect of refused commands, termination |
| Client and command line `nova-client`, `nova-cli` | one connection | send a query | server | none beyond the server's | response matches request |
| Analysis layer `nova-intelligence/src/` | event buffer, recommendation records | record, clear, analyze_workload, recommend_indexes, accept, dismiss, mark_applied, evaluate; the assistant's text | executor, planner | evidence older than the catalog it is used on, order of the lifecycle calls, saturating counters | reports count what happened; advice is of use; only documented transitions |
| nbf, core values | none | encode, decode | everything | bytes | round trips |
| Studio `apps/nova-studio` | user interface state | commands | client | none of its own | |

Two things are worth knowing before reading on. The crates are layers that the
repository has not yet joined: nothing but tests logs page writes, the storage
engine does not use the buffer pool, and the server runs the memory backend or
the indexed backend. The modules follow that: each layer is composed with the
layer it really calls. And almost every object is either owned by one caller
(`&mut self`) or guarded by one mutex held for a whole call, so that one call is
one action; the exceptions are the server's threads, and what crashes and failed
I/O leave behind in the middle of a call.

## Modules

| Module | Models | Role |
|---|---|---|
| `WriteAheadLog` | `nova-wal` handle and file | shared component, no specification of its own |
| `Transactions` | `nova-transaction` on `WriteAheadLog` | composed specification |
| `Recovery` | `nova_wal::recover`, log and page file | composed specification |
| `WriteAheadLog_proofs` | | lemmas about `WriteAheadLog`; theorems about `Transactions` and `Recovery`, which share its state |
| `PageStore` | what a page cache promises | abstract specification |
| `BufferPool` | `nova-buffer` and the page manager | refines `PageStore` |
| `BufferPool_proofs` | | theorems about `BufferPool`, the refinement included |
| `SlottedPage` | the page of `nova-storage` and its image | operators and assumptions; used by `StorageEngine` |
| `StorageEngine` | `nova-storage`'s engine on the page manager | composed specification |
| `StorageEngine_proofs` | | theorems about `SlottedPage` and `StorageEngine` |
| `IndexedBackend` | index catalog and trees, `IndexedBackend` around `MemoryBackend`, the planner's access path, the update and delete loops | composed specification |
| `IndexedBackend_proofs` | | theorems about `IndexedBackend` |
| `BPlusTree` | the nodes of `nova-index`'s tree | specification of its own; `IndexedBackend` uses a tree as the set of pairs |
| `BPlusTree_proofs` | | theorems about `BPlusTree` |
| `AuthService` | `nova-auth` | shared component |
| `Server` | `nova-server` on `AuthService` | composed specification with fairness |
| `Server_proofs` | | theorems about `Server` and `AuthService` |
| `QueryLexer`, `QueryParser` | `nova-query`: text to tokens, tokens to syntax tree | operators; `QueryParser` extends `QueryLexer` |
| `QuerySyntax` | the language as `docs/novaql.md` describes it: lexemes, printing | reference definitions for the two |
| `QueryPlanning` | the planner, and what telemetry reads off a query | operators without a store, free of `RECURSIVE` |
| `QueryExecution` | `nova-executor`'s expressions and pipeline stages | operators over `QueryPlanning` |
| `QueryEngine` | commands, backend, the event of an execution | operators over `QueryExecution` |
| `QuerySession` | a session of queries on one store | specification over `QueryEngine`, free of `RECURSIVE` |
| `QueryEngine_proofs` | | theorems about `QueryPlanning`, `QueryEngine` and `QuerySession` |
| `Queries` | a session that may begin with a text | composes `QuerySyntax` and `QuerySession` |
| `Intelligence` | `nova-intelligence`, beside whatever queries do | specification over `QueryPlanning` |
| `Intelligence_proofs` | | theorems about `Intelligence` and `ObservedSession`, on the lemmas of `QueryEngine_proofs` |
| `ObservedSession` | the intelligence engine beside a real store | composes `Intelligence` and `QueryEngine`, implements `Intelligence` |
| `MC...` | | small instances for TLC |

### WriteAheadLog

`log` is the sequence of complete records of the file. While a handle is open it
equals the handle's `records`, because `append` pushes a record right after it
has written it whole. A failed `write_all` leaves none or part of a record:
`torn` counts the complete records in front of the first such tear, the only
one decoding reaches. `synced` counts the records a machine crash cannot take.
`AppendRecord`, `AppendFails`, `SyncUpTo`, `OpenLog` and `OpenRejected` are the
operations and their outcomes; `Exit` (process) and `Crash` (machine) end a
handle. A crash leaves any prefix that includes the synchronized records,
possibly cut inside the next one. Bytes are abstracted: a record is its LSN,
transaction and operation, and what a decoder makes of the bytes behind a tear
(torn tail or corruption) is a choice.

### Transactions

One action per public call and way it can end: `BeginTx`/`BeginFails` (the id is
spent in either case), `AcquireShared`, `AcquireExclusive`, `Finish` (commit and
rollback, which differ in the record's kind and the status only),
`FinishAppendFails`, `FinishFlushFails` (the terminal record is in the file, the
transaction stays active and keeps its locks). Calls that are refused change
nothing that is kept: the empty lock entry `entry().or_default()` leaves behind
is equal to no entry. `acked` is a history variable: the outcomes callers were
told. Its field `clean` says that the log had no tear when the outcome was
reported: once an append has failed half way, everything appended behind it is
out of reach of every decoder, flushed or not, until the log is reopened. The
properties about durable outcomes are stated for clean reports; the hazard list
names the line.

### Recovery

The client of the log is external: no crate but the tests writes page images.
It draws ids as the transaction manager does, writes pages while active and may
abort after a commit that was not flushed. `RecoverStart` decodes the log and
keeps the positions of the committed, not aborted page writes (`todo`, of which
`Upcoming` is the first), then each
`RedoAllocate` and `RedoApply` is one call into the page file, and
`RecoverReturn` is the final sync. Between any two of them the call may fail
(`RedoFails`, with a short write that may still have written every byte that differs), the process may end (`ProcessEnds`) or the machine
(`MachineCrash`). `disk` holds for each page the values a crash may leave. The
initial states, the next-state relation and the specification carry the module's name
(`RecoveryInit` and so on), so that both users of the log can be reasoned about in one
module.

### PageStore and BufferPool

`PageStore` says what callers may rely on: the content of a page is what they
last put into it, the file only ever takes the content, and an operation that
reports a fault harms at most one page, except that what was not stored is lost
when a closing operation fails. `BufferPool` has one action per call of the pool
and per failure; making room is part of the action that needs it, as in the
code. The clock is abstracted to the order of uses (`older`: the frames used before each frame), which is all
that eviction compares; `BufferStats` is left out because nothing reads it. A write of
a frame that fails leaves the old page, the new one, or one that does not decode
(`PartlyWritten`): the bytes that were not written may be equal in both pages. The
refinement maps the content of a page to its frame if there is one and to the
file otherwise.

### SlottedPage and StorageEngine

A page is a sequence of slots, each a record or `Deleted`. `FreeSpace`, `Fits` and
`InsertRecord` are the arithmetic and the choice of slot of `insert`; `Encode` lays
records and directory out as `to_bytes` does, and `Valid` holds the checks of
`from_bytes` on counts, bounds, overlaps and gaps. A byte of an image is the record
it belongs to. Magic, version, reserved bytes and checksum are left out: an image
that any of them rejects is `Garbled`.

`StorageEngine` keeps in `file` the image of each page (numbered from 1), in `tail`
whether part of a page follows them, in `kept` the images of each page a crash may
leave, in `durableLength` the pages it leaves at least. `Insert` and
`InsertAllocates` are the two ways of an insertion that succeeds; `InsertFails`,
`AllocationFails` and `AllocationMisplaced` the ways it does not, the last one on a
file that an earlier failure left with part of a page. Only `Shutdown`
synchronizes. The engine never removes a record, but reads and fills pages with
deleted slots, so that `RemoveRecord` is an external client of the page manager,
at work while no engine has the file.

A write that fails leaves the old page, the new one, or `Garbled` (`PartlyWritten`).
The new one is a real outcome: records lie from the end of the page down, so a record
in a new slot changes nothing behind the old payload, and a short write that gets as far
has written all that differs. `insert` returns the error all the same, and the
directory does not know the place. The document is then in the file, and may be found by
the next `open`; if the caller repeats the insertion before, the id is stored twice, and
the next `open` fails with its duplicate. The history variables `failed` (ids left so by
the engine at work) and `retried` (ids inserted once more) tell which ids these are:
`DirectoryFollowsPages` says that no other id is ever stored twice. A `Garbled` page stops
every later search that reaches it and every `open`, which is a loss of availability
that no document excludes. `get` changes nothing; what it returns is
`DirectoryFollowsPages`. `durable`, the third history variable, has the documents that a
successful shutdown found.

### IndexedBackend

The documents (`collections`, `documents`) belong to `MemoryBackend` and end with
the process. Of an index, `owner` is its definition, `entries` its tree in memory
as a set of pairs of key and id, `dirty` the tree's mark, `metaFile` and `treeFile`
its two files, which may be absent or not decode. Each action is one call into
`IndexedBackend`: `Insert`, `CreateIndex`, `DropIndex`, `DropCollection` and so on,
with an action for each way the call can fail half way, in the order of the code:
the inner backend first, then the trees in memory, then their files one by one in
name order (`Synced`, `SyncFails`). An update or a delete is `StartCommand`, which
selects the documents through the access path the planner picks (`Candidates`),
then one `CommandStep` for each. `CommandStep` is a call, not the whole query, so
that an error or the end of the process can stand between two documents.

A document is the value of its one indexed field, and every index is on that
field. More fields only give a document more independent values; the planner
looks at one field per index, and its order among the indexes that fit is
modelled. Values are keys, nothing to index (missing or null), or of a type no index
takes; `Literals` are the keys a query can write as one literal, the only ones the
planner turns into an index key (a negative number is a negation of a literal);
`SameNumber` holds the distinct keys that `==` takes for equal. Indexes on `_id` are
left out: no literal is an identifier, so the planner never picks one. A process
that ends within a call is a call that fails where it stands, then `Exit`. What a
machine crash takes from a directory is not modelled, as nothing synchronizes
directories and `docs/index-format.md` claims no crash atomicity. That a delete or
a replace could fail on the old document's key after the document has changed is
left out of `CommandStep` because `IndexedDocumentsHaveKeys` shows it out of reach.

### BPlusTree

`nodes` is the node vector; ids of nodes are positions in it, from 1. `InsertPair`
descends and splits as `insert_node` does, in the same order of pushes, so that
node ids agree with the code's; `RemovePair` empties leaves and never merges them.
Each leaf is a function from its keys to sets of ids: the order inside a leaf and
inside a list of ids, which binary search keeps, is abstracted, and `KeyRange` puts
it back. A leaf splits at the key that half of its keys lie below (`Ranked`), the
first of the upper half in the code's vector. Descents and checks are recursive
functions on the nodes, or on a node with its two bounds in `WithinBounds`; on trees
of the code each call goes one level down, or along the chain to greater keys. The
history variable `pairs` is what the operations were asked for.
`AlwaysVerified` is `verify` written out; `sync` calls it before every write and
`open` after every read, so that the module `IndexedBackend`, where a sync without
an I/O error succeeds and a whole file opens, rests on it. It rests on `LookupsAgree` for
treating a tree as a set of pairs.

### AuthService and Server

`AuthService` has one action per call of the service. Password hashes are
compared as passwords, and a drawn token is never drawn again (256 random bits).

`Server` gives every connection a `step`: from the listener's backlog through the
worker (`reading`, `authorizing`, `locking`, `executing`, `responding`) to the
end of the thread. The accept loop is `phase`; it refuses a busy client by
itself, so no other connection is accepted meanwhile. Reading the counter and
raising it are one step, because only the accept loop raises it and a worker
lowering it in between only makes room. A panic in the backend poisons the mutex
and skips `fetch_sub`. Frames are abstracted to what the request asks for, and
answers to their code. `executed` and `granted` are history variables.

### QueryLexer, QueryParser, QuerySyntax

A text is a sequence of characters, a token its kind, payload and place. The
operators are named as the functions of `lexer.rs` and `parser.rs` are. Tables of
characters are constants, so that an instance may choose few: a keyword may be
one letter, four hexadecimal digits one character. `parse::<i64>` and
`parse::<f64>` are constants, too. The four list parsers (paths, sort keys,
assignments, fields and values) are one operator, `ListFrom`, which takes what it
is a list of; only arrays and objects take a last comma. The grammar's recursion
is the code's. Spans of trees are left out; spans of tokens are kept.

`QuerySyntax` is what the two are held against, and it shares no recursion with
them: each kind of lexeme is a predicate on whole words, a text is cut into the
longest of them, and `Written` prints a tree with no more parentheses than the
table of precedences asks for.

### QueryPlanning, QueryExecution, QueryEngine, QuerySession, Queries

A value is its type and its content; a float is coded so that the order of the
codes is `total_cmp` and two codes may be the same number (the two zeros). Every
operator with an error returns it, and errors end an evaluation where the code's
`?` does; `and` and `or` leave their right operand alone where the code does.
`run_pipeline` goes through the stages, `sort_documents` validates each key's column and
then puts the documents one by one behind all they do not precede, which is what a
stable sort makes of them (`SortsAreStable` asks for nothing but the order). `QueryEngine` adds the
memory backend with exact indexes (what an index holds under failures is the
business of `IndexedBackend` and `BPlusTree`), the loops of `update` and `delete`, the
refusals of `validate_document`, and the telemetry event. The planner's choice of an
index, telemetry's walks over the predicate and `evaluate` are recursive functions on
`Expressions`, the expressions of an instance with all their parts; the loops over
documents, stages and assignments are recursive functions on positions. `MaxNesting`
bounds how deep values nest: `Same` and `Storable` look no deeper.

`QuerySession` begins with collections without documents, on which queries are
submitted and executed one after the other. One execution is one action: the backend is
behind one mutex. `Queries` puts the language in front: it begins with a text, which
`Parse` makes the first query of, or with a syntax tree. Properties of texts and trees
are about the first state, all others about every store that queries reach.
`IndexesChangeNothing` compares the planned execution with that over a full scan, while
no document of the collection has a zero with a sign to it where an index looks
(`IndexesExactFields`); `indexed_backend_zeros` shows what happens otherwise. Some things
the code does differ from what one expects, without contradicting its documents
clearly enough to be listed as findings: the parser accepts `project` after
`update` and `delete`, which execution refuses; a projection whose path ends below
a missing field leaves the empty documents on its way; an inserted object may have
a field named `_id`, which no query can read; an expression of an insertion that
reads `_id` gets the identifier zero; `explain` of a query is recorded as a
successful scan of no documents. A `Limit` in front of the first `Filter`, which
only a tree built by hand can have, would let the planner's choice change the
result, since the plan takes its key out of the first filter wherever it stands;
the parser always puts the filter first.

### Intelligence, ObservedSession

`definitions` is the index catalog of a session, `events` what `InMemoryTelemetry`
holds, `records` the records of the lifecycle. `clear` empties the sink;
`from_recommendations` analyses what the sink holds, asks the advisor, and starts the
lifecycle of the session, which has one at a time; `accept`, `dismiss`, `mark_applied`
and `evaluate_impact` are the calls of the lifecycle. Calls that are refused change
nothing. Queries, catalog and lifecycle are owned by different callers in the code; an
analysis, an advice or an evaluation here uses the events and the definitions of one
moment, but the moments may be far apart: an index may come or go, and the sink may be
cleared, between any two of them. Counters saturate at `MaxCount`. Elapsed times are
left out, and with them the fields that average them; they take part in no decision.

The engine sees of the database no more than events and definitions, and
`Intelligence` has no more of it. `Execute` leaves any definitions (`Catalogs`); if the
query is one of `Watched`, its event has the shape and the access path that
`build_event` and `plan` give it, and any numbers of documents (`Counts`) and either
outcome. So what holds of `Intelligence` does not depend on how queries are executed.
`ObservedSession` is the same engine beside a store on which `execute_planned` runs the
queries, each event being that of the execution (`observed_event`); its property
`ObservesQueries` says that it implements `Intelligence`. The variables of both have the
same names, and the refinement mapping is the identity; `collections` is hidden.
`Catalogs` must have all definitions that commands of the workload can make of others
(`CatalogsAfter`), and `Counts` all numbers of documents.

`RecommendationsWouldHelp` counts the evidence in events: successful executions, full
scans among them, the documents these examined, and the part of them they returned. An
explained query is an event of its planned scan that examined nothing, for the advisor
as for the property: it speaks for the number of scans, and never for the documents. Once
the two sums of documents saturate, each at its own time, their ratio says nothing of the
true one; the property is about the saturated sums then.

`RecordsMoveForward` asks for scans of queries that the path was a candidate of,
since that is what `evaluate` counts; `docs/nie-evaluation.md` says "indexed
executions of the same collection/path", and a scan over another path's index
counts as well.

## Runs

| Run | Shows |
|---|---|
| `transactions` | type correctness; exclusion and owners of locks (`LockTable`); fresh ids, durable outcomes, final rollbacks, LSN order; locks released after durability; one move per transaction |
| `transactions_commit_replayed` | violation: a committed transaction that recovery skips |
| `recovery` | the last committed image stays in each page; no other image ever shows |
| `buffer_pool` | capacity, clean frames, pins, and the refinement of `PageStore` |
| `storage_engine` | the directory leads to the documents, no id is stored twice unless a failed insert was repeated, shut-down documents come back, a page that accepts a record can be written and read |
| `b_plus_tree` | lookups and ranges agree with a set of pairs, and `verify` accepts every tree, over splits up to the root and emptied leaves |
| `indexed_backend` | an index scan finds what a full scan finds, over failed syncs, half-done drops and restarts; a finished command has reached every match; no index over documents it cannot take; unmarked trees are stored and the directory is the catalog |
| `indexed_backend_zeros` | violation: minus zero is missed by an index scan for zero |
| `server` | connection limit, refused commands without effect; shutdown ends, every connection is settled |
| `server_sessions` | sessions match their accounts; the backend sees granted commands only |
| `queries` | lexing is cutting into longest lexemes; parsing inverts writing; the planner's choice changes nothing; sorting is stable and its comparator an order; `update` and `delete` act on what `get` returns, on each document as if it were alone; projections and assignments read back; telemetry's candidates are the planner's |
| `intelligence` | reports count what happened, recommendations have the evidence that was asked for and their indexes would be used, records move forward on the evidence they need; a session on a store implements `Intelligence`, which says this of any database |

The type invariants of modules without proofs are conjuncts of another invariant of
their run (`WithinCapacity`, `CounterBoundsWorkers`, `DirectoryFollowsPages`,
`AlwaysVerified`, `IndexedDocumentsHaveKeys`, `OnlyCommittedImages`).

The two violations are differences between what a document or comment says and
what the code does; `PROJECT.json` quotes both sides. Five more are in the models:

- `recover` replays records nobody synchronized, though `docs/wal-format.md` asks
  data-page users to flush the log first (`early` in `Recovery` marks such a replay,
  and `OnlyCommittedImages` is about the others).
- One worker that fails ends the joining of the others (`JoinFails` in `Server`),
  though `docs/server-protocol.md` says that every accepted worker is joined.
- A client that goes away while it is refused as busy ends `serve` without any
  shutdown (`refusalFailed` in `Server`), though the comment on `serve` knows only of
  listener and panic errors.
- An `insert` that returns an I/O error may have stored its document; repeated, it stores
  the id twice, and the file does not open again (`PartlyWritten` and `retried` in
  `StorageEngine`), though `docs/storage-engine.md` says that duplicate ids are rejected
  with `AlreadyExists`.
- A page with less than four free bytes takes a record of length zero, for which it
  has no slot entry, and can then not be written (`Fits` and `Encodable` in
  `SlottedPage`, with a record of length 0), though `docs/page-format.md` calls such
  records valid. `AcceptedRecordsEncode` is therefore about records with bytes; the
  instance of `storage_engine` has an empty one, with which the property is violated
  if it speaks of all records.

### Bounds

- Transactions: two transactions, two collections (symmetric), five records, two
  exits or crashes. Two transactions are enough for every conflict of a lock
  table whose guards speak of one other owner; five records hold a begin of both,
  a terminal record that was not flushed, a second one of the same transaction and
  one more; two restarts reopen a log that was cut by a crash after a reopening.
  The theorems hold for all bounds.
- Recovery: two transactions, six records, one checkpoint, two pages, two restarts;
  each transaction writes an image of its own to the second page. That allows two
  committed writers of one page in either order, or one committed and one aborted, a
  page whose allocation fills a gap, an abort after an unflushed commit, and a crash
  during the recovery that follows an exit.
- Buffer pool: three pages, two frames, two images, one pin per frame, two I/O
  errors: every combination of pinned, dirty and clean in a full pool, and an
  error after an error.
- Storage engine: a page of 12 bytes with 2 for its header and for each slot, and
  documents of length 3, 2, 8 and 4, two of them with one id, and an empty record: a
  document that fills a page, two that share one with a third left out, a deleted slot
  to use again. Two pages, one that fills up and one allocated behind it, two I/O errors (an
  error after an error, as for a misaligned file), two exits or crashes: a failed insert,
  its repetition and the `open` after both take one of each. The theorems hold for all
  bounds.
- Indexed backend: one collection, two documents, two indexes, two keys, two calls
  that fail, one restart. Collections share nothing but the names of their indexes,
  and a collection that is dropped and created again under its name is the case
  where they meet. Two indexes are needed for a sync or a drop that stops between
  them, two documents for a command that stops between them, two failures for a
  failed sync followed by a failed drop. The second instance has the two zeros for
  keys, no failures, and is otherwise the same.
- B+ tree: capacity three, the least the code allows, and twelve keys: the tenth key
  in order splits an inner root, the twelfth a leaf under an inner node below the
  root. Keys come in any order. One key takes two ids, and two neighbours may be
  removed (three pairs, two removals), which empties a leaf and lets keys come back
  to it.
- Server: three connections on two slots, so that one is refused while two work,
  and a panicked slot shrinks the pool; an anonymous server. With authentication:
  two connections, one user, one token, two passwords, two roles, which gives every
  order of a login, an account change and a request in flight.

- Queries: all texts of up to four of 14 characters (letters, digits, the characters
  of comments, escapes, numbers and pairs), strings of four to seven characters of
  escapes and surrogates, six statements that use the whole grammar with each of
  their tokens left out, replaced or doubled; texts of up to eight characters
  (`MunchLength`) are cut up for comparison. All expressions of two levels over six
  binary and two unary operators, which has every pair of precedences side by side
  and both nestings of each. Stores: up to three documents of four kinds (numbers,
  strings, null, nested, missing) in the order of their insertion, indexes on two
  fields, 38 different queries in every order. Three documents are needed for a sort
  with a comparable pair and a third value, and for a failure with changed and
  unchanged documents around it.
- Intelligence: one document, a second inserted, one index that comes and goes on one
  of two paths. Four queries are watched: one with both paths as candidates, which the
  index serves when it is there; one that fails on an unlike operand after a candidate
  that no index serves; one that is explained only; and `drop index`, an event of no
  collection. Inserting and creating the index are not watched, so that the definitions
  also change without an event. Three events at a time, any of which may be cleared
  between any two calls; counters that saturate at five, which three full scans of two
  documents pass; thresholds of zero and two, and three advisor configurations, two of
  them invalid. Two scans are the least that a threshold can ask for beyond one. The
  properties of `Intelligence` are checked on the session and proved of any database.

`CHECK_DEADLOCK FALSE` appears where the system may stop: the restart and record
bounds of the log are spent, the pool is closed on a misaligned file, the process
around the indexes has ended for the last time, the pages of the storage engine are
full, the server has returned.

### Fairness

Only `Server` has liveness properties. `Fairness` is weak fairness of the serving
thread and of each worker: threads are scheduled, `configure_stream` puts
deadlines on every read and write of a stream, the accept loop polls, and a
backend command is assumed to end. Nothing is assumed of clients,
administrators, or whoever asks for the shutdown. Within a worker no choice is
favoured: a worker always blocked on the mutex is continuously enabled only when
the mutex is free, and every holder gives it back, by returning or by panicking;
with finitely many connections the mutex is eventually free for the last of them.

## Proofs

### Transactions

`WriteAheadLog_proofs`, after its lemmas about the log, proves every property
of the run `transactions`, for all numbers of transactions, records, restarts and
collections, from the named assumptions of `WriteAheadLog` (bounds are natural
numbers, `None` is not one).
The layers of the argument:

1. `WellFormed`, the inductive core: types; LSNs equal positions; the
   synchronized prefix and the tear lie inside the file; an open handle's next
   LSN is the length of the log. Type correctness alone is not inductive: without
   the relation of next LSN and length, an append could break the sequence that
   the next `open` requires.
2. `LockTable` on top of it: a writer excludes foreign readers, and every owner is
   active. Each of the two needs the other in the step of an upgrade and of a
   release.
3. `FreshIds`: every recorded id is below the next one while the manager is open,
   and begin records are distinct. It is needed because reopening recomputes the
   next id from what is left of the log.
4. A reported clean outcome has its terminal record in the synchronized prefix in
   front of any tear. It is inductive as it stands once `WellFormed` is there: a
   crash keeps the synchronized prefix, and a later tear begins behind it.
5. The action properties `MovesOnce` and `ReleaseAfterDurableOutcome` follow from
   `WellFormed` and `LockTable` by one case per action, and `RolledBackStaysOut`
   from 4: the Abort record stays readable, and `recover` skips a transaction
   that has one, whatever else it has.

### Server and AuthService

`Server_proofs` proves the four safety properties of the runs `server` and
`server_sessions` together, for all limits, accounts, passwords, roles, tokens and
sets of connections, an infinite one included, with and without authentication, and
for whatever administrators do. It uses `AuthAssumption` and `ServerAssumption` (the
limit is positive; the reserved values are none of the ordinary ones) and no
fairness. None of the properties is inductive alone. The invariant `IndInv` is the
conjunction of:

1. `TypeOK`.
2. `SessionInv`: sessions match accounts, and a session was issued for an enabled
   account. The second half is what makes enabling an enabled account harmless:
   `SetEnabled(u, TRUE)` ends no session, and is sound only because an account with
   a session is enabled already, so that it stays as it was. `ServiceKeepsSessions`
   proves this part for the service alone, from `AuthNext`; every step of `Server`
   that calls the service cites it.
3. `CounterInv`: the counter is the number of live workers and panicked workers. The
   bound alone is not inductive: `Accept` compares the counter, not the workers, so
   the panicked ones have to be counted with them. The finiteness of both sets is
   part of the invariant, for there may be infinitely many connections; a set
   changes by one connection in every step (`SameKind`, `ClosingKeepsCounted`,
   `CounterStays`, `CounterFalls`).
4. `RequestInv` and `AnswerInv`: where a connection is determines which answers it
   may have, and an executed one has no refusal in front of it. Needed because
   `outcome` is decided before the reply is sent, and a worker may panic in between.
5. `GrantInv`: a request that waits for the mutex, holds it or was executed has a
   role that allows it, fixed by `Authorize` (`GrantFacts`) and left alone by every
   administrator after it.

### BufferPool

`BufferPool_proofs` proves every property of the run `buffer_pool`, the refinement
of `PageStore` included, for all numbers of pages, pins and faults, all capacities and
all images, from `CapacityAssumption`, `PoolBoundsAssumption` and
`PoolImagesAssumption`. The invariant `IndInv` is the conjunction of:

1. `TypeOK`.
2. `CapacityInv`: the frames are finitely many and at most the capacity.
3. `CleanFramesAreStored`: a frame that is not dirty is what the file has.
4. `OrderInv`: `older` is a strict total order of the frames. `Victim` is chosen as
   the minimum of the evictable frames, and nothing is known of it unless one exists:
   `VictimExists` finds it by induction on sets of older frames.
5. `AllocatedInv`: only pages of the file have frames, and a pool that is gone has
   none. So the page that `allocate` adds has no frame yet, and `get_mut` changes a page
   that the store has.

The lemma `MakingRoom` says what eviction leaves: one frame fewer, unpinned, and a file
that still has the content of every page. The invariant, `PinsAreRespected` and the
refinement all cite it. `StepStore` maps each action to a step of the store: lookups,
failed loads and flushes to `Store`, `get_mut` to `Change`, `allocate` to `Grow`,
`shutdown` to `Close`, dropping to `Abandon`, and every failure of a write to `Fault`,
harming at most the page whose write was cut.

### Recovery

`WriteAheadLog_proofs` also proves both properties of the run `recovery` for all numbers of
transactions, records, restarts and pages, all images and all the writes a client may
log, from the assumptions of `WriteAheadLog` and `PageValuesAssumption`. What holds of
the log alone is proved there once for both users. The invariant `IndInv` is the
conjunction of:

1. `Base`: types, the shape of the log, and that a recovery runs on a closed log with
   only replayed records left to apply.
2. `ClientInv`: an active transaction has no commit record, and one that waits for its
   flush has none in the synchronized prefix. This is what forbids an abort to arrive
   behind a commit that a recovery has already acted on.
3. `ImagesInv`: every image that a page holds, or could hold after a crash, is that of a
   `Settled` write: the write and its commit are synchronized and readable, and no
   readable record aborts the transaction. `OnlyCommittedImages` is not inductive
   itself, since a crash may take away a commit that is not synchronized;
   `SettledStays` shows that a settled write stays settled over crashes, tears and
   appends. `UpcomingSettled` is where `early` is needed: only if the replayed log is
   synchronized is the next write settled.
4. `RedoInv`: the writes left to apply are the end of the replayed ones, and a page
   whose last write is no longer among them holds its image. With nothing left this is
   `RecoveredPagesStay` before its final sync.
5. `RecoveredPagesStay`, which crashes keep because it speaks of `disk` and `diskCount`.

First and last positions exist by `FirstAndLast`, a well-founded choice on sets.

### SlottedPage and StorageEngine

`StorageEngine_proofs` proves every property of the run `storage_engine` for all page
sizes, records, documents, ids and numbers of pages, faults and restarts, from
`PageAssumption`, `RecordAssumption` (records are told apart by their bytes, so there
is one without any; the mark of a deleted slot is no directory entry) and
`EngineAssumption` (places in pages are not `Absent`).

The first part is about pages. `EncodedPagesRead` says that `from_bytes` accepts what
`to_bytes` writes and makes the same page of it: counts, bounds, no overlaps, no gaps.
The records lie one behind the other because the sum of their lengths grows from slot
to slot. The sum, `PayloadUpTo`, is a recursive function: `SumFacts` shows that such a
function exists, and `SlotBySlot` is the induction over slots, stated for sets of
slots, as the library's theorem for predicates cannot be used with these provers.
`InsertEncodes` is the arithmetic of `insert`. The attempt to prove it for all
records failed on the empty record (see Runs).

The invariant `IndInv` of the engine is the conjunction of:

1. `TypeOK`, `FilesInv` (the file is a sequence) and `PagesInv`: every image a crash
   may leave, if it reads at all, is an encodable page of documents and deleted slots.
2. `StoredOnce`: over all images of all pages that a crash may leave, no id that is not
   in `retried` has two places. `RepeatedIds \subseteq retried` speaks of the current
   images only and is not inductive: a crash may bring back an older image.
3. `StoredIsRead`: between two syncs the images of a page differ only by documents
   added later, so a page that reads has what any older image of it has.
4. `StoredIsKnown`: an open engine knows the place of every stored document whose id is
   not in `failed`, those in older images of pages that do not read any more included. This
   is why an id that is not in the directory is new or its insertion a repeated one: the
   engine opens only when all pages read (3 gives the
   older images), and keeps places of pages that were spoilt since.
5. `PlacesResolve`, the second half of `DirectoryFollowsPages`, and `ClosedInv`.
6. `DurableIsStored`: a synchronized document is in every image of some page below
   `durableLength` that reads; with 4 it gives `DurableIsKnown`, which is
   `SyncedDocumentsReturn`. A removal keeps all other documents of the page in their
   slots.

`PlaceKeeps` is an insertion into an old or a new page, reported or not, `GarbleKeeps`
every write that leaves a page that does not read, `SyncKeeps` what shutdown, removal and crash have in common, `OpenKeeps` the
scan of `open`.

### IndexedBackend

`IndexedBackend_proofs` proves every property of the run `indexed_backend` for any
collections, documents, indexes, keys and numbers of faults and restarts, from
`IndexBoundsAssumption` and `IndexValuesAssumption` (the values that stand for an
absent or a garbled file are neither names nor trees). The invariant `IndInv` is the
conjunction of:

1. `TypeOK` and `ClosedInv`: without a process nothing is in memory.
2. `TreesCover`: the tree of every index has the pairs of all documents of its
   collection. Not the reverse: a drop of a collection that fails half way keeps trees
   without documents, and every new process starts with the trees on disk and no
   document.
3. `KeysInv`: documents under an index can be indexed. `IndexedDocumentsHaveKeys`
   is this part.
4. `UnmarkedStored` and `CatalogStored`, which are about files; `FilesFollowTrees` is
   not inductive alone, as opening gives the trees of the next process what the files
   were when this one ended.

`IndexScansFindAll` follows from `TreesCover` if no literal is equal to a key other
than itself (`LiteralsAreUnique`): the tree is asked for the literal only. The run
`indexed_backend_zeros` shows that the hypothesis is needed. `CommandsReachAll` needs
`DoneInv` beside it: a document that is not to be visited any more has its new value or
does not match.

### BPlusTree

`BPlusTree_proofs` proves both properties of the run `b_plus_tree` for any keys, any
storable and removable pairs, any number of operations and any capacity that
`validate_max_keys` accepts (odd, at least three: `TreeAssumption`). Nothing is assumed
about the shape of a tree.

A node does not record which keys may be below it or how far it is from the leaves,
and `verify` finds out by descending; an invariant by descent would need induction over
trees. The invariant `IndInv` therefore says that there are three functions on the
nodes, `lo`, `hi` and `level`, such that (`Tree`)

1. shares of keys are not empty, and those of two nodes of a level have no key in
   common (`Bounded`);
2. each leaf has keys of its share only, within the capacity, all with ids, and is
   linked to the leaf whose share begins where its own ends (`ValidLeaf`);
3. the children of an inner node are one level below it and share out its keys at its
   separators (`ValidInner`);
4. the root has all keys, is above all other nodes, and these have a parent (`Rooted`);

and that an id is in a leaf under a key exactly if the pair is in `pairs`. The layers of
the argument:

1. `Recursion`: a recursive function exists if what it is at a place depends on no more
   than what it is at places of lower rank (`Descent`). The rank is the level for
   `find_leaf`, `insert_node` and the traversals of `verify`, and the place of its share
   among the keys for the chain of leaves.
2. `Grows` is what `insert_node` promises its caller: above the level of the node all is
   as before; at the level there is at most one more node, the last one, with the upper
   part of the node's share; everything below is valid and has a parent. It holds for a
   leaf (`InsertLeafGrows`) and, if it holds one level down, for an inner node
   that is not touched, has room, or overflows (`InsertInnerGrows`); `InsertNodeGrows` adds
   up the levels. Only the parent is missing, which the caller adds: a new root
   (`SplitTree`), or none is needed (`UnsplitTree`).
3. `RemoveKeeps`: a removal takes keys out of one leaf, and no condition asks a leaf to
   have any.
4. From `IndInv` the answers: `find_leaf` ends in the leaf whose share has the key, the
   only leaf that may hold it (`GetFacts`), and a range is gathered leaf by leaf along the
   shares (`RangeFacts`). `verify` accepts because its bounds are the shares
   (`TreeWithinBounds`), nodes below different children of a node have different shares or
   levels (`TreeWellShaped`), and the chain from the leftmost leaf passes all shares in
   order (`TreeChained`).

The functions are not state: the run checks the two properties, and TLC could check
`IndInv` only by trying all functions on the nodes.

### QueryPlanning, QueryEngine and QuerySession

`QueryEngine_proofs` proves of every session of queries that index scans answer what full
scans answer, that telemetry names the paths the planner can use and that commands act on
what `get` returns, for any collections, queries, numbers of documents and depths of
expressions, from `ExpressionsAssumption` (syntax trees are finite: parts are expressions,
and less deep), `ValuesAssumption`, `LiteralsAssumption` (the lexer makes no negative
literal) and `SessionAssumption` (queries are as `parse` makes them, and names have a
rank).

1. Expressions. `PartsFirst` is the induction over expressions by their depth, stated
   for sets of expressions; with it `KeyRecursion`, `CandidateRecursion`,
   `PathRecursion` and `ValueRecursion` show that the walks over an expression are the
   functions their definitions say. `EqualityCandidates` says that a path is among
   telemetry's candidates exactly if the planner finds a key for it;
   `CandidatesAreIndexable` states this of `plan` and queries, and
   `AlwaysCandidatesAreUsable` of the events of a session. `CandidatesAreNamed` says that
   candidates are paths of the predicate.
2. Keys. `TrueOnlyWithKey` is the heart of the planner: if a predicate for which
   `equality_key` gives a key is true of a document, the document has that key. Its
   induction goes through `and` only, where both operands must be true. It needs that no
   other value is equal to the one compared (`SameAreAlike`, `ExactAreEqual`), which
   minus zero breaks; this is the hypothesis of `IndexesChangeNothing`.
3. Pipelines. An index scan is a `Chosen` part of the collection scan, so that the first
   filter makes the same sequence of both (`ChosenTwice`, `FilterOverIndex`), unless it
   fails on a document the index passes over. From there on the pipelines meet
   (`PipelinesMeet`); one that has failed stays failed (`PipelineFails`).
4. The plan. `PlanChooses`: an index scan is over an index of the query's collection and
   asks for the key of the filter that comes first. The planner takes the first index
   that fits by name, which exists because names have ranks (`FirstByName`).
5. The invariant is `SessionInv`: ids of stored documents are below the next one, so that
   a scan is a sequence of all documents (`ScanIsSequence`), and the store is a record of
   its two fields. Each command keeps it: `InsertKeeps`, `UpdateKeeps`, `PipelineKeeps`,
   `CatalogueKeeps`. An update may only put documents in the place of others, for which
   stages must give sequences of documents that were there (`PipelineGivesSequence`).
6. What commands act on. `PipelineByPrefix` and `PipelineSplits` cut a pipeline before its
   first `set`. What comes before is a `get`, which the planner plans alike
   (`PlannedAsGet`); what comes behind are assignments only, which make of each document
   what they make of it alone and fail if they fail on one (`MadeApart`, `SetsApart`).
   Documents keep their ids (`AssignmentsKeepId`), and ids tell documents apart, so that
   replacing by id replaces exactly those selected (`UpdatedContents`, `UpdateReplaces`,
   `DeletedContents`). `AlwaysCommandsActOnWhatGetReturns` is about the pipelines in which
   no stage selects among changed documents (`SetsComeLast`); for others a comparison with
   `get` would say nothing.

### Intelligence

`Intelligence_proofs` proves the three properties of `Intelligence` that the run
`intelligence` checks, for any workload, catalogs, configurations, thresholds and bounds,
from `ExpressionsAssumption`, `WorkloadAssumption` (queries are as `parse` makes them) and
`IntelligenceAssumption`. The theorems are about what the database may do at worst; the
fourth, `SessionImplementsIntelligence`, says that a session on a store does no more
(`ObservesQueries`), so that they hold beside a store as well.

1. Expressions are treated by the lemmas of `QueryEngine_proofs`.
2. Sums. Counters are saturating sums that the loop makes step by step, while a
   property speaks of the size of a set of events or of the sum over it. `Sums` and
   `SumOfOneMore` say how sums go over one more event, `NumberStep` and
   `SaturatedStep` that saturating at each step or once at the end is the same.
3. Reports. `ReportRecursion` turns `analyze_workload` into its loop; `EventAdds` and
   `EventAddsToCandidate` say that one event changes an entry of a table as it changes
   the true statistics; `OneMoreCounted` does so for the table with its old, new and
   untouched keys. `ReportsAreTrue` is the induction over the events for all counters
   (`CountersAreTrue`) and tables (`TablesAreTrue`).
4. The invariant is `HoldsEvents`: what the sink holds are events, of a known outcome
   and access path, and their candidates are paths of their predicates. It relates no
   event to the definitions there are now, which may have changed since: that advice is of
   use (`RecommendationsHelp`) follows from the queries of the workload themselves, whose
   candidates have keys (`CandidatesHaveKeys`), and from the planner, which finds an index
   if any that is defined fits (`PlanUsesIndex`). The evidence is what the advisor asks for
   since the counters it reads are true; `RatiosWithinLimit` says of any two sums that
   their ratio in whole basis points is within the limit only if the part itself is.
5. `MovesForward` is not inductive by itself: that `evaluation` is there exactly if the
   status is `Evaluated` must hold before the step, and the evidence must be numbers
   for `examined_reduction` to be bounded (`ReductionBounded`). `RecordsInvariant` adds
   both. An evaluation has its index scans from 3: the counter it compares with the
   threshold is the true number, or `MaxCount`, which is not above it.
6. Beside a store, from `ObservedAssumption` (`Catalogs` and `Counts` have what the
   bounds and the workload let happen). The invariant is `ObservedInv`: the store is
   typed as in `SessionInv` below `MaxId + 1`, and its definitions are among `Catalogs`.
   A step maps to a step if the event recorded is one of the events `Execute` may
   record: a plan examines and returns no more documents than have ids
   (`ExecutionObserved`, on the lemmas about stages of `QueryEngine_proofs`), and an event
   built after the execution is one built before it with the numbers filled in
   (`EventsFilledIn`). Definitions change as `CatalogsAfter` says (`CatalogsFollow`), and
   by commands on the catalog only.

### What is only model-checked

- The two liveness properties of `Server`: liveness, and whatever else needs ENABLED,
  is beyond the proof system.
- `LexingIsLongestMatch` and `ParsingInvertsWriting`: lexer, parser and printer are
  recursive operators, and the proof system neither takes modules with recursive
  operators nor can it do induction over data. `QuerySession` is the part of `Queries`
  without them. `Queries` as a whole is therefore checked with the text, and its session
  proved alone.
- `SortsAreStable` and `PathsReadBack`: which values compare needs types of values at
  every depth, and what a nested path reads needs an induction along paths for each
  operator; neither is stated.
- The two violations, which TLC shows.

## Assumptions about the environment

- A write of a page that fails leaves the old page, the new one, or one that does not
  decode: no other page has the checksum of a mixture. An append to the log that fails
  leaves part of a record, and parts of records never add up to a record that decodes.
- A `sync_all` that succeeds makes everything written before durable, also when an
  earlier one failed.
- A crash keeps a prefix of the log's unsynchronized appends, and for each page one
  of the values written since the last sync, or a mixture that does not decode.
- 64-bit counters do not overflow within the bounds.
- The mutexes of the transaction manager and of the authentication service are never
  poisoned: no code under them panics.

## Not modelled, and why

The nbf codec, checksums, identifiers and the rest of the core values are pure
functions over bytes that unit tests and the repository's fuzz tests reach; modules
abstract them to what they decide. The assistant makes a text out of one
recommendation: length limits, wording, no state. The client, the command line and
the desktop application have no state a property would speak of.

## Plan

What is left:

1. The nbf codec, as a grammar of headers, counts and offsets over symbolic bytes: that
   what is decoded re-encodes to the same image.

Runs are kept few, one for each question.
