---- MODULE IndexedBackend ----
(***************************************************************************)
(* The indexed backend of crates/nova-executor (indexed.rs) around its     *)
(* memory backend (backend.rs), with the index catalog of                  *)
(* crates/nova-index/src/catalog.rs and the queries that reach them: the   *)
(* planner's choice of an access path and the update and delete loops of   *)
(* executor.rs.  Queries run one at a time (the server's backend mutex).   *)
(*                                                                         *)
(* A document is the value of the one field that indexes are about, a tree *)
(* is the set of its pairs of a key and a document id, and a tree file     *)
(* holds such a set, does not decode, or is absent.  The documents live in *)
(* memory only; the files outlive the process.                             *)
(***************************************************************************)
EXTENDS Naturals

CONSTANTS
    Collections,   \* names of collections
    Ids,           \* document ids
    MaxIndexes,    \* bound: index names are 1 .. MaxIndexes, in their order
    Keys,          \* values an index takes as keys
    Literals,      \* the keys a query writes as one literal
    SameNumber,    \* pairs of distinct keys that `==` takes for equal
    NoKey,         \* no value, or null: nothing to index
    Unindexable,   \* a boolean, a list, a document, a timestamp
    Absent,        \* no document, no collection, no index, no file
    Garbled,       \* a file that does not decode
    Idle,          \* no update or delete is running
    MaxFaults,     \* bound: calls that meet an I/O error
    MaxRestarts    \* bound: exits of the process

ASSUME IndexBoundsAssumption ==
    /\ Ids \subseteq Nat
    /\ MaxIndexes \in Nat /\ MaxFaults \in Nat /\ MaxRestarts \in Nat
    /\ Literals \subseteq Keys /\ SameNumber \subseteq Keys \X Keys

\* What is not there, and what does not decode, are not values, names or trees.
ASSUME IndexValuesAssumption ==
    /\ Absent \notin Keys \cup {Unindexable} \cup Collections
    /\ Garbled \notin Collections \cup {Absent}
    /\ \A tree \in SUBSET (Keys \X Ids) : tree # Absent /\ tree # Garbled

VARIABLES
    up,            \* an IndexedBackend is open
    collections,   \* MemoryBackend.collections: the names
    documents,     \* MemoryBackend.collections: the documents of each
    owner,         \* IndexCatalog.indexes: the collection of each index
    entries,       \* the pairs in each tree
    dirty,         \* the trees with BPlusTree.dirty
    metaFile,      \* <name>.meta: the collection it names
    treeFile,      \* <name>.nvix: the pairs in the snapshot
    command,       \* the update or delete that is running
    faults,        \* calls that met an I/O error
    restarts       \* exits so far

memory == <<collections, documents, owner, entries, dirty, command>>
files == <<metaFile, treeFile>>
vars == <<up, memory, files, faults, restarts>>

Names == 1 .. MaxIndexes
Values == Keys \cup {NoKey, Unindexable}
Pairs == Keys \X Ids

NoDocuments == [id \in Ids |-> Absent]

\* The indexes of a collection.
Of(c) == {n \in Names : owner[n] = c}

\* document_key: the pair a document puts into a tree, if any.
PairOf(id, value) == IF value \in Keys THEN {<<value, id>>} ELSE {}

\* Between two queries.
Ready == up /\ command = Idle

IOError == faults < MaxFaults /\ faults' = faults + 1

-----------------------------------------------------------------------------
(* Keeping trees and documents together *)

\* validate_document
Validates(c, value) == value # Unindexable \/ Of(c) = {}

\* MUTANT of Maintained: the old pair goes after the new one has come.
SwappedMaintained(c, id, value) ==
    [n \in Names |->
        IF n \in Of(c)
        THEN (entries[n] \cup PairOf(id, value)) \ PairOf(id, documents[c][id])
        ELSE entries[n]]

\* insert_document, replace_document and delete_document, in memory: the trees
\* of c lose the document's old pair and take its new one, if they differ.
Maintained(c, id, value) ==
    [n \in Names |->
        IF n \in Of(c)
        THEN (entries[n] \ PairOf(id, documents[c][id])) \cup PairOf(id, value)
        ELSE entries[n]]

\* remove marks a tree only if the pair was there, insert always does.
Touched(c, id, value) ==
    LET old == PairOf(id, documents[c][id])
        new == PairOf(id, value)
    IN  dirty \cup {n \in Of(c) : old # new /\ (new # {} \/ old \cap entries[n] # {})}

\* The inner backend changes first, then the trees.
Change(c, id, value) ==
    /\ documents' = [documents EXCEPT ![c][id] = value]
    /\ entries' = Maintained(c, id, value)

Snapshots(names) == [n \in Names |-> IF n \in names THEN entries'[n] ELSE treeFile[n]]

\* sync_collection writes the marked trees of c, in name order.
Synced(c, marked) ==
    /\ treeFile' = Snapshots(marked \cap Of(c))
    /\ dirty' = marked \ Of(c)
    /\ faults' = faults

\* MUTANT of SyncFails: a tree is taken for stored before its file is written.
EagerSyncFails(c, marked) ==
    /\ IOError
    /\ \E n \in marked \cap Of(c) :
         LET done == {m \in marked \cap Of(c) : m < n} IN
           /\ \E bytes \in {treeFile[n], Garbled, entries'[n]} :
                 treeFile' = [Snapshots(done) EXCEPT ![n] = bytes]
           /\ dirty' = marked \ (done \cup {n})

\* sync_collection stops at the first tree it cannot write: its file is the old
\* one, cut short, or whole and not synchronized.
SyncFails(c, marked) ==
    /\ IOError
    /\ \E n \in marked \cap Of(c) :
         LET done == {m \in marked \cap Of(c) : m < n} IN
           /\ \E bytes \in {treeFile[n], Garbled, entries'[n]} :
                 treeFile' = [Snapshots(done) EXCEPT ![n] = bytes]
           /\ dirty' = marked \ done

-----------------------------------------------------------------------------
(* Queries on documents *)

RuntimeEqual(value, key) == value = key \/ <<value, key>> \in SameNumber

Matches(c, id, key) == documents[c][id] # Absent /\ RuntimeEqual(documents[c][id], key)

\* plan and access_documents for the filter `field == key`: the documents the
\* first index of c has under a literal key, or all documents.
Candidates(c, key) ==
    {id \in Ids :
        /\ documents[c][id] # Absent
        /\ key \in Literals =>
             \A n \in Of(c) : (\A m \in Of(c) : n <= m) => <<key, id>> \in entries[n]}

\* The filter runs over the candidates in any case.
Selected(c, key) == {id \in Candidates(c, key) : Matches(c, id, key)}

Insert(c, id, value) ==
    /\ Ready
    /\ c \in collections /\ documents[c][id] = Absent
    /\ Validates(c, value)
    /\ LET marked == Touched(c, id, value) IN
         Change(c, id, value) /\ (Synced(c, marked) \/ SyncFails(c, marked))
    /\ UNCHANGED <<up, collections, owner, metaFile, command, restarts>>

\* An update of the documents with this key to a new value, or their deletion
\* (the value is Absent): the documents are selected before any is changed.
StartCommand(c, key, value) ==
    /\ Ready
    /\ c \in collections
    /\ command' = [collection |-> c, key |-> key, value |-> value, todo |-> Selected(c, key)]
    /\ UNCHANGED <<up, collections, documents, owner, entries, dirty, files, faults, restarts>>

\* replace or delete of the next document.  An error ends the command and
\* leaves the documents it has changed.
CommandStep ==
    /\ up /\ command # Idle
    /\ \E id \in command.todo :
         LET c == command.collection
             marked == Touched(c, id, command.value)
         IN  /\ \A other \in command.todo : id <= other
             /\ \/ /\ Validates(c, command.value)
                   /\ Change(c, id, command.value)
                   /\ \/ Synced(c, marked) /\ command' = [command EXCEPT !.todo = @ \ {id}]
                      \/ SyncFails(c, marked) /\ command' = Idle
                \/ /\ ~Validates(c, command.value)
                   /\ command' = Idle
                   /\ UNCHANGED <<documents, entries, dirty, treeFile, faults>>
    /\ UNCHANGED <<up, collections, owner, metaFile, restarts>>

CommandEnds ==
    /\ up /\ command # Idle /\ command.todo = {}
    /\ command' = Idle
    /\ UNCHANGED <<up, collections, documents, owner, entries, dirty, files, faults, restarts>>

-----------------------------------------------------------------------------
(* Collections and indexes *)

CreateCollection(c) ==
    /\ Ready
    /\ c \notin collections
    /\ collections' = collections \cup {c}
    /\ UNCHANGED <<up, documents, owner, entries, dirty, command, files, faults, restarts>>

\* MUTANT of Backfill: an index starts empty.
EmptyBackfill(c) == {}

\* The pairs create_index collects from the documents there are.
Backfill(c) == UNION {PairOf(id, documents[c][id]) : id \in Ids}

\* MUTANT of Creatable: documents the index cannot take are skipped.
LenientCreatable(n, c) ==
    /\ Ready
    /\ c \in collections /\ owner[n] = Absent
    /\ treeFile[n] = Absent

\* The name is free, every document has a key or none, and BPlusTree::create
\* finds no file.
Creatable(n, c) ==
    /\ Ready
    /\ c \in collections /\ owner[n] = Absent
    /\ \A id \in Ids : documents[c][id] # Unindexable
    /\ treeFile[n] = Absent

CreateIndex(n, c) ==
    /\ Creatable(n, c)
    /\ metaFile[n] = Absent
    /\ owner' = [owner EXCEPT ![n] = c]
    /\ entries' = [entries EXCEPT ![n] = Backfill(c)]
    /\ treeFile' = [treeFile EXCEPT ![n] = Backfill(c)]
    /\ metaFile' = [metaFile EXCEPT ![n] = c]
    /\ UNCHANGED <<up, collections, documents, dirty, command, faults, restarts>>

\* BPlusTree::create makes the file and cannot store the empty tree: the error
\* is returned in front of create_index's own cleaning up.
CreateTreeFails(n, c) ==
    /\ Creatable(n, c)
    /\ IOError
    /\ treeFile' \in {[treeFile EXCEPT ![n] = Garbled], [treeFile EXCEPT ![n] = {}]}
    /\ UNCHANGED <<up, memory, metaFile, restarts>>

\* create_index cannot store the filled tree or the definition (a definition
\* file that is there counts) and removes both files, as far as it can.
FillIndexFails(n, c) ==
    /\ Creatable(n, c)
    /\ \/ /\ metaFile[n] # Absent
          /\ metaFile' = [metaFile EXCEPT ![n] = Absent]
          /\ UNCHANGED <<treeFile, faults>>
       \/ /\ IOError
          /\ \E bytes \in {Absent, {}, Garbled, Backfill(c)}, definition \in {Absent, Garbled, c} :
                /\ bytes \in {{}, Garbled} => definition = Absent
                /\ treeFile' = [treeFile EXCEPT ![n] = bytes]
                /\ metaFile' = [metaFile EXCEPT ![n] = definition]
    /\ UNCHANGED <<up, memory, restarts>>

\* drop_index for all of these names.
Removed(names) ==
    /\ owner' = [n \in Names |-> IF n \in names THEN Absent ELSE owner[n]]
    /\ entries' = [n \in Names |-> IF n \in names THEN {} ELSE entries[n]]
    /\ dirty' = dirty \ names
    /\ treeFile' = [n \in Names |-> IF n \in names THEN Absent ELSE treeFile[n]]

Undefined(names) == [n \in Names |-> IF n \in names THEN Absent ELSE metaFile[n]]

\* remove_file fails on an index whose definition file is gone already.
Droppable(n) == metaFile[n] # Absent

DropIndex(n) ==
    /\ Ready
    /\ owner[n] # Absent /\ Droppable(n)
    /\ Removed({n})
    /\ metaFile' = Undefined({n})
    /\ UNCHANGED <<up, collections, documents, command, faults, restarts>>

\* The definition file is removed and the tree file cannot be.
DropIndexFails(n) ==
    /\ Ready
    /\ owner[n] # Absent /\ Droppable(n)
    /\ IOError
    /\ metaFile' = Undefined({n})
    /\ UNCHANGED <<up, memory, treeFile, restarts>>

\* The inner backend drops the documents before the indexes are dropped.
DropDocuments(c) ==
    /\ c \in collections
    /\ collections' = collections \ {c}
    /\ documents' = [documents EXCEPT ![c] = NoDocuments]

DropCollection(c) ==
    /\ Ready
    /\ DropDocuments(c)
    /\ \A n \in Of(c) : Droppable(n)
    /\ Removed(Of(c))
    /\ metaFile' = Undefined(Of(c))
    /\ UNCHANGED <<up, command, faults, restarts>>

\* The first index that cannot be dropped stays, with those behind it.
DropCollectionFails(c) ==
    /\ Ready
    /\ DropDocuments(c)
    /\ \E n \in Of(c) :
         LET done == {m \in Of(c) : m < n} IN
           /\ \A m \in done : Droppable(m)
           /\ Removed(done)
           /\ \/ ~Droppable(n) /\ metaFile' = Undefined(done) /\ faults' = faults
              \/ IOError /\ metaFile' \in {Undefined(done), Undefined(done \cup {n})}
    /\ UNCHANGED <<up, command, restarts>>

-----------------------------------------------------------------------------
(* Opening and exits *)

\* IndexCatalog::open reads every definition file and its tree.
Loadable ==
    \A n \in Names : metaFile[n] # Absent =>
        metaFile[n] # Garbled /\ treeFile[n] \notin {Absent, Garbled}

Open ==
    /\ ~up /\ Loadable
    /\ up' = TRUE
    /\ owner' = metaFile
    /\ entries' = [n \in Names |-> IF metaFile[n] = Absent THEN {} ELSE treeFile[n]]
    /\ UNCHANGED <<collections, documents, dirty, command, files, faults, restarts>>

OpenFails == ~up /\ ~Loadable /\ UNCHANGED vars

\* The process ends, and the documents with it; within a call this is a call
\* that fails where it stands and an end after it.
Exit ==
    /\ up /\ restarts < MaxRestarts
    /\ up' = FALSE
    /\ restarts' = restarts + 1
    /\ collections' = {}
    /\ documents' = [c \in Collections |-> NoDocuments]
    /\ owner' = [n \in Names |-> Absent]
    /\ entries' = [n \in Names |-> {}]
    /\ dirty' = {}
    /\ command' = Idle
    /\ UNCHANGED <<files, faults>>

Init ==
    /\ up = FALSE
    /\ collections = {}
    /\ documents = [c \in Collections |-> NoDocuments]
    /\ owner = [n \in Names |-> Absent]
    /\ entries = [n \in Names |-> {}]
    /\ dirty = {}
    /\ metaFile = [n \in Names |-> Absent]
    /\ treeFile = [n \in Names |-> Absent]
    /\ command = Idle
    /\ faults = 0 /\ restarts = 0

Next ==
    \/ Open
    \/ OpenFails
    \/ Exit
    \/ \E c \in Collections : CreateCollection(c)
    \/ \E c \in Collections : DropCollection(c)
    \/ \E c \in Collections : DropCollectionFails(c)
    \/ \E c \in Collections, id \in Ids, value \in Values : Insert(c, id, value)
    \/ \E c \in Collections, key \in Keys, value \in Values \cup {Absent} : StartCommand(c, key, value)
    \/ CommandStep
    \/ CommandEnds
    \/ \E n \in Names, c \in Collections : CreateIndex(n, c)
    \/ \E n \in Names, c \in Collections : CreateTreeFails(n, c)
    \/ \E n \in Names, c \in Collections : FillIndexFails(n, c)
    \/ \E n \in Names : DropIndex(n)
    \/ \E n \in Names : DropIndexFails(n)

Spec == Init /\ [][Next]_vars

-----------------------------------------------------------------------------
(* Properties *)

TypeOK ==
    /\ up \in BOOLEAN
    /\ collections \subseteq Collections
    /\ documents \in [Collections -> [Ids -> Values \cup {Absent}]]
    /\ owner \in [Names -> Collections \cup {Absent}]
    /\ entries \in [Names -> SUBSET Pairs]
    /\ dirty \subseteq {n \in Names : owner[n] # Absent}
    /\ metaFile \in [Names -> Collections \cup {Absent, Garbled}]
    /\ treeFile \in [Names -> (SUBSET Pairs) \cup {Absent, Garbled}]
    /\ command = Idle \/ command \in
          [collection : Collections, key : Keys, value : Values \cup {Absent}, todo : SUBSET Ids]
    /\ faults \in 0 .. MaxFaults /\ restarts \in 0 .. MaxRestarts

\* Index selection does not change what a query finds: through the index the
\* planner picks it finds every document that matches, over failed syncs,
\* half-done drops and restarts on the files of an earlier process.
IndexScansFindAll ==
    \A c \in collections, key \in Keys :
        Selected(c, key) = {id \in Ids : Matches(c, id, key)}

\* A command that has come to its end has changed every document its filter
\* matches, those that its own changes made or unmade a match included.
CommandsReachAll ==
    command # Idle /\ command.todo = {} =>
        \A id \in Ids : Matches(command.collection, id, command.key) =>
            documents[command.collection][id] = command.value

\* A collection with an index holds no document the index cannot take: else a
\* replace or delete would fail after the document has changed.
IndexedDocumentsHaveKeys ==
    /\ TypeOK
    /\ \A c \in Collections : Of(c) # {} =>
         \A id \in Ids : documents[c][id] # Unindexable

\* A tree that is not marked is what its file holds, also after a sync that
\* stopped half way: what a later sync skips needs no writing.  As long as no I/O
\* error was met, the directory is the catalog: a restart brings back every index
\* that was not dropped, and no other, with its pairs.
FilesFollowTrees ==
    /\ \A n \in Names : owner[n] # Absent /\ n \notin dirty => treeFile[n] = entries[n]
    /\ faults = 0 =>
         IF up
         THEN \A n \in Names :
                /\ metaFile[n] = owner[n]
                /\ treeFile[n] = IF owner[n] = Absent THEN Absent ELSE entries[n]
         ELSE Loadable
====
