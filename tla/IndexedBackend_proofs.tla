---- MODULE IndexedBackend_proofs ----
(***************************************************************************)
(* Proofs about IndexedBackend for any collections, documents, indexes and *)
(* keys, and any number of I/O errors and restarts: trees hold the pairs   *)
(* of all documents, files hold the trees, and so queries find and change  *)
(* all documents, whichever index the planner picks for them.              *)
(***************************************************************************)
EXTENDS IndexedBackend, TLAPS

-----------------------------------------------------------------------------
(* The invariant *)

\* Without an open backend there is nothing in memory.
ClosedInv ==
    up = TRUE \/ /\ collections = {} /\ dirty = {} /\ command = Idle
                 /\ documents = [c \in Collections |-> NoDocuments]
                 /\ owner = [n \in Names |-> Absent]
                 /\ entries = [n \in Names |-> {}]

\* The tree of every index has the pairs of all documents of its collection.  It
\* may have more: a drop that failed leaves trees without the documents, and a
\* process that starts has no documents either.
TreesCover ==
    \A c \in Collections : \A n \in Of(c) : Backfill(c) \subseteq entries[n]

KeysInv ==
    \A c \in Collections : Of(c) # {} =>
        \A id \in Ids : documents[c][id] # Unindexable

\* A tree that is not marked is what its file holds.
UnmarkedStored ==
    \A n \in Names : owner[n] # Absent /\ n \notin dirty => treeFile[n] = entries[n]

\* While no I/O error was met, the directory is the catalog of this process, or
\* of the next one.
CatalogStored ==
    faults = 0 =>
        \/ up = TRUE /\ \A n \in Names :
              /\ metaFile[n] = owner[n]
              /\ treeFile[n] = IF owner[n] = Absent THEN Absent ELSE entries[n]
        \/ up = FALSE /\ \A n \in Names :
              \/ metaFile[n] = Absent /\ treeFile[n] = Absent
              \/ metaFile[n] \in Collections /\ treeFile[n] \in SUBSET Pairs

\* The inductive invariant of the files and the trees.
IndInv ==
    TypeOK /\ ClosedInv /\ TreesCover /\ KeysInv /\ UnmarkedStored /\ CatalogStored

\* What a running command has done: a document it is not going to look at again
\* has the new value or does not match.
DoneInv ==
    command # Idle =>
        \A id \in Ids \ command.todo :
            Matches(command.collection, id, command.key) =>
                documents[command.collection][id] = command.value

\* No literal is equal to a key other than itself: all numbers but zero, and all
\* text, are so.
LiteralsAreUnique == \A pair \in SameNumber : pair[2] \notin Literals

-----------------------------------------------------------------------------
(* Pairs and trees *)

\* What document_key gives is a set of at most one pair, of this document.
LEMMA PairFacts ==
    ASSUME NEW id \in Ids, NEW value
    PROVE  /\ PairOf(id, value) \subseteq Pairs
           /\ \A pair \in PairOf(id, value) : pair[2] = id /\ pair[1] = value
           /\ value \in Keys => PairOf(id, value) = {<<value, id>>}
           /\ value \notin Keys => PairOf(id, value) = {}
  BY DEF PairOf, Pairs

\* create_index collects the pairs of the documents, each under its own id.
LEMMA BackfillFacts ==
    ASSUME TypeOK, NEW c \in Collections
    PROVE  /\ Backfill(c) \subseteq Pairs
           /\ \A key \in Keys, id \in Ids : <<key, id>> \in Backfill(c) <=> documents[c][id] = key
           /\ \A id \in Ids : PairOf(id, documents[c][id]) \subseteq Backfill(c)
<1>1. Backfill(c) \subseteq Pairs
  BY PairFacts DEF Backfill
<1>2. ASSUME NEW key \in Keys, NEW id \in Ids
      PROVE  <<key, id>> \in Backfill(c) <=> documents[c][id] = key
  <2>1. ASSUME documents[c][id] = key
        PROVE  <<key, id>> \in Backfill(c)
    BY <2>1, PairFacts DEF Backfill
  <2>2. ASSUME <<key, id>> \in Backfill(c)
        PROVE  documents[c][id] = key
    <3>1. PICK other \in Ids : <<key, id>> \in PairOf(other, documents[c][other])
      BY <2>2 DEF Backfill
    <3>2. id = other /\ key = documents[c][other]
      BY <3>1 DEF PairOf
    <3> QED
      BY <3>2
  <2> QED
    BY <2>1, <2>2
<1>3. \A id \in Ids : PairOf(id, documents[c][id]) \subseteq Backfill(c)
  BY DEF Backfill
<1> QED
  BY <1>1, <1>2, <1>3

\* A collection without documents has no pairs.
LEMMA NothingToFill ==
    ASSUME NEW c \in Collections, documents[c] = NoDocuments
    PROVE  Backfill(c) = {}
<1>1. \A id \in Ids : PairOf(id, documents[c][id]) = {}
  BY IndexValuesAssumption DEF NoDocuments, PairOf
<1> QED
  BY <1>1 DEF Backfill

\* Replacing a document in memory keeps the trees of its collection complete.
LEMMA MaintainedCovers ==
    ASSUME TypeOK, TreesCover, NEW c \in Collections, NEW id \in Ids,
           NEW value \in Values \cup {Absent},
           Change(c, id, value), owner' = owner
    PROVE  /\ documents' \in [Collections -> [Ids -> Values \cup {Absent}]]
           /\ entries' \in [Names -> SUBSET Pairs]
           /\ TreesCover'
<1>1. documents' = [documents EXCEPT ![c][id] = value] /\ entries' = Maintained(c, id, value)
  BY DEF Change
<1>2. documents' \in [Collections -> [Ids -> Values \cup {Absent}]]
  BY <1>1 DEF TypeOK
<1>3. entries' \in [Names -> SUBSET Pairs]
  BY <1>1, PairFacts DEF Maintained, TypeOK
<1>4. ASSUME NEW d \in Collections, NEW n \in Of(d)', NEW pair \in Backfill(d)'
      PROVE  pair \in entries'[n]
  <2>1. n \in Names /\ owner[n] = d /\ n \in Of(d)
    BY <1>4 DEF Of
  <2>2. PICK other \in Ids : pair \in PairOf(other, documents'[d][other])
    BY <1>4 DEF Backfill
  <2>3. pair[2] = other
    BY <2>2, PairFacts
  <2>4. Backfill(d) \subseteq entries[n]
    BY <2>1 DEF TreesCover
  <2>5. CASE d # c
    <3>1. documents'[d][other] = documents[d][other]
      BY <1>1, <2>5 DEF TypeOK
    <3>2. pair \in entries[n]
      BY <2>2, <2>4, <3>1 DEF Backfill
    <3>3. entries'[n] = entries[n]
      BY <1>1, <2>1, <2>5 DEF Maintained, Of
    <3> QED
      BY <3>2, <3>3
  <2>6. CASE d = c /\ other = id
    <3>1. documents'[d][other] = value
      BY <1>1, <2>6 DEF TypeOK
    <3> QED
      BY <1>1, <2>1, <2>2, <2>6, <3>1 DEF Maintained
  <2>7. CASE d = c /\ other # id
    <3>1. documents'[d][other] = documents[d][other]
      BY <1>1, <2>7 DEF TypeOK
    <3>2. pair \in entries[n]
      BY <2>2, <2>4, <3>1 DEF Backfill
    <3>3. pair \notin PairOf(id, documents[c][id])
      BY <2>3, <2>7, PairFacts
    <3> QED
      BY <1>1, <2>1, <2>7, <3>2, <3>3 DEF Maintained
  <2> QED
    BY <2>5, <2>6, <2>7
<1>5. TreesCover'
  BY <1>4 DEF TreesCover
<1> QED
  BY <1>2, <1>3, <1>5

\* A tree that is not marked has not changed: what is removed from it was there.
LEMMA UntouchedIsSame ==
    ASSUME TypeOK, TreesCover, NEW c \in Collections, NEW id \in Ids, NEW value,
           NEW n \in Names, n \notin Touched(c, id, value)
    PROVE  n \notin dirty /\ Maintained(c, id, value)[n] = entries[n]
<1> DEFINE old == PairOf(id, documents[c][id])
           new == PairOf(id, value)
<1>1. n \notin dirty
  BY DEF Touched
<1>2. CASE n \notin Of(c)
  BY <1>1, <1>2 DEF Maintained
<1>3. CASE n \in Of(c) /\ old = new
  <2>1. old \subseteq entries[n]
    BY <1>3, BackfillFacts DEF TreesCover
  <2>2. (entries[n] \ old) \cup new = entries[n]
    BY <1>3, <2>1
  <2> QED
    BY <1>1, <1>3, <2>2 DEF Maintained
<1>4. CASE n \in Of(c) /\ old # new
  <2>1. new = {} /\ old \cap entries[n] = {}
    BY <1>4 DEF Touched
  <2>2. (entries[n] \ old) \cup new = entries[n]
    BY <2>1
  <2> QED
    BY <1>1, <1>4, <2>2 DEF Maintained
<1> QED
  BY <1>2, <1>3, <1>4
-----------------------------------------------------------------------------
(* Steps *)

\* An index is of a collection, and Absent is not the name of one.
LEMMA OfFacts ==
    ASSUME TypeOK
    PROVE  /\ \A c : Of(c) \subseteq Names
           /\ \A c \in Collections : c # Absent /\ c # Garbled
           /\ \A c \in Collections : \A n \in Of(c) : owner[n] = c /\ owner[n] # Absent
           /\ \A n \in Names : owner[n] # Absent => owner[n] \in Collections /\ n \in Of(owner[n])
<1>1. \A c \in Collections : c # Absent /\ c # Garbled
  BY IndexValuesAssumption
<1>2. \A n \in Names : owner[n] # Absent => owner[n] \in Collections
  BY DEF TypeOK
<1> QED
  BY <1>1, <1>2 DEF Of

\* The files after a change: sync_collection writes the marked trees of the
\* collection, all of them or those in front of the one that fails, which keeps
\* its mark.
LEMMA SyncKeepsFiles ==
    ASSUME IndInv, NEW c \in Collections, NEW id \in Ids, NEW value,
           Change(c, id, value), entries' \in [Names -> SUBSET Pairs],
           Synced(c, Touched(c, id, value)) \/ SyncFails(c, Touched(c, id, value)),
           up = TRUE, up' = TRUE, owner' = owner, metaFile' = metaFile
    PROVE  /\ dirty' \subseteq {n \in Names : owner'[n] # Absent}
           /\ treeFile' \in [Names -> (SUBSET Pairs) \cup {Absent, Garbled}]
           /\ faults' \in 0 .. MaxFaults
           /\ UnmarkedStored' /\ CatalogStored'
<1> DEFINE marked == Touched(c, id, value)
<1> USE DEF IndInv
<1>1. marked \subseteq {n \in Names : owner[n] # Absent}
  BY OfFacts DEF Touched, TypeOK
<1>2. \A n \in Names : n \notin marked => n \notin dirty /\ entries'[n] = entries[n]
  BY UntouchedIsSame DEF Change
<1>3. \A n \in Names : n \notin Of(c) => entries'[n] = entries[n]
  BY DEF Change, Maintained
<1>4. \A n \in Of(c) : n \in Names /\ owner[n] # Absent
  BY OfFacts
<1>5. CASE Synced(c, marked)
  <2>1. /\ treeFile' = [n \in Names |-> IF n \in marked \cap Of(c) THEN entries'[n] ELSE treeFile[n]]
        /\ dirty' = marked \ Of(c) /\ faults' = faults
    BY <1>5 DEF Synced, Snapshots
  <2>2. treeFile' \in [Names -> (SUBSET Pairs) \cup {Absent, Garbled}]
    BY <2>1 DEF TypeOK
  <2>3. UnmarkedStored'
    <3> SUFFICES ASSUME NEW n \in Names, owner[n] # Absent, n \notin dirty'
                 PROVE  treeFile'[n] = entries'[n]
      BY DEF UnmarkedStored
    <3>1. CASE n \in marked
      BY <2>1, <3>1
    <3>2. CASE n \notin marked
      BY <1>2, <2>1, <3>2 DEF UnmarkedStored
    <3> QED
      BY <3>1, <3>2
  <2>4. CatalogStored'
    <3> SUFFICES ASSUME faults = 0, NEW n \in Names
                 PROVE  /\ metaFile[n] = owner[n]
                        /\ treeFile'[n] = IF owner[n] = Absent THEN Absent ELSE entries'[n]
      BY <2>1 DEF CatalogStored
    <3>1. /\ metaFile[n] = owner[n]
          /\ treeFile[n] = IF owner[n] = Absent THEN Absent ELSE entries[n]
      BY DEF CatalogStored
    <3>2. CASE n \in marked /\ n \in Of(c)
      BY <1>4, <2>1, <3>1, <3>2
    <3>3. CASE ~ (n \in marked /\ n \in Of(c))
      BY <1>2, <1>3, <2>1, <3>1, <3>3
    <3> QED
      BY <3>2, <3>3
  <2> QED
    BY <1>1, <2>1, <2>2, <2>3, <2>4 DEF TypeOK
<1>6. CASE SyncFails(c, marked)
  <2>1. faults < MaxFaults /\ faults' = faults + 1
    BY <1>6 DEF SyncFails, IOError
  <2>2. PICK n \in marked \cap Of(c) :
          LET done == {m \in marked \cap Of(c) : m < n} IN
            /\ \E bytes \in {treeFile[n], Garbled, entries'[n]} :
                  treeFile' = [Snapshots(done) EXCEPT ![n] = bytes]
            /\ dirty' = marked \ done
    BY <1>6 DEF SyncFails
  <2> DEFINE done == {m \in marked \cap Of(c) : m < n}
  <2>3. n \in Names /\ n \notin done /\ done \subseteq Names
    BY <1>1 DEF Names
  <2>3a. PICK bytes \in {treeFile[n], Garbled, entries'[n]} :
           treeFile' = [Snapshots(done) EXCEPT ![n] = bytes]
    BY <2>2
  <2>4. treeFile'[n] = bytes /\ treeFile' \in [Names -> (SUBSET Pairs) \cup {Absent, Garbled}]
    BY <2>3, <2>3a DEF Snapshots, TypeOK
  <2>5. \A m \in Names \ {n} : treeFile'[m] = IF m \in done THEN entries'[m] ELSE treeFile[m]
    BY <2>3, <2>3a DEF Snapshots
  <2>6. UnmarkedStored'
    <3> SUFFICES ASSUME NEW m \in Names, owner[m] # Absent, m \notin dirty'
                 PROVE  treeFile'[m] = entries'[m]
      BY DEF UnmarkedStored
    <3>1. m # n
      BY <2>2, <2>3
    <3>2. CASE m \in done
      BY <2>5, <3>1, <3>2
    <3>3. CASE m \notin done
      BY <1>2, <2>2, <2>5, <3>1, <3>3 DEF UnmarkedStored
    <3> QED
      BY <3>2, <3>3
  <2>7. faults' \in 0 .. MaxFaults /\ faults' # 0
    BY <2>1, IndexBoundsAssumption DEF TypeOK
  <2>8. CatalogStored'
    BY <2>7 DEF CatalogStored
  <2>9. dirty' \subseteq {m \in Names : owner'[m] # Absent}
    BY <1>1, <2>2
  <2> QED
    BY <2>4, <2>6, <2>7, <2>8, <2>9
<1> QED
  BY <1>5, <1>6

\* Between calls and within them: insert, replace and delete keep the invariant,
\* whether their trees are stored or not.
LEMMA ChangeKeeps ==
    ASSUME IndInv, NEW c \in Collections, NEW id \in Ids,
           NEW value \in Values \cup {Absent},
           Validates(c, value), Change(c, id, value),
           Synced(c, Touched(c, id, value)) \/ SyncFails(c, Touched(c, id, value)),
           up = TRUE, up' = TRUE, owner' = owner, metaFile' = metaFile,
           collections' = collections, restarts' = restarts,
           command' = Idle \/ command' \in
              [collection : Collections, key : Keys, value : Values \cup {Absent}, todo : SUBSET Ids]
    PROVE  IndInv'
<1>1. /\ documents' \in [Collections -> [Ids -> Values \cup {Absent}]]
      /\ entries' \in [Names -> SUBSET Pairs]
      /\ TreesCover'
  BY MaintainedCovers DEF IndInv
<1>2. /\ dirty' \subseteq {n \in Names : owner'[n] # Absent}
      /\ treeFile' \in [Names -> (SUBSET Pairs) \cup {Absent, Garbled}]
      /\ faults' \in 0 .. MaxFaults
      /\ UnmarkedStored' /\ CatalogStored'
  BY <1>1, SyncKeepsFiles
<1>3. TypeOK'
  BY <1>1, <1>2 DEF IndInv, TypeOK
<1>4. ClosedInv'
  BY DEF ClosedInv
<1>5. KeysInv'
  <2> SUFFICES ASSUME NEW d \in Collections, Of(d)' # {}, NEW other \in Ids
               PROVE  documents'[d][other] # Unindexable
    BY DEF KeysInv
  <2>1. Of(d) # {} /\ documents[d][other] # Unindexable
    BY DEF Of, IndInv, KeysInv
  <2>2. documents' = [documents EXCEPT ![c][id] = value]
    BY DEF Change
  <2>3. CASE d = c /\ other = id
    BY <2>1, <2>2, <2>3 DEF Validates, IndInv, TypeOK
  <2>4. CASE ~ (d = c /\ other = id)
    BY <2>1, <2>2, <2>4 DEF IndInv, TypeOK
  <2> QED
    BY <2>3, <2>4
<1> QED
  BY <1>1, <1>2, <1>3, <1>4, <1>5 DEF IndInv

\* insert stores the document in the memory backend and in every tree.
LEMMA InsertKeeps ==
    ASSUME IndInv, NEW c \in Collections, NEW id \in Ids, NEW value \in Values,
           Insert(c, id, value)
    PROVE  IndInv'
<1>1. up = TRUE /\ up' = TRUE
  BY DEF Insert, Ready, IndInv, TypeOK
<1>2. /\ Validates(c, value) /\ Change(c, id, value)
      /\ Synced(c, Touched(c, id, value)) \/ SyncFails(c, Touched(c, id, value))
  BY DEF Insert
<1>3. owner' = owner /\ metaFile' = metaFile /\ collections' = collections /\ restarts' = restarts
  BY DEF Insert
<1>4. command' = Idle
  BY DEF Insert, Ready
<1> QED
  BY <1>1, <1>2, <1>3, <1>4, ChangeKeeps

\* update and delete change one document after the other.
LEMMA CommandStepKeeps ==
    ASSUME IndInv, CommandStep
    PROVE  IndInv'
<1> DEFINE c == command.collection
           value == command.value
<1>1. up = TRUE /\ up' = TRUE
  BY DEF CommandStep, IndInv, TypeOK
<1>2. owner' = owner /\ metaFile' = metaFile /\ collections' = collections /\ restarts' = restarts
  BY DEF CommandStep
<1>3. command \in [collection : Collections, key : Keys, value : Values \cup {Absent}, todo : SUBSET Ids]
  BY DEF CommandStep, IndInv, TypeOK
<1>4. c \in Collections /\ value \in Values \cup {Absent}
  BY <1>3
<1>5. PICK id \in command.todo :
        \/ /\ Validates(c, value)
           /\ Change(c, id, value)
           /\ \/ Synced(c, Touched(c, id, value)) /\ command' = [command EXCEPT !.todo = @ \ {id}]
              \/ SyncFails(c, Touched(c, id, value)) /\ command' = Idle
        \/ /\ ~Validates(c, value)
           /\ command' = Idle
           /\ UNCHANGED <<documents, entries, dirty, treeFile, faults>>
  BY DEF CommandStep
<1>6. id \in Ids
  BY <1>3
<1>7. \/ command' = Idle
      \/ command' \in [collection : Collections, key : Keys, value : Values \cup {Absent}, todo : SUBSET Ids]
  BY <1>3, <1>5
<1>8. CASE /\ Validates(c, value) /\ Change(c, id, value)
           /\ Synced(c, Touched(c, id, value)) \/ SyncFails(c, Touched(c, id, value))
  BY <1>1, <1>2, <1>4, <1>6, <1>7, <1>8, ChangeKeeps
<1>9. CASE UNCHANGED <<documents, entries, dirty, treeFile, faults>>
  <2>1. TypeOK'
    BY <1>1, <1>2, <1>7, <1>9 DEF IndInv, TypeOK
  <2>2. ClosedInv'
    BY <1>1 DEF ClosedInv
  <2>3. TreesCover' /\ KeysInv'
    BY <1>2, <1>9 DEF IndInv, TreesCover, KeysInv, Of, Backfill
  <2>4. UnmarkedStored' /\ CatalogStored'
    BY <1>1, <1>2, <1>9 DEF IndInv, UnmarkedStored, CatalogStored
  <2> QED
    BY <2>1, <2>2, <2>3, <2>4 DEF IndInv
<1> QED
  BY <1>5, <1>8, <1>9

\* Steps that leave documents, trees and files as they are: the start and the end
\* of a command, a new collection, and an open that fails.
LEMMA QuietKeeps ==
    ASSUME IndInv,
           UNCHANGED <<up, documents, owner, entries, dirty, metaFile, treeFile, faults, restarts>>,
           \/ collections' = collections
           \/ up = TRUE /\ collections' \subseteq Collections,
           \/ command' = command
           \/ /\ up = TRUE
              /\ command' = Idle \/ command' \in
                   [collection : Collections, key : Keys, value : Values \cup {Absent}, todo : SUBSET Ids]
    PROVE  IndInv'
<1>1. TypeOK'
  BY DEF IndInv, TypeOK
<1>2. ClosedInv'
  BY DEF IndInv, ClosedInv
<1>3. TreesCover' /\ KeysInv'
  BY DEF IndInv, TreesCover, KeysInv, Of, Backfill
<1>4. UnmarkedStored' /\ CatalogStored'
  BY DEF IndInv, UnmarkedStored, CatalogStored
<1> QED
  BY <1>1, <1>2, <1>3, <1>4 DEF IndInv

\* A new index starts with the pairs of all documents, in memory and on disk.
LEMMA CreateIndexKeeps ==
    ASSUME IndInv, NEW n \in Names, NEW c \in Collections, CreateIndex(n, c)
    PROVE  IndInv'
<1> USE DEF IndInv
<1>1. up = TRUE /\ up' = TRUE /\ owner[n] = Absent /\ \A id \in Ids : documents[c][id] # Unindexable
  BY DEF CreateIndex, Creatable, Ready, TypeOK
<1>2. /\ owner' = [owner EXCEPT ![n] = c]
      /\ entries' = [entries EXCEPT ![n] = Backfill(c)]
      /\ treeFile' = [treeFile EXCEPT ![n] = Backfill(c)]
      /\ metaFile' = [metaFile EXCEPT ![n] = c]
      /\ UNCHANGED <<collections, documents, dirty, command, faults, restarts>>
  BY DEF CreateIndex
<1>3. Backfill(c) \subseteq Pairs /\ c # Absent
  BY BackfillFacts, OfFacts
<1>4. TypeOK'
  <2>1. owner' \in [Names -> Collections \cup {Absent}] /\ entries' \in [Names -> SUBSET Pairs]
    BY <1>2, <1>3 DEF TypeOK
  <2>2. metaFile' \in [Names -> Collections \cup {Absent, Garbled}]
    BY <1>2 DEF TypeOK
  <2>3. treeFile' \in [Names -> (SUBSET Pairs) \cup {Absent, Garbled}]
    BY <1>2, <1>3 DEF TypeOK
  <2>4. dirty' \subseteq {m \in Names : owner'[m] # Absent}
    BY <1>2, <1>3 DEF TypeOK
  <2> QED
    BY <1>1, <1>2, <2>1, <2>2, <2>3, <2>4 DEF TypeOK
<1>5. ClosedInv'
  BY <1>1 DEF ClosedInv
<1>6. \A d \in Collections : \A m \in Of(d)' :
         (m = n /\ d = c) \/ (m # n /\ m \in Of(d) /\ entries'[m] = entries[m])
  BY <1>2, <1>3 DEF Of, TypeOK
<1>7. \A d : Backfill(d)' = Backfill(d)
  BY <1>2 DEF Backfill
<1>8. entries'[n] = Backfill(c)
  BY <1>2 DEF TypeOK
<1>9. TreesCover'
  BY <1>6, <1>7, <1>8 DEF TreesCover
<1>10. KeysInv'
  <2> SUFFICES ASSUME NEW d \in Collections, NEW m \in Of(d)', NEW id \in Ids
               PROVE  documents[d][id] # Unindexable
    BY <1>2 DEF KeysInv
  <2> QED
    BY <1>1, <1>6 DEF KeysInv
<1>11. UnmarkedStored'
  BY <1>2 DEF TypeOK, UnmarkedStored
<1>12. CatalogStored'
  BY <1>1, <1>2, <1>3 DEF TypeOK, CatalogStored
<1> QED
  BY <1>4, <1>5, <1>9, <1>10, <1>11, <1>12

\* An index that could not be created leaves files, one error more, and an index
\* that could not be dropped loses its definition file.
LEMMA FailuresKeep ==
    ASSUME IndInv, NEW n \in Names,
           \/ DropIndexFails(n)
           \/ \E c \in Collections : CreateTreeFails(n, c) \/ FillIndexFails(n, c)
    PROVE  IndInv'
<1> USE DEF IndInv
<1>1. up = TRUE /\ up' = TRUE /\ UNCHANGED <<memory, restarts>>
  BY DEF DropIndexFails, CreateTreeFails, FillIndexFails, Creatable, Ready, TypeOK
<1>2. UNCHANGED <<collections, documents, owner, entries, dirty, command, restarts>>
  BY <1>1 DEF memory
<1>3. /\ metaFile' \in [Names -> Collections \cup {Absent, Garbled}]
      /\ treeFile' \in [Names -> (SUBSET Pairs) \cup {Absent, Garbled}]
      /\ \A m \in Names : treeFile'[m] = treeFile[m] \/ owner[m] = Absent
      /\ faults' \in 0 .. MaxFaults /\ faults' # 0
  <2>1. CASE DropIndexFails(n)
    <3>1. /\ metaFile' = [m \in Names |-> IF m \in {n} THEN Absent ELSE metaFile[m]]
          /\ treeFile' = treeFile /\ faults < MaxFaults /\ faults' = faults + 1
      BY <2>1 DEF DropIndexFails, IOError, Undefined
    <3>2. metaFile' \in [Names -> Collections \cup {Absent, Garbled}]
      BY <3>1 DEF TypeOK
    <3>3. faults' \in 0 .. MaxFaults /\ faults' # 0
      BY <3>1, IndexBoundsAssumption DEF TypeOK
    <3> QED
      BY <3>1, <3>2, <3>3 DEF TypeOK
  <2>2. ASSUME NEW c \in Collections, CreateTreeFails(n, c)
        PROVE  <1>3!:
    <3>1. /\ treeFile' \in {[treeFile EXCEPT ![n] = Garbled], [treeFile EXCEPT ![n] = {}]}
          /\ metaFile' = metaFile /\ faults < MaxFaults /\ faults' = faults + 1
          /\ owner[n] = Absent
      BY <2>2 DEF CreateTreeFails, IOError, Creatable
    <3>2. /\ treeFile' \in [Names -> (SUBSET Pairs) \cup {Absent, Garbled}]
          /\ \A m \in Names : treeFile'[m] = treeFile[m] \/ owner[m] = Absent
      BY <3>1 DEF TypeOK
    <3>3. faults' \in 0 .. MaxFaults /\ faults' # 0
      BY <3>1, IndexBoundsAssumption DEF TypeOK
    <3> QED
      BY <3>1, <3>2, <3>3 DEF TypeOK
  <2>3. ASSUME NEW c \in Collections, FillIndexFails(n, c)
        PROVE  <1>3!:
    <3>1. owner[n] = Absent
      BY <2>3 DEF FillIndexFails, Creatable
    <3>2. CASE metaFile[n] # Absent /\ metaFile' = [metaFile EXCEPT ![n] = Absent]
                 /\ UNCHANGED <<treeFile, faults>>
      <4>1. faults # 0
        BY <1>1, <3>1, <3>2 DEF CatalogStored
      <4>2. metaFile' \in [Names -> Collections \cup {Absent, Garbled}]
        BY <3>2 DEF TypeOK
      <4> QED
        BY <3>2, <4>1, <4>2 DEF TypeOK
    <3>3. CASE /\ IOError
               /\ \E bytes \in {Absent, {}, Garbled, Backfill(c)}, definition \in {Absent, Garbled, c} :
                     /\ treeFile' = [treeFile EXCEPT ![n] = bytes]
                     /\ metaFile' = [metaFile EXCEPT ![n] = definition]
      <4>1. PICK bytes \in {Absent, {}, Garbled, Backfill(c)}, definition \in {Absent, Garbled, c} :
               /\ treeFile' = [treeFile EXCEPT ![n] = bytes]
               /\ metaFile' = [metaFile EXCEPT ![n] = definition]
        BY <3>3
      <4>2. Backfill(c) \subseteq Pairs
        BY BackfillFacts
      <4>3. /\ treeFile' \in [Names -> (SUBSET Pairs) \cup {Absent, Garbled}]
            /\ \A m \in Names : treeFile'[m] = treeFile[m] \/ owner[m] = Absent
        BY <3>1, <4>1, <4>2 DEF TypeOK
      <4>4. metaFile' \in [Names -> Collections \cup {Absent, Garbled}]
        BY <4>1 DEF TypeOK
      <4>5. faults' \in 0 .. MaxFaults /\ faults' # 0
        BY <3>3, IndexBoundsAssumption DEF TypeOK, IOError
      <4> QED
        BY <4>3, <4>4, <4>5
    <3> QED
      BY <2>3, <3>2, <3>3 DEF FillIndexFails
  <2> QED
    BY <2>1, <2>2, <2>3
<1>4. TypeOK'
  BY <1>1, <1>2, <1>3 DEF TypeOK
<1>5. ClosedInv'
  BY <1>1 DEF ClosedInv
<1>6. TreesCover' /\ KeysInv'
  BY <1>2 DEF TreesCover, KeysInv, Of, Backfill
<1>7. UnmarkedStored'
  BY <1>2, <1>3 DEF UnmarkedStored
<1>8. CatalogStored'
  BY <1>3 DEF CatalogStored
<1> QED
  BY <1>4, <1>5, <1>6, <1>7, <1>8
\* Indexes that are dropped, with the documents of their collection or without,
\* take their trees, marks and files with them.
LEMMA RemovedKeeps ==
    ASSUME IndInv, NEW names \in SUBSET Names,
           up = TRUE, up' = TRUE,
           Removed(names), restarts' = restarts, command' = command,
           collections' \subseteq collections,
           \/ documents' = documents
           \/ \E c \in Collections : documents' = [documents EXCEPT ![c] = NoDocuments],
           metaFile' \in [Names -> Collections \cup {Absent, Garbled}],
           faults' \in 0 .. MaxFaults,
           faults' = 0 => faults = 0 /\ metaFile' = Undefined(names)
    PROVE  IndInv'
<1> USE DEF IndInv
<1>1. /\ owner' = [n \in Names |-> IF n \in names THEN Absent ELSE owner[n]]
      /\ entries' = [n \in Names |-> IF n \in names THEN {} ELSE entries[n]]
      /\ dirty' = dirty \ names
      /\ treeFile' = [n \in Names |-> IF n \in names THEN Absent ELSE treeFile[n]]
  BY DEF Removed
<1>2. documents' \in [Collections -> [Ids -> Values \cup {Absent}]]
  BY DEF TypeOK, NoDocuments
<1>3. TypeOK'
  <2>1. owner' \in [Names -> Collections \cup {Absent}] /\ entries' \in [Names -> SUBSET Pairs]
    BY <1>1 DEF TypeOK
  <2>2. treeFile' \in [Names -> (SUBSET Pairs) \cup {Absent, Garbled}]
    BY <1>1 DEF TypeOK
  <2>3. dirty' \subseteq {m \in Names : owner'[m] # Absent}
    BY <1>1 DEF TypeOK
  <2> QED
    BY <1>2, <2>1, <2>2, <2>3 DEF TypeOK
<1>4. ClosedInv'
  BY DEF ClosedInv
<1>5. \A d \in Collections : \A m \in Of(d)' :
         m \in Of(d) /\ m \notin names /\ entries'[m] = entries[m]
  BY <1>1, OfFacts DEF Of
<1>6. \A d \in Collections :
         \/ documents'[d] = documents[d]
         \/ documents'[d] = NoDocuments
  BY DEF TypeOK
<1>7. TreesCover'
  <2> SUFFICES ASSUME NEW d \in Collections, NEW m \in Of(d)'
               PROVE  Backfill(d)' \subseteq entries'[m]
    BY DEF TreesCover
  <2>1. m \in Of(d) /\ entries'[m] = entries[m] /\ Backfill(d) \subseteq entries[m]
    BY <1>5 DEF TreesCover
  <2>2. CASE documents'[d] = documents[d]
    BY <2>1, <2>2 DEF Backfill
  <2>3. CASE documents'[d] = NoDocuments
    <3>1. \A id \in Ids : PairOf(id, documents'[d][id]) = {}
      BY <2>3, IndexValuesAssumption DEF NoDocuments, PairOf
    <3> QED
      BY <3>1 DEF Backfill
  <2> QED
    BY <1>6, <2>2, <2>3
<1>8. KeysInv'
  <2> SUFFICES ASSUME NEW d \in Collections, NEW m \in Of(d)', NEW id \in Ids
               PROVE  documents'[d][id] # Unindexable
    BY DEF KeysInv
  <2>1. documents[d][id] # Unindexable
    BY <1>5 DEF KeysInv
  <2> QED
    BY <1>6, <2>1, IndexValuesAssumption DEF NoDocuments
<1>9. UnmarkedStored'
  BY <1>1 DEF UnmarkedStored
<1>10. CatalogStored'
  <2> SUFFICES ASSUME faults' = 0, NEW n \in Names
               PROVE  /\ metaFile'[n] = owner'[n]
                      /\ treeFile'[n] = IF owner'[n] = Absent THEN Absent ELSE entries'[n]
    BY DEF CatalogStored
  <2>1. /\ metaFile[n] = owner[n]
        /\ treeFile[n] = IF owner[n] = Absent THEN Absent ELSE entries[n]
    BY DEF CatalogStored
  <2>2. metaFile'[n] = IF n \in names THEN Absent ELSE metaFile[n]
    BY DEF Undefined
  <2> QED
    BY <1>1, <2>1, <2>2
<1> QED
  BY <1>3, <1>4, <1>7, <1>8, <1>9, <1>10

\* Dropping definitions leaves the catalog and the marks typed.
LEMMA UndefinedType ==
    ASSUME TypeOK, NEW names
    PROVE  Undefined(names) \in [Names -> Collections \cup {Absent, Garbled}]
  BY DEF TypeOK, Undefined

\* drop_index and drop_collection take the indexes out, files included.
LEMMA DropsKeep ==
    ASSUME IndInv,
           \/ \E n \in Names : DropIndex(n)
           \/ \E c \in Collections : DropCollection(c) \/ DropCollectionFails(c)
    PROVE  IndInv'
<1> USE DEF IndInv
<1>1. ASSUME NEW n \in Names, DropIndex(n)
      PROVE  IndInv'
  <2>1. up = TRUE /\ up' = TRUE /\ {n} \in SUBSET Names
    BY <1>1 DEF DropIndex, Ready, TypeOK
  <2>2. /\ Removed({n}) /\ metaFile' = Undefined({n})
        /\ UNCHANGED <<collections, documents, command, faults, restarts>>
    BY <1>1 DEF DropIndex
  <2>3. faults' \in 0 .. MaxFaults
    BY <2>2 DEF TypeOK
  <2> QED
    BY <2>1, <2>2, <2>3, UndefinedType, RemovedKeeps
<1>2. ASSUME NEW c \in Collections, DropCollection(c)
      PROVE  IndInv'
  <2>1. up = TRUE /\ up' = TRUE /\ Of(c) \in SUBSET Names
    BY <1>2 DEF DropCollection, Ready, TypeOK, Of
  <2>2. /\ Removed(Of(c)) /\ metaFile' = Undefined(Of(c))
        /\ collections' \subseteq collections
        /\ documents' = [documents EXCEPT ![c] = NoDocuments]
        /\ UNCHANGED <<command, faults, restarts>>
    BY <1>2 DEF DropCollection, DropDocuments
  <2>3. faults' \in 0 .. MaxFaults
    BY <2>2 DEF TypeOK
  <2> QED
    BY <2>1, <2>2, <2>3, UndefinedType, RemovedKeeps
<1>3. ASSUME NEW c \in Collections, DropCollectionFails(c)
      PROVE  IndInv'
  <2>1. up = TRUE /\ up' = TRUE
    BY <1>3 DEF DropCollectionFails, Ready, TypeOK
  <2>2. /\ collections' \subseteq collections
        /\ documents' = [documents EXCEPT ![c] = NoDocuments]
        /\ UNCHANGED <<command, restarts>>
    BY <1>3 DEF DropCollectionFails, DropDocuments
  <2>3. PICK n \in Of(c) :
          LET done == {m \in Of(c) : m < n} IN
            /\ \A m \in done : Droppable(m)
            /\ Removed(done)
            /\ \/ ~Droppable(n) /\ metaFile' = Undefined(done) /\ faults' = faults
               \/ IOError /\ metaFile' \in {Undefined(done), Undefined(done \cup {n})}
    BY <1>3 DEF DropCollectionFails
  <2> DEFINE done == {m \in Of(c) : m < n}
  <2>4. done \in SUBSET Names /\ n \in Names /\ owner[n] # Absent
    BY OfFacts
  <2>5. CASE ~Droppable(n) /\ metaFile' = Undefined(done) /\ faults' = faults
    <3>1. faults' # 0
      BY <2>1, <2>4, <2>5 DEF Droppable, CatalogStored
    <3>2. faults' \in 0 .. MaxFaults /\ metaFile' \in [Names -> Collections \cup {Absent, Garbled}]
      BY <2>5, UndefinedType DEF TypeOK
    <3> HIDE DEF done
    <3> QED
      BY <2>1, <2>2, <2>3, <2>4, <3>1, <3>2, RemovedKeeps DEF done
  <2>6. CASE IOError /\ metaFile' \in {Undefined(done), Undefined(done \cup {n})}
    <3>1. faults' \in 0 .. MaxFaults /\ faults' # 0
      BY <2>6, IndexBoundsAssumption DEF TypeOK, IOError
    <3>2. metaFile' \in [Names -> Collections \cup {Absent, Garbled}]
      BY <2>6, UndefinedType
    <3> QED
      BY <2>1, <2>2, <2>3, <2>4, <3>1, <3>2, RemovedKeeps
  <2> QED
    BY <2>3, <2>5, <2>6
<1> QED
  BY <1>1, <1>2, <1>3

\* The next process takes its indexes from the files.
LEMMA OpenKeeps ==
    ASSUME IndInv, Open
    PROVE  IndInv'
<1> USE DEF IndInv
<1>1. up = FALSE /\ up' = TRUE
  BY DEF Open, TypeOK
<1>2. /\ \A n \in Names : metaFile[n] # Absent =>
             metaFile[n] # Garbled /\ treeFile[n] \notin {Absent, Garbled}
      /\ owner' = metaFile
      /\ entries' = [n \in Names |-> IF metaFile[n] = Absent THEN {} ELSE treeFile[n]]
      /\ UNCHANGED <<collections, documents, dirty, command, metaFile, treeFile, faults, restarts>>
  BY DEF Open, Loadable, files
<1>3. dirty = {} /\ documents = [c \in Collections |-> NoDocuments]
  BY <1>1 DEF ClosedInv
<1>4. TypeOK'
  <2>1. owner' \in [Names -> Collections \cup {Absent}] /\ entries' \in [Names -> SUBSET Pairs]
    BY <1>2 DEF TypeOK
  <2> QED
    BY <1>1, <1>2, <1>3, <2>1 DEF TypeOK
<1>5. ClosedInv'
  BY <1>1 DEF ClosedInv
<1>6. \A c \in Collections : documents'[c] = NoDocuments
  BY <1>2, <1>3
<1>7. TreesCover'
  <2>1. \A c \in Collections, id \in Ids : PairOf(id, documents'[c][id]) = {}
    BY <1>6, IndexValuesAssumption DEF NoDocuments, PairOf
  <2> QED
    BY <2>1 DEF TreesCover, Backfill
<1>8. KeysInv'
  BY <1>6, IndexValuesAssumption DEF KeysInv, NoDocuments
<1>9. UnmarkedStored'
  BY <1>2 DEF UnmarkedStored
<1>10. CatalogStored'
  BY <1>1, <1>2, OfFacts DEF CatalogStored
<1> QED
  BY <1>4, <1>5, <1>7, <1>8, <1>9, <1>10

\* After an exit nothing is in memory.
LEMMA ExitKeeps ==
    ASSUME IndInv, Exit
    PROVE  IndInv'
<1> USE DEF IndInv
<1>1. up = TRUE /\ up' = FALSE
  BY DEF Exit, TypeOK
<1>2. /\ collections' = {} /\ dirty' = {} /\ command' = Idle
      /\ documents' = [c \in Collections |-> NoDocuments]
      /\ owner' = [n \in Names |-> Absent]
      /\ entries' = [n \in Names |-> {}]
      /\ UNCHANGED <<metaFile, treeFile, faults>>
      /\ restarts < MaxRestarts /\ restarts' = restarts + 1
  BY DEF Exit, files
<1>3. TypeOK'
  <2>1. documents' \in [Collections -> [Ids -> Values \cup {Absent}]]
    BY <1>2 DEF NoDocuments
  <2>2. restarts' \in 0 .. MaxRestarts
    BY <1>2, IndexBoundsAssumption DEF TypeOK
  <2> QED
    BY <1>1, <1>2, <2>1, <2>2 DEF TypeOK
<1>4. ClosedInv'
  BY <1>2 DEF ClosedInv, NoDocuments
<1>5. \A c \in Collections : Of(c)' = {}
  BY <1>2, IndexValuesAssumption DEF Of
<1>6. TreesCover' /\ KeysInv'
  BY <1>5 DEF TreesCover, KeysInv
<1>7. UnmarkedStored'
  BY <1>2 DEF UnmarkedStored
<1>8. CatalogStored'
  <2> SUFFICES ASSUME faults = 0, NEW n \in Names
               PROVE  \/ metaFile[n] = Absent /\ treeFile[n] = Absent
                      \/ metaFile[n] \in Collections /\ treeFile[n] \in SUBSET Pairs
    BY <1>1, <1>2 DEF CatalogStored
  <2>1. /\ metaFile[n] = owner[n]
        /\ treeFile[n] = IF owner[n] = Absent THEN Absent ELSE entries[n]
    BY <1>1 DEF CatalogStored
  <2> QED
    BY <2>1 DEF TypeOK
<1> QED
  BY <1>3, <1>4, <1>6, <1>7, <1>8

\* The first process begins with no file and no index.
LEMMA InitInv ==
    ASSUME Init
    PROVE  IndInv
<1>1. TypeOK
  <2>1. documents \in [Collections -> [Ids -> Values \cup {Absent}]]
    BY DEF Init, NoDocuments
  <2>2. /\ owner \in [Names -> Collections \cup {Absent}] /\ entries \in [Names -> SUBSET Pairs]
        /\ metaFile \in [Names -> Collections \cup {Absent, Garbled}]
        /\ treeFile \in [Names -> (SUBSET Pairs) \cup {Absent, Garbled}]
    BY DEF Init
  <2>3. faults \in 0 .. MaxFaults /\ restarts \in 0 .. MaxRestarts
    BY IndexBoundsAssumption DEF Init
  <2>4. up \in BOOLEAN /\ collections \subseteq Collections /\ command = Idle
        /\ dirty \subseteq {n \in Names : owner[n] # Absent}
    BY DEF Init
  <2> QED
    BY <2>1, <2>2, <2>3, <2>4 DEF TypeOK
<1>2. ClosedInv
  BY DEF Init, ClosedInv
<1>3. \A c \in Collections : Of(c) = {}
  BY IndexValuesAssumption DEF Init, Of
<1>4. TreesCover /\ KeysInv
  BY <1>3 DEF TreesCover, KeysInv
<1>5. UnmarkedStored /\ CatalogStored
  BY DEF Init, UnmarkedStored, CatalogStored
<1> QED
  BY <1>1, <1>2, <1>4, <1>5 DEF IndInv

\* Every command, failure, exit and open.
LEMMA StepInv ==
    ASSUME IndInv, [Next]_vars
    PROVE  IndInv'
<1>1. CASE Open
  BY <1>1, OpenKeeps
<1>2. CASE OpenFails \/ UNCHANGED vars
  BY <1>2, QuietKeeps DEF OpenFails, vars, memory, files
<1>3. CASE Exit
  BY <1>3, ExitKeeps
<1>4. CASE CommandStep
  BY <1>4, CommandStepKeeps
<1>5. CASE CommandEnds
  <2>1. up = TRUE
    BY <1>5 DEF CommandEnds, IndInv, TypeOK
  <2> QED
    BY <1>5, <2>1, QuietKeeps DEF CommandEnds, files
<1>6. ASSUME NEW c \in Collections, CreateCollection(c)
      PROVE  IndInv'
  <2>1. up = TRUE /\ collections' \subseteq Collections
    BY <1>6 DEF CreateCollection, Ready, IndInv, TypeOK
  <2> QED
    BY <1>6, <2>1, QuietKeeps DEF CreateCollection, files
<1>7. ASSUME NEW c \in Collections, NEW id \in Ids, NEW value \in Values, Insert(c, id, value)
      PROVE  IndInv'
  BY <1>7, InsertKeeps
<1>8. ASSUME NEW c \in Collections, NEW key \in Keys, NEW value \in Values \cup {Absent},
             StartCommand(c, key, value)
      PROVE  IndInv'
  <2>1. up = TRUE
    BY <1>8 DEF StartCommand, Ready, IndInv, TypeOK
  <2>2. command' \in [collection : Collections, key : Keys, value : Values \cup {Absent}, todo : SUBSET Ids]
    BY <1>8 DEF StartCommand, Selected, Candidates
  <2> QED
    BY <1>8, <2>1, <2>2, QuietKeeps DEF StartCommand, files
<1>9. ASSUME NEW n \in Names, NEW c \in Collections,
             CreateIndex(n, c) \/ CreateTreeFails(n, c) \/ FillIndexFails(n, c)
      PROVE  IndInv'
  BY <1>9, CreateIndexKeeps, FailuresKeep
<1>10. CASE \E n \in Names : DropIndexFails(n)
  BY <1>10, FailuresKeep
<1>11. CASE \/ \E n \in Names : DropIndex(n)
            \/ \E c \in Collections : DropCollection(c) \/ DropCollectionFails(c)
  BY <1>11, DropsKeep
<1> QED
  BY <1>1, <1>2, <1>3, <1>4, <1>5, <1>6, <1>7, <1>8, <1>9, <1>10, <1>11 DEF Next

\* The invariant holds in every state of every behaviour.
LEMMA Invariance == Spec => []IndInv
<1>1. Init => IndInv
  BY InitInv
<1>2. IndInv /\ [Next]_vars => IndInv'
  BY StepInv
<1> QED
  BY <1>1, <1>2, PTL DEF Spec
-----------------------------------------------------------------------------
(* Queries *)

\* A scan of any index finds the documents that match: their pairs are in the
\* tree under the literal itself.
LEMMA ScanFindsMatches ==
    ASSUME IndInv, LiteralsAreUnique, NEW c \in Collections, NEW key \in Keys
    PROVE  Selected(c, key) = {id \in Ids : Matches(c, id, key)}
<1> SUFFICES ASSUME NEW id \in Ids, Matches(c, id, key)
             PROVE  id \in Candidates(c, key)
  BY DEF Selected, Candidates
<1>1. documents[c][id] # Absent /\ RuntimeEqual(documents[c][id], key)
  BY DEF Matches
<1>2. ASSUME key \in Literals, NEW n \in Of(c)
      PROVE  <<key, id>> \in entries[n]
  <2>1. documents[c][id] = key
    BY <1>1, <1>2 DEF RuntimeEqual, LiteralsAreUnique
  <2>2. <<key, id>> \in Backfill(c)
    BY <2>1, BackfillFacts DEF IndInv
  <2> QED
    BY <2>2 DEF IndInv, TreesCover
<1> QED
  BY <1>1, <1>2 DEF Candidates

\* A step of a command deals with one document, and no other step changes a
\* document while a command runs.
LEMMA StepDone ==
    ASSUME IndInv, LiteralsAreUnique, DoneInv, [Next]_vars
    PROVE  DoneInv'
<1>1. CASE UNCHANGED <<documents, command>>
  BY <1>1 DEF DoneInv, Matches, RuntimeEqual
<1>2. CASE command' = Idle
  BY <1>2 DEF DoneInv
<1>3. ASSUME NEW c \in Collections, NEW key \in Keys, NEW value \in Values \cup {Absent},
             StartCommand(c, key, value)
      PROVE  DoneInv'
  <2>1. /\ command' = [collection |-> c, key |-> key, value |-> value, todo |-> Selected(c, key)]
        /\ documents' = documents
    BY <1>3 DEF StartCommand
  <2>2. \A id \in Ids \ Selected(c, key) : ~Matches(c, id, key)
    BY ScanFindsMatches
  <2>3. \A id \in Ids \ command'.todo :
          ~Matches(command.collection, id, command.key)'
    BY <2>1, <2>2 DEF Matches, RuntimeEqual
  <2> QED
    BY <2>3 DEF DoneInv
<1>4. CASE CommandStep
  <2> DEFINE c == command.collection
             value == command.value
  <2>1. /\ command # Idle
        /\ command \in [collection : Collections, key : Keys, value : Values \cup {Absent}, todo : SUBSET Ids]
    BY <1>4 DEF CommandStep, IndInv, TypeOK
  <2>2. CASE command' # Idle
    <3>1. PICK id \in command.todo :
             /\ Change(c, id, value)
             /\ command' = [command EXCEPT !.todo = @ \ {id}]
      BY <1>4, <2>2 DEF CommandStep
    <3>2. /\ command'.collection = c /\ command'.key = command.key
          /\ command'.value = value /\ command'.todo = command.todo \ {id}
      BY <2>1, <3>1
    <3>3. documents' = [documents EXCEPT ![c][id] = value] /\ c \in Collections /\ id \in Ids
      BY <2>1, <3>1 DEF Change
    <3> SUFFICES ASSUME NEW other \in Ids \ command'.todo,
                        Matches(command.collection, other, command.key)'
                 PROVE  documents'[c][other] = value
      BY <3>2 DEF DoneInv
    <3>4. CASE other = id
      BY <3>3, <3>4 DEF IndInv, TypeOK
    <3>5. CASE other # id
      <4>1. documents'[c][other] = documents[c][other] /\ other \in Ids \ command.todo
        BY <3>2, <3>3, <3>5 DEF IndInv, TypeOK
      <4>2. Matches(c, other, command.key)
        BY <3>2, <4>1 DEF Matches, RuntimeEqual
      <4> QED
        BY <2>1, <4>1, <4>2 DEF DoneInv
    <3> QED
      BY <3>4, <3>5
  <2> QED
    BY <1>2, <2>2
<1>5. ASSUME Ready, command' = command
      PROVE  command' = Idle
  BY <1>5 DEF Ready
<1>6. CASE Exit \/ CommandEnds
  BY <1>2, <1>6 DEF Exit, CommandEnds
<1>7. CASE Open \/ OpenFails \/ UNCHANGED vars
  BY <1>1, <1>7 DEF Open, OpenFails, vars, memory
<1>8. ASSUME NEW c \in Collections,
             CreateCollection(c) \/ DropCollection(c) \/ DropCollectionFails(c)
      PROVE  DoneInv'
  BY <1>2, <1>5, <1>8 DEF CreateCollection, DropCollection, DropCollectionFails
<1>9. ASSUME NEW c \in Collections, NEW id \in Ids, NEW value \in Values, Insert(c, id, value)
      PROVE  DoneInv'
  BY <1>2, <1>5, <1>9 DEF Insert
<1>10. ASSUME NEW n \in Names, NEW c \in Collections,
              CreateIndex(n, c) \/ CreateTreeFails(n, c) \/ FillIndexFails(n, c)
       PROVE  DoneInv'
  BY <1>2, <1>5, <1>10 DEF CreateIndex, CreateTreeFails, FillIndexFails, Creatable, memory
<1>11. ASSUME NEW n \in Names, DropIndex(n) \/ DropIndexFails(n)
       PROVE  DoneInv'
  BY <1>2, <1>5, <1>11 DEF DropIndex, DropIndexFails, memory
<1> QED
  BY <1>3, <1>4, <1>6, <1>7, <1>8, <1>9, <1>10, <1>11 DEF Next

-----------------------------------------------------------------------------
(* The theorems *)

\* validate_document is asked before every change, and create_index looks at all
\* documents: no replace or delete meets a document its index cannot take.
THEOREM IndexedDocumentsHaveKeysAlways == Spec => []IndexedDocumentsHaveKeys
<1>1. IndInv => IndexedDocumentsHaveKeys
  BY DEF IndInv, KeysInv, IndexedDocumentsHaveKeys
<1> QED
  BY Invariance, <1>1, PTL

\* sync_collection, create_index and the drops leave the directory so that every
\* unmarked tree is stored and, without I/O errors, a restart finds the catalog.
THEOREM FilesFollowTreesAlways == Spec => []FilesFollowTrees
<1>1. ASSUME IndInv
      PROVE  FilesFollowTrees
  <2>1. \A n \in Names : owner[n] # Absent /\ n \notin dirty => treeFile[n] = entries[n]
    BY <1>1 DEF IndInv, UnmarkedStored
  <2>2. CASE faults # 0
    BY <2>1, <2>2 DEF FilesFollowTrees
  <2>3. CASE faults = 0 /\ up = TRUE
    <3>1. \A n \in Names :
             /\ metaFile[n] = owner[n]
             /\ treeFile[n] = IF owner[n] = Absent THEN Absent ELSE entries[n]
      BY <1>1, <2>3 DEF IndInv, CatalogStored
    <3> QED
      BY <2>1, <2>3, <3>1 DEF FilesFollowTrees
  <2>4. CASE faults = 0 /\ up = FALSE
    <3>1. \A n \in Names :
             \/ metaFile[n] = Absent /\ treeFile[n] = Absent
             \/ metaFile[n] \in Collections /\ treeFile[n] \in SUBSET Pairs
      BY <1>1, <2>4 DEF IndInv, CatalogStored
    <3>2. Loadable
      BY <3>1, IndexValuesAssumption DEF Loadable, Pairs
    <3> QED
      BY <2>1, <2>4, <3>2 DEF FilesFollowTrees
  <2> QED
    BY <1>1, <2>2, <2>3, <2>4 DEF IndInv, TypeOK
<1> QED
  BY Invariance, <1>1, PTL

\* The planner may pick any index: a query by it returns what a scan of all
\* documents returns, if no other key is equal to a literal.
THEOREM IndexScansFindAllAlways ==
    ASSUME LiteralsAreUnique
    PROVE  Spec => []IndexScansFindAll
<1>1. ASSUME IndInv
      PROVE  IndexScansFindAll
  <2>1. collections \subseteq Collections
    BY <1>1 DEF IndInv, TypeOK
  <2> QED
    BY <1>1, <2>1, ScanFindsMatches DEF IndexScansFindAll
<1> QED
  BY Invariance, <1>1, PTL

\* The update and delete loops of the executor reach every document that matches,
\* though they change the index they were selected by.
THEOREM CommandsReachAllAlways ==
    ASSUME LiteralsAreUnique
    PROVE  Spec => []CommandsReachAll
<1>1. Init => DoneInv
  BY DEF Init, DoneInv
<1>2. IndInv /\ DoneInv /\ [Next]_vars => DoneInv'
  BY StepDone
<1>3. DoneInv => CommandsReachAll
  BY DEF DoneInv, CommandsReachAll
<1> QED
  BY Invariance, <1>1, <1>2, <1>3, PTL DEF Spec
====
