---- MODULE StorageEngine ----
(***************************************************************************)
(* The storage engine of crates/nova-storage/src/engine.rs over the page   *)
(* manager (manager.rs) and slotted pages: documents go into the first     *)
(* page with room, and the directory of their places is rebuilt at every   *)
(* open by reading all pages.  Only shutdown synchronizes the file.        *)
(*                                                                         *)
(* A document is a record with an id.  Another client of the page manager  *)
(* may remove records while no engine has the file: the engine itself      *)
(* removes nothing, but reads and fills pages with deleted slots.          *)
(***************************************************************************)
EXTENDS SlottedPage, Functions

CONSTANTS
    Documents,     \* the records that are encoded documents
    IdOf,          \* the id in each
    Absent,        \* no document
    MaxPages,      \* bound: pages allocated
    MaxFaults,     \* bound: calls that meet an I/O error
    MaxRestarts    \* bound: exits and crashes

ASSUME EngineAssumption ==
    /\ Documents \subseteq Records
    /\ IdOf \in [Documents -> Nat]
    /\ MaxPages \in Nat /\ MaxFaults \in Nat /\ MaxRestarts \in Nat
    /\ \A p \in 1 .. MaxPages, i \in 1 .. PageSize : Absent # <<p, i>>

VARIABLES
    up,            \* a StorageEngine has the file
    locations,     \* StorageEngine.locations
    file,          \* the images in the page file
    tail,          \* part of a page follows the last whole one
    kept,          \* the images a crash may leave of each page
    durableLength, \* the pages a crash leaves at least
    durable,       \* history: documents that were there at a successful sync
    failed,        \* history: ids whose insert failed with the record in the file
    retried,       \* history: ids inserted once more by the same engine
    faults,        \* calls that met an I/O error
    restarts       \* exits and crashes so far

fileVars == <<file, tail, kept, durableLength>>
historyVars == <<durable, failed, retried>>
vars == <<up, locations, fileVars, historyVars, faults, restarts>>

Ids == {IdOf[d] : d \in Documents}
Pages == DOMAIN file
Nowhere == [id \in Ids |-> Absent]

IOError == faults < MaxFaults /\ faults' = faults + 1

\* The records of a page of the file, which reads without error.
Readable(p) == Reads(file[p], p)
Content(p) == Decode(file[p])
DocumentsIn(p) == {Content(p)[i] : i \in Live(Content(p))}

\* allocate writes an empty page behind the others before it gets its record.
Before(p) == IF p \in Pages THEN kept[p] ELSE {Encode(p, EmptyPage)}

\* A write that is not synchronized: a crash leaves this image, an earlier one,
\* or a mixture.
Written(p, image) ==
    /\ file' = IF p \in Pages THEN [file EXCEPT ![p] = image] ELSE Append(file, image)
    /\ kept' = LET images == Before(p) \cup {image, Garbled} IN
                 IF p \in Pages THEN [kept EXCEPT ![p] = images] ELSE Append(kept, images)
    /\ durableLength' = durableLength

Synced ==
    /\ kept' = [p \in DOMAIN file' |-> {file'[p]}]
    /\ durableLength' = Len(file')

-----------------------------------------------------------------------------
(* The engine *)

\* The places of all records in pages that read.
Found == UNION {{<<p, i>> : i \in Live(Content(p))} : p \in {q \in Pages : Readable(q)}}
RecordOf(place) == Content(place[1])[place[2]]

\* The ids that more than one record has.
RepeatedIds ==
    {IdOf[RecordOf(a)] : a \in
        {b \in Found : \E c \in Found : c # b /\ IdOf[RecordOf(c)] = IdOf[RecordOf(b)]}}

\* Every page reads, and no id comes twice.
Consistent ==
    /\ \A p \in Pages : Readable(p)
    /\ RepeatedIds = {}

Open ==
    /\ ~up /\ ~tail /\ Consistent
    /\ up' = TRUE
    /\ locations' = [id \in Ids |->
          IF \E place \in Found : IdOf[RecordOf(place)] = id
          THEN CHOOSE place \in Found : IdOf[RecordOf(place)] = id
          ELSE Absent]
    /\ UNCHANGED <<fileVars, historyVars, faults, restarts>>

\* A file that is not a number of whole pages, or whose pages do not read.
OpenFails == ~up /\ (tail \/ ~Consistent) /\ UNCHANGED vars

\* The id is new and the document fits into an empty page.
Insertable(d) ==
    /\ up
    /\ locations[IdOf[d]] = Absent
    /\ Fits(EmptyPage, d)

\* The first page with room; the search reads all pages in front of it.
IsTarget(p, d) ==
    /\ \A q \in 1 .. p : Readable(q)
    /\ Fits(Content(p), d)
    /\ \A q \in 1 .. p - 1 : ~Fits(Content(q), d)

NoTarget(d) == \A p \in Pages : Readable(p) /\ ~Fits(Content(p), d)

\* Another insert of an id that a failed one has left in the file, where the
\* directory does not know it.
Retried(d) == retried' = retried \cup (failed \cap {IdOf[d]})

\* MUTANT of Place: the record is taken to be in a new slot.
AppendingPlace(p, page, d) ==
    /\ Encodable(InsertRecord(page, d))
    /\ Written(p, Encode(p, InsertRecord(page, d)))
    /\ locations' = [locations EXCEPT ![IdOf[d]] = <<p, Len(page) + 1>>]
    /\ UNCHANGED <<up, tail, durable, failed, faults, restarts>>
    /\ Retried(d)

\* The record goes into the page, the page to the file, the place into the
\* directory.
Place(p, page, d) ==
    /\ Encodable(InsertRecord(page, d))
    /\ Written(p, Encode(p, InsertRecord(page, d)))
    /\ locations' = [locations EXCEPT ![IdOf[d]] = <<p, SlotFor(page)>>]
    /\ UNCHANGED <<up, tail, durable, failed, faults, restarts>>
    /\ Retried(d)

Insert(d) ==
    /\ Insertable(d)
    /\ \E p \in Pages : IsTarget(p, d) /\ Place(p, Content(p), d)

InsertAllocates(d) ==
    /\ Insertable(d) /\ NoTarget(d)
    /\ ~tail /\ Len(file) < MaxPages
    /\ Place(Len(file) + 1, EmptyPage, d)

\* A page is written in part: records lie from the end of the page down, so that a
\* part may hold all that changes, and the page is there with the new record.
PartlyWritten(p, page, d) ==
    /\ Encodable(InsertRecord(page, d))
    /\ \/ /\ Written(p, Encode(p, InsertRecord(page, d)))
          /\ failed' = failed \cup {IdOf[d]} /\ Retried(d)
       \/ Written(p, Garbled) /\ UNCHANGED <<failed, retried>>
    /\ UNCHANGED tail

\* The page that has room is not written, or in part.
InsertFails(d) ==
    /\ Insertable(d)
    /\ IOError
    /\ \E p \in Pages :
         /\ IsTarget(p, d)
         /\ UNCHANGED <<fileVars, failed, retried>> \/ PartlyWritten(p, Content(p), d)
    /\ UNCHANGED <<up, locations, durable, restarts>>

\* A page is allocated, whole or in part, and the document is not written into it,
\* or in part.
AllocationFails(d) ==
    /\ Insertable(d) /\ NoTarget(d)
    /\ ~tail /\ Len(file) < MaxPages
    /\ IOError
    /\ \/ tail' = TRUE /\ UNCHANGED <<file, kept, durableLength, failed, retried>>
       \/ /\ Written(Len(file) + 1, Encode(Len(file) + 1, EmptyPage))
          /\ UNCHANGED <<tail, failed, retried>>
       \/ PartlyWritten(Len(file) + 1, EmptyPage, d)
    /\ UNCHANGED <<up, locations, durable, restarts>>

\* Behind part of a page, an allocated page is not where it is read.
AllocationMisplaced(d) ==
    /\ Insertable(d) /\ NoTarget(d)
    /\ tail /\ Len(file) < MaxPages
    /\ Written(Len(file) + 1, Garbled)
    /\ UNCHANGED <<up, locations, tail, historyVars, faults, restarts>>

\* MUTANT of Shutdown: the file is not synchronized.
UnsyncedShutdown ==
    /\ up
    /\ up' = FALSE /\ locations' = Nowhere /\ failed' = {}
    /\ UNCHANGED <<fileVars, retried, restarts, faults>>
    /\ durable' = UNION {DocumentsIn(p) : p \in {q \in Pages : Readable(q)}}

\* The engine is consumed whether the file is synchronized or not.
Shutdown ==
    /\ up
    /\ up' = FALSE /\ locations' = Nowhere /\ failed' = {}
    /\ UNCHANGED <<file, tail, retried, restarts>>
    /\ \/ /\ Synced
          /\ durable' = UNION {DocumentsIn(p) : p \in {q \in Pages : Readable(q)}}
          /\ faults' = faults
       \/ IOError /\ UNCHANGED <<kept, durableLength, durable>>

-----------------------------------------------------------------------------
(* Around the engine *)

\* Another client of the page manager removes a record and synchronizes.
RemoveRecord(p, i) ==
    /\ ~up /\ ~tail
    /\ Readable(p) /\ i \in Live(Content(p))
    /\ file' = [file EXCEPT ![p] = Encode(p, [Content(p) EXCEPT ![i] = Deleted])]
    /\ Synced
    /\ durable' = durable \ {Content(p)[i]}
    /\ UNCHANGED <<up, locations, tail, failed, retried, faults, restarts>>

Exit ==
    /\ up /\ restarts < MaxRestarts
    /\ up' = FALSE /\ locations' = Nowhere /\ failed' = {}
    /\ restarts' = restarts + 1
    /\ UNCHANGED <<fileVars, durable, retried, faults>>

\* Of what was not synchronized a crash leaves some pages, some of them at an
\* earlier image, and perhaps part of one more.
Crash ==
    /\ restarts < MaxRestarts
    /\ up' = FALSE /\ locations' = Nowhere /\ failed' = {}
    /\ restarts' = restarts + 1
    /\ \E n \in durableLength .. Len(file) :
         /\ file' \in {f \in [1 .. n -> UNION Range(kept)] : \A p \in 1 .. n : f[p] \in kept[p]}
         /\ tail' \in IF n < Len(file) THEN BOOLEAN ELSE {FALSE, tail}
    /\ Synced
    /\ UNCHANGED <<durable, retried, faults>>

Init ==
    /\ up = FALSE /\ locations = Nowhere
    /\ file = <<>> /\ tail = FALSE
    /\ kept = <<>> /\ durableLength = 0
    /\ durable = {} /\ failed = {} /\ retried = {}
    /\ faults = 0 /\ restarts = 0

Next ==
    \/ Open
    \/ OpenFails
    \/ \E d \in Documents : Insert(d)
    \/ \E d \in Documents : InsertAllocates(d)
    \/ \E d \in Documents : InsertFails(d)
    \/ \E d \in Documents : AllocationFails(d)
    \/ \E d \in Documents : AllocationMisplaced(d)
    \/ Shutdown
    \/ \E p \in Pages, i \in 1 .. PageSize : RemoveRecord(p, i)
    \/ Exit
    \/ Crash

Spec == Init /\ [][Next]_vars

-----------------------------------------------------------------------------
(* Properties *)

TypeOK ==
    /\ up \in BOOLEAN /\ tail \in BOOLEAN
    /\ locations \in [Ids -> {Absent} \cup (Pages \X Nat)]
    /\ \A p \in Pages : file[p] \in kept[p]
    /\ DOMAIN kept = Pages /\ Len(file) <= MaxPages
    /\ durableLength \in 0 .. Len(file)
    /\ durable \subseteq Documents /\ failed \subseteq Ids /\ retried \subseteq Ids
    /\ faults \in 0 .. MaxFaults /\ restarts \in 0 .. MaxRestarts

\* get returns the document that was inserted under the id, or reports that its
\* page cannot be read: the directory follows inserts into new, old and reused
\* slots, and is rebuilt the same at every open.  Whatever failed writes, exits and
\* crashes left, an id is stored twice, so that open reports a duplicate, only if an
\* insert of it failed and the same engine wrote it once more.
DirectoryFollowsPages ==
    /\ TypeOK
    /\ RepeatedIds \subseteq retried
    /\ \A id \in Ids : locations[id] # Absent =>
         LET p == locations[id][1]
             i == locations[id][2]
         IN  Readable(p) => i \in Live(Content(p)) /\ IdOf[Content(p)[i]] = id

\* A document that a successful shutdown found is there whenever the file opens
\* again: a later crash may spoil its page, but not lose it silently.
SyncedDocumentsReturn == up => \A d \in durable : locations[IdOf[d]] # Absent

\* A record that a page accepts leaves a page that can be written, and that is
\* read again as it was.  Not so the empty record, which no document is: a page
\* without room for another slot accepts it and cannot be written then.
AcceptedRecordsEncode ==
    \A p \in Pages, record \in {r \in Records : Length[r] > 0} :
        Readable(p) /\ Fits(Content(p), record) =>
            LET page == InsertRecord(Content(p), record) IN
              Encodable(page) /\ Valid(Encode(p, page)) /\ Decode(Encode(p, page)) = page
====
