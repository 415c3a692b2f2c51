---- MODULE SlottedPage ----
(***************************************************************************)
(* The slotted page of crates/nova-storage/src/page.rs: a vector of slots, *)
(* and the fixed-size image it is written as.  A record has an identity    *)
(* and a length; a byte of an image is the record it belongs to.  Magic,   *)
(* version, reserved bytes and checksum are left out: an image that any of *)
(* them rejects is Garbled.                                                *)
(***************************************************************************)
EXTENDS Naturals, Sequences, FiniteSets

CONSTANTS
    PageSize,      \* PAGE_SIZE
    HeaderSize,    \* PAGE_HEADER_SIZE
    SlotSize,      \* SLOT_SIZE
    Records,       \* opaque records
    Length,        \* the length of each
    Deleted,       \* a slot whose record was removed
    Garbled        \* bytes that are not an image

ASSUME PageAssumption ==
    /\ PageSize \in Nat /\ HeaderSize \in Nat /\ SlotSize \in Nat
    /\ SlotSize > 0 /\ HeaderSize + SlotSize <= PageSize
    /\ Length \in [Records -> Nat]
    /\ Deleted \notin Records

\* There is one record without bytes, and an entry of the directory tells a deleted
\* slot from any other.
ASSUME RecordAssumption ==
    /\ \A r, s \in Records : Length[r] = 0 /\ Length[s] = 0 => r = s
    /\ \A offset, length \in 0 .. PageSize : Deleted # [offset |-> offset, length |-> length]

EmptyPage == <<>>

Live(page) == {i \in DOMAIN page : page[i] # Deleted}
SlotLength(slot) == IF slot = Deleted THEN 0 ELSE Length[slot]

\* The bytes of the records in the first n slots.
PayloadUpTo(page, n) ==
    LET sum[k \in 0 .. Len(page)] == IF k = 0 THEN 0 ELSE sum[k - 1] + SlotLength(page[k])
    IN  sum[n]

SaturatingSub(a, b) == IF a > b THEN a - b ELSE 0

\* MUTANT of FreeSpace: the directory entry of a new slot is not counted.
EntrylessFreeSpace(page) ==
    SaturatingSub(PageSize, HeaderSize + Len(page) * SlotSize + PayloadUpTo(page, Len(page)))

\* free_space: what a record may take beside the slot it may need.
FreeSpace(page) ==
    LET left == SaturatingSub(PageSize,
                    HeaderSize + Len(page) * SlotSize + PayloadUpTo(page, Len(page)))
    IN  SaturatingSub(left, IF Live(page) # DOMAIN page THEN 0 ELSE SlotSize)

Fits(page, record) == Length[record] <= FreeSpace(page)

\* The first deleted slot, or a new one.
SlotFor(page) ==
    IF Live(page) = DOMAIN page THEN Len(page) + 1
    ELSE CHOOSE i \in DOMAIN page \ Live(page) : \A j \in DOMAIN page \ Live(page) : i <= j

\* Page::insert, for a record that fits.
InsertRecord(page, record) ==
    LET i == SlotFor(page) IN
      IF i \in DOMAIN page THEN [page EXCEPT ![i] = record] ELSE Append(page, record)

-----------------------------------------------------------------------------
(* Images *)

FreeStart(page) == HeaderSize + Len(page) * SlotSize
PayloadStart(page, n) == PageSize - PayloadUpTo(page, n)

\* to_bytes reports an error on any other page.
Encodable(page) ==
    /\ FreeStart(page) <= PageSize
    /\ Live(page) # {} => PayloadUpTo(page, Len(page)) + FreeStart(page) <= PageSize

\* to_bytes: records from the end of the page down, in the order of their slots.
Encode(id, page) ==
    [id |-> id,
     live |-> Cardinality(Live(page)),
     freeStart |-> FreeStart(page),
     freeEnd |-> PayloadStart(page, Len(page)),
     directory |->
        [i \in DOMAIN page |->
            IF page[i] = Deleted THEN Deleted
            ELSE [offset |-> PayloadStart(page, i), length |-> Length[page[i]]]],
     payload |->
        [at \in PayloadStart(page, Len(page)) .. PageSize - 1 |->
            page[CHOOSE i \in Live(page) :
                    PayloadStart(page, i) <= at /\ at < PayloadStart(page, i - 1)]]]

Covered(entry) == entry.offset .. entry.offset + entry.length - 1

\* The checks of from_bytes on counts, bounds, overlaps and gaps.
Valid(image) ==
    LET used == {i \in DOMAIN image.directory : image.directory[i] # Deleted} IN
      /\ image.freeStart = HeaderSize + Len(image.directory) * SlotSize
      /\ image.freeStart <= image.freeEnd /\ image.freeEnd <= PageSize
      /\ Cardinality(used) = image.live
      /\ \A i \in used : Covered(image.directory[i]) \subseteq image.freeEnd .. PageSize - 1
      /\ \A i, j \in used :
            i # j => Covered(image.directory[i]) \cap Covered(image.directory[j]) = {}
      /\ UNION {Covered(image.directory[i]) : i \in used} = image.freeEnd .. PageSize - 1

\* The record that a range of bytes is, all of them and no more.
RecordAt(image, entry) ==
    CHOOSE record \in Records :
        /\ Length[record] = entry.length
        /\ \A at \in Covered(entry) : image.payload[at] = record

\* from_bytes, of an image that is valid.
Decode(image) ==
    [i \in DOMAIN image.directory |->
        IF image.directory[i] = Deleted THEN Deleted
        ELSE RecordAt(image, image.directory[i])]

\* PageManager::read: the image is one, and of this page.
Reads(image, id) == image # Garbled /\ image.id = id /\ Valid(image)
====
