---- MODULE BufferPool ----
(***************************************************************************)
(* The write-back page cache of crates/nova-buffer over a page file of     *)
(* crates/nova-storage/src/manager.rs.  The pool is owned by one caller    *)
(* (`&mut self`), so each public operation is one atomic action, with one  *)
(* action for each way it can fail.                                        *)
(*                                                                         *)
(* `last_used` is the clock of a frame's latest load; the clock moves on   *)
(* every load and eviction only compares its values.  So the order is all  *)
(* that matters, and `older` keeps it: the frames used before each frame.  *)
(* The counters of BufferStats are left out; no operation reads them.      *)
(***************************************************************************)
EXTENDS Integers, FiniteSets

CONSTANTS
    MaxPages,      \* bound: pages in the file
    Images,        \* page images
    Blank,         \* the empty page PageManager::allocate writes
    Garbled,       \* bytes Page::from_bytes rejects
    Capacity,      \* frames of the pool
    MaxPins,       \* bound: pins on one frame
    MaxFaults      \* bound: I/O errors

ASSUME CapacityAssumption == Capacity \in Nat \ {0}
ASSUME PoolBoundsAssumption == MaxPages \in Nat /\ MaxPins \in Nat /\ MaxFaults \in Nat
ASSUME PoolImagesAssumption ==
    Blank \notin Images /\ Garbled \notin Images /\ Blank # Garbled

VARIABLES
    open,          \* the pool exists
    count,         \* PageManager.page_count
    file,          \* what reading each page of the file gives
    ragged,        \* bytes of a failed allocation end the file
    cached,        \* the page ids with a frame
    image,         \* Frame.page of each cached page
    dirty,         \* the cached pages with Frame.dirty
    pins,          \* Frame.pins of each page
    older,         \* the cached pages last used before each cached page
    faults         \* history: I/O errors returned so far

fileVars == <<count, file, ragged>>
frameVars == <<cached, image, dirty, pins, older>>
vars == <<open, fileVars, frameVars, faults>>

PageIds == 0 .. MaxPages - 1

PageImages == Images \cup {Blank, Garbled}
-----------------------------------------------------------------------------
(* Making room *)

Full == Cardinality(cached) = Capacity

Evictable == {p \in cached : pins[p] = 0}

\* Every frame is pinned: evict_one returns InvalidState.
NoRoom == Full /\ Evictable = {}

\* evict_one picks the unpinned frame used least recently.
Victim == CHOOSE v \in Evictable : older[v] \cap Evictable = {}

\* The file once evict_one, if it runs, has written a dirty victim.
FileWithRoom ==
    IF Full /\ Victim \in dirty THEN [file EXCEPT ![Victim] = image[Victim]] ELSE file

\* MUTANT of Kept: the victim is written and not removed.
CrowdedKept == cached

\* The frames left once room is made.
Kept == IF Full THEN cached \ {Victim} ELSE cached

\* Frames of `kept` stay and p, unless it is among them, comes in clean: p ends
\* up with image img, and pinned `pinned` times more.
SetFrames(kept, p, img, pinned) ==
    /\ cached' = kept \cup {p}
    /\ image' = [q \in PageIds |->
                    IF q = p THEN img ELSE IF q \in kept THEN image[q] ELSE Blank]
    /\ pins' = [pins EXCEPT ![p] = @ + pinned]
    /\ older' = [q \in PageIds |->
                    IF q = p THEN kept \ {p}
                    ELSE IF q \in kept THEN (older[q] \cap kept) \ {p} ELSE {}]

\* Frames outside `kept` are gone.
KeepFrames(kept) ==
    /\ cached' = kept
    /\ image' = [q \in PageIds |-> IF q \in kept THEN image[q] ELSE Blank]
    /\ dirty' = dirty \cap kept
    /\ pins' = [q \in PageIds |-> IF q \in kept THEN pins[q] ELSE 0]
    /\ older' = [q \in PageIds |-> IF q \in kept THEN older[q] \cap kept ELSE {}]

IOError == faults < MaxFaults /\ faults' = faults + 1

\* A write of a frame that fails leaves the old page, one cut in the middle, or the
\* new one, where the bytes that did not get into the file are the old ones.
PartlyWritten(base, p) ==
    \E left \in {file[p], image[p], Garbled} : file' = [base EXCEPT ![p] = left]

\* evict_one, when writing the dirty victim fails: its frame is already removed.
EvictionFails ==
    /\ open /\ Full /\ ~NoRoom
    /\ Victim \in dirty
    /\ IOError
    /\ PartlyWritten(file, Victim)
    /\ KeepFrames(cached \ {Victim})
    /\ UNCHANGED <<open, count, ragged>>

-----------------------------------------------------------------------------
(* load, and the operations built on it *)

\* load finds p cached, or reads it after making room.
Load(p, img, marked, pinned) ==
    \/ /\ p \in cached
       /\ SetFrames(cached, p, img, pinned)
       /\ dirty' = dirty \cup marked
       /\ file' = file
    \/ /\ p \notin cached /\ p < count
       /\ ~NoRoom
       /\ FileWithRoom[p] # Garbled
       /\ SetFrames(Kept, p, img, pinned)
       /\ dirty' = (dirty \cap Kept) \cup marked
       /\ file' = FileWithRoom

LoadedImage(p) == IF p \in cached THEN image[p] ELSE FileWithRoom[p]

\* What callers see of each page.
Content == [p \in PageIds |-> IF p \in cached THEN image[p] ELSE file[p]]

Get(p) ==
    /\ open
    /\ Load(p, LoadedImage(p), {}, 0)
    /\ UNCHANGED <<open, count, ragged, faults>>

\* MUTANT of GetMut: the frame is not marked dirty.
UnmarkedGetMut(p, img) ==
    /\ open
    /\ Load(p, img, {}, 0)
    /\ UNCHANGED <<open, count, ragged, faults>>

\* get_mut marks the frame dirty and its caller leaves img in it.
GetMut(p, img) ==
    /\ open
    /\ Load(p, img, {p}, 0)
    /\ UNCHANGED <<open, count, ragged, faults>>

Pin(p) ==
    /\ open
    /\ pins[p] < MaxPins
    /\ Load(p, LoadedImage(p), {}, 1)
    /\ UNCHANGED <<open, count, ragged, faults>>

Unpin(p) ==
    /\ open
    /\ p \in cached /\ pins[p] > 0
    /\ pins' = [pins EXCEPT ![p] = @ - 1]
    /\ UNCHANGED <<open, fileVars, cached, image, dirty, older, faults>>

\* load, when the page is not allocated (NotFound) or does not decode
\* (Corruption): room has been made for it all the same.
LoadFails(p) ==
    /\ open
    /\ p \notin cached /\ ~NoRoom
    /\ p >= count \/ FileWithRoom[p] = Garbled
    /\ file' = FileWithRoom
    /\ KeepFrames(Kept)
    /\ UNCHANGED <<open, count, ragged, faults>>

\* MUTANT of Allocate: room is made by load alone, after the disk allocation,
\* and the new page takes no frame when every frame is pinned.
LateRoomAllocate ==
    /\ open /\ count \in PageIds /\ ~ragged
    /\ count' = count + 1
    /\ IF NoRoom
       THEN /\ file' = [file EXCEPT ![count] = Blank]
            /\ UNCHANGED frameVars
       ELSE /\ file' = [FileWithRoom EXCEPT ![count] = Blank]
            /\ SetFrames(Kept, count, Blank, 0)
            /\ dirty' = dirty \cap Kept
    /\ UNCHANGED <<open, ragged, faults>>

\* allocate: room is made, the file grows by a blank page, and it is loaded.
Allocate ==
    /\ open /\ count \in PageIds /\ ~ragged
    /\ ~NoRoom
    /\ count' = count + 1
    /\ file' = [FileWithRoom EXCEPT ![count] = Blank]
    /\ SetFrames(Kept, count, Blank, 0)
    /\ dirty' = dirty \cap Kept
    /\ UNCHANGED <<open, ragged, faults>>

\* allocate, when PageManager::allocate fails, perhaps after some bytes.
AllocateFails ==
    /\ open /\ count \in PageIds
    /\ ~NoRoom
    /\ IOError
    /\ ragged' \in {ragged, TRUE}
    /\ file' = FileWithRoom
    /\ KeepFrames(Kept)
    /\ UNCHANGED <<open, count>>

\* allocate on a file that ends with part of a page: the page counted does not
\* decode, and loading it returns Corruption.
AllocateMisplaced ==
    /\ open /\ count \in PageIds /\ ragged
    /\ ~NoRoom
    /\ IOError
    /\ count' = count + 1
    /\ file' = [FileWithRoom EXCEPT ![count] = Garbled]
    /\ KeepFrames(Kept)
    /\ UNCHANGED <<open, ragged>>

-----------------------------------------------------------------------------
(* Flushing and closing *)

FlushedFile(written) == [p \in PageIds |-> IF p \in written THEN image[p] ELSE file[p]]

\* MUTANT of FlushAll: the dirty flags of pinned frames are cleared unwritten.
PinShyFlushAll ==
    /\ open
    /\ file' = FlushedFile({p \in dirty : pins[p] = 0})
    /\ dirty' = {}
    /\ UNCHANGED <<open, count, ragged, cached, image, pins, older, faults>>

FlushAll ==
    /\ open
    /\ file' = FlushedFile(dirty)
    /\ dirty' = {}
    /\ UNCHANGED <<open, count, ragged, cached, image, pins, older, faults>>

\* flush_all stops at the first dirty page, in id order, it cannot write, or
\* cannot synchronize what it wrote.
FlushUpTo(written) ==
    \/ /\ written = dirty
       /\ file' = FlushedFile(dirty)
    \/ \E p \in dirty :
          /\ written = {q \in dirty : q < p}
          /\ PartlyWritten(FlushedFile(written), p)

FlushFails ==
    /\ open
    /\ IOError
    /\ \E written \in SUBSET dirty :
          FlushUpTo(written) /\ dirty' = dirty \ written
    /\ UNCHANGED <<open, count, ragged, cached, image, pins, older>>

\* shutdown flushes and consumes the pool, whether or not flushing succeeds.
Shutdown ==
    /\ open /\ open' = FALSE
    /\ file' = FlushedFile(dirty)
    /\ KeepFrames({})
    /\ UNCHANGED <<count, ragged, faults>>

ShutdownFails ==
    /\ open /\ open' = FALSE
    /\ IOError
    /\ \E written \in SUBSET dirty : FlushUpTo(written)
    /\ KeepFrames({})
    /\ UNCHANGED <<count, ragged>>

\* The pool is dropped, or its process ends, without shutdown.
Drop ==
    /\ open /\ open' = FALSE
    /\ KeepFrames({})
    /\ UNCHANGED <<fileVars, faults>>

\* PageManager::open rejects a file that ends with part of a page.
Open ==
    /\ ~open /\ open' = TRUE
    /\ ~ragged
    /\ UNCHANGED <<fileVars, frameVars, faults>>

Init ==
    /\ open = FALSE
    /\ count = 0 /\ ragged = FALSE
    /\ file = [p \in PageIds |-> Blank]
    /\ cached = {} /\ dirty = {}
    /\ older = [p \in PageIds |-> {}]
    /\ image = [p \in PageIds |-> Blank]
    /\ pins = [p \in PageIds |-> 0]
    /\ faults = 0

Next ==
    \/ Open
    \/ Allocate
    \/ AllocateFails
    \/ AllocateMisplaced
    \/ \E p \in PageIds : Get(p)
    \/ \E p \in PageIds, img \in Images \cup {Blank} : GetMut(p, img)
    \/ \E p \in PageIds : Pin(p)
    \/ \E p \in PageIds : Unpin(p)
    \/ \E p \in PageIds : LoadFails(p)
    \/ EvictionFails
    \/ FlushAll
    \/ FlushFails
    \/ Shutdown
    \/ ShutdownFails
    \/ Drop

Spec == Init /\ [][Next]_vars

-----------------------------------------------------------------------------
(* Properties *)

TypeOK ==
    /\ open \in BOOLEAN /\ ragged \in BOOLEAN
    /\ count \in Nat
    /\ file \in [PageIds -> PageImages]
    /\ cached \subseteq PageIds /\ dirty \subseteq cached
    /\ image \in [PageIds -> Images \cup {Blank}]
    /\ pins \in [PageIds -> 0 .. MaxPins]
    /\ older \in [PageIds -> SUBSET cached]
    /\ faults \in 0 .. MaxFaults

\* The pool never holds more frames than its capacity, and of any two frames one
\* was used before the other: evict_one makes room before every insertion, and
\* finds one victim.
WithinCapacity ==
    /\ TypeOK
    /\ Cardinality(cached) <= Capacity
    /\ \A p, q \in cached : p # q => (p \in older[q] <=> q \notin older[p])

\* A frame that is not dirty is the page of the file, also after flushes and
\* evictions that failed half way: what eviction drops unwritten is in the file.
CleanFramesAreStored == \A p \in cached \ dirty : image[p] = file[p]

\* A pinned frame is never taken for another page, and when every frame is
\* pinned, an operation that needs one fails before it allocates a disk page.
PinsAreRespected ==
    [][ /\ \A p \in PageIds : open' /\ p \in cached /\ pins[p] > 0 => p \in cached'
        /\ NoRoom => count' = count ]_vars

\* The pool implements the page store: callers see their own last write of each
\* page, through loads, evictions, flushes and reopening after a shutdown.
Store == INSTANCE PageStore WITH size <- count, content <- Content, stored <- file

ImplementsPageStore == Store!Spec
====
