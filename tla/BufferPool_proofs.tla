---- MODULE BufferPool_proofs ----
(***************************************************************************)
(* Proofs about BufferPool for any number of pages and faults, any         *)
(* capacity and any set of images: the pool stays within its capacity,     *)
(* what it drops is stored, pins are respected, and it implements the page *)
(* store.                                                                  *)
(***************************************************************************)
EXTENDS BufferPool, FiniteSetTheorems, WellFoundedInduction, TLAPS

-----------------------------------------------------------------------------
(* The invariant *)

\* The frames are ordered by use: a strict, total order.
OrderInv ==
    /\ \A p \in cached : p \notin older[p]
    /\ \A p \in cached : \A q \in older[p] : older[q] \subseteq older[p]
    /\ \A p, q \in cached : p # q => (p \in older[q] <=> q \notin older[p])

CapacityInv == Cardinality(cached) <= Capacity

\* Only pages of the file have frames, and a pool that is gone has none.
AllocatedInv ==
    /\ \A p \in cached : p < count
    /\ ~open => cached = {}

\* The inductive invariant.
IndInv == TypeOK /\ OrderInv /\ CapacityInv /\ CleanFramesAreStored /\ AllocatedInv

\* Sets of pages are finite, for there are at most MaxPages of them.
LEMMA FiniteFrames ==
    ASSUME NEW S \in SUBSET PageIds
    PROVE  IsFiniteSet(S) /\ Cardinality(S) \in Nat
<1>1. IsFiniteSet(PageIds)
  <2>1. 0 \in Int /\ MaxPages - 1 \in Int
    BY PoolBoundsAssumption
  <2> QED
    BY <2>1, FS_Interval DEF PageIds
<1> QED
  BY <1>1, FS_Subset, FS_CardinalityType

-----------------------------------------------------------------------------
(* Making room *)

\* evict_one finds a victim whenever a frame is unpinned.  Among the unpinned
\* frames take one with the fewest older ones: an unpinned frame among these
\* would have fewer still.
LEMMA VictimExists ==
    ASSUME TypeOK, OrderInv, Evictable # {}
    PROVE  Victim \in Evictable
<1> DEFINE Olders == {older[v] : v \in Evictable}
<1>1. Evictable \subseteq cached /\ Evictable \subseteq PageIds
  BY DEF TypeOK, Evictable
<1>2. IsWellFoundedOn(StrictSubsetOrdering(PageIds), FiniteSubsetsOf(PageIds))
  BY FS_StrictSubsetOrderingWellFounded
<1>3. \A v \in Evictable : older[v] \subseteq PageIds
  BY <1>1 DEF TypeOK
<1>4. Olders \subseteq FiniteSubsetsOf(PageIds) /\ Olders # {}
  BY <1>3, FiniteFrames DEF FiniteSubsetsOf
<1>5. PICK x \in Olders : \A y \in Olders : ~ (<<y, x>> \in StrictSubsetOrdering(PageIds))
  BY <1>2, <1>4, WFMin
<1>6. PICK v \in Evictable : x = older[v]
  BY <1>5
<1>7. ASSUME NEW w \in older[v] \cap Evictable
      PROVE  FALSE
  <2>1. older[w] \subseteq older[v] /\ w \notin older[w] /\ w \in older[v]
    BY <1>1, <1>7 DEF OrderInv
  <2>2. <<older[w], older[v]>> \in StrictSubsetOrdering(PageIds)
    BY <1>3, <1>7, <2>1 DEF StrictSubsetOrdering
  <2> QED
    BY <1>5, <1>6, <1>7, <2>2
<1>8. older[v] \cap Evictable = {}
  BY <1>7
<1> QED
  BY <1>8 DEF Victim

\* Room(kept, written) sums up what is left once room is made: the frames `kept`,
\* fewer than the capacity, and the file `written`, in which a page without a
\* frame is as callers saw it.
Room(kept, written) ==
    /\ kept \subseteq cached
    /\ \A q \in cached : pins[q] > 0 => q \in kept
    /\ Cardinality(kept) < Capacity
    /\ written \in [PageIds -> PageImages]
    /\ \A q \in PageIds : written[q] \in {file[q], Content[q]}
    /\ \A q \in PageIds \ kept : written[q] = Content[q]
    /\ \A q \in kept \ dirty : written[q] = image[q]

LEMMA MakingRoom ==
    ASSUME IndInv, ~NoRoom
    PROVE  Room(Kept, FileWithRoom)
<1> USE DEF IndInv
<1>1. CASE Full
  <2>1. Victim \in Evictable
    BY <1>1, VictimExists DEF NoRoom
  <2>2. Victim \in cached /\ pins[Victim] = 0 /\ Victim \in PageIds
    BY <2>1 DEF Evictable, TypeOK
  <2>3. Kept = cached \ {Victim}
    BY <1>1 DEF Kept
  <2>4. Cardinality(Kept) < Capacity
    BY <1>1, <2>2, <2>3, FiniteFrames, FS_RemoveElement, CapacityAssumption DEF Full, TypeOK
  <2>5. /\ FileWithRoom \in [PageIds -> PageImages]
        /\ \A q \in PageIds : q # Victim => FileWithRoom[q] = file[q]
        /\ FileWithRoom[Victim] = image[Victim]
    BY <1>1, <2>2 DEF FileWithRoom, TypeOK, PageImages, CleanFramesAreStored
  <2> QED
    BY <2>2, <2>3, <2>4, <2>5 DEF Room, Content, TypeOK, CleanFramesAreStored
<1>2. CASE ~Full
  <2>1. Kept = cached /\ FileWithRoom = file
    BY <1>2 DEF Kept, FileWithRoom
  <2>2. Cardinality(cached) < Capacity
    BY <1>2, FiniteFrames, CapacityAssumption DEF Full, CapacityInv, TypeOK
  <2> QED
    BY <2>1, <2>2 DEF Room, Content, TypeOK, CleanFramesAreStored
<1> QED
  BY <1>1, <1>2

-----------------------------------------------------------------------------
(* Loading and dropping frames *)

\* Frames that stay keep their order, also when another one becomes the newest.
LEMMA KeptOrder ==
    ASSUME TypeOK, OrderInv, NEW kept, kept \subseteq cached, KeepFrames(kept)
    PROVE  OrderInv'
<1>1. kept \subseteq PageIds
  BY DEF TypeOK
<1>2. cached' = kept /\ \A q \in kept : older'[q] = older[q] \cap kept
  BY <1>1 DEF KeepFrames
<1> QED
  BY <1>2 DEF OrderInv

LEMMA NewestOrder ==
    ASSUME TypeOK, OrderInv, NEW kept, kept \subseteq cached, NEW p \in PageIds,
           NEW img, NEW pinned, SetFrames(kept, p, img, pinned)
    PROVE  OrderInv'
<1>1. kept \subseteq PageIds
  BY DEF TypeOK
<1>2. /\ cached' = kept \cup {p}
      /\ older'[p] = kept \ {p}
      /\ \A q \in kept \ {p} : older'[q] = (older[q] \cap kept) \ {p}
  BY <1>1 DEF SetFrames
<1>3. \A q \in cached' : q \notin older'[q]
  BY <1>2 DEF OrderInv
<1>4. \A q \in cached' : \A r \in older'[q] : older'[r] \subseteq older'[q]
  BY <1>2 DEF OrderInv
<1>5. \A q, r \in cached' : q # r => (q \in older'[r] <=> r \notin older'[q])
  BY <1>2 DEF OrderInv
<1> QED
  BY <1>3, <1>4, <1>5 DEF OrderInv

\* Whatever drops frames and keeps the file's copies of clean ones is safe.
LEMMA DroppingFrames ==
    ASSUME IndInv, NEW kept, kept \subseteq cached, KeepFrames(kept),
           file' \in [PageIds -> PageImages],
           \A q \in kept \ dirty : file'[q] = image[q],
           count' \in Nat, count' >= count,
           open' \in BOOLEAN, ~open' => kept = {},
           ragged' \in BOOLEAN, faults' \in 0 .. MaxFaults
    PROVE  IndInv'
<1> USE DEF IndInv
<1>1. TypeOK'
  <2>1. older' \in [PageIds -> SUBSET cached']
    BY DEF TypeOK, KeepFrames
  <2>2. /\ image' \in [PageIds -> Images \cup {Blank}]
        /\ pins' \in [PageIds -> 0 .. MaxPins]
        /\ cached' \subseteq PageIds /\ dirty' \subseteq cached'
    BY PoolBoundsAssumption DEF TypeOK, KeepFrames
  <2> QED
    BY <2>1, <2>2 DEF TypeOK
<1>2. OrderInv'
  BY KeptOrder
<1>3. CapacityInv'
  <2>1. kept \in SUBSET cached /\ cached \in SUBSET PageIds /\ cached' = kept
    BY DEF TypeOK, KeepFrames
  <2> QED
    BY <2>1, FiniteFrames, FS_Subset, CapacityAssumption DEF CapacityInv
<1>4. CleanFramesAreStored'
  BY DEF TypeOK, KeepFrames, CleanFramesAreStored
<1>5. AllocatedInv'
  BY PoolBoundsAssumption DEF TypeOK, KeepFrames, AllocatedInv, PageIds
<1> QED
  BY <1>1, <1>2, <1>3, <1>4, <1>5

\* A page takes a frame: its own, or one there is room for.
LEMMA TakingAFrame ==
    ASSUME IndInv, open, open' = open, ragged' = ragged, faults' = faults,
           NEW kept, kept \subseteq cached, NEW p \in PageIds,
           p \in kept \/ Cardinality(kept) < Capacity,
           NEW img \in Images \cup {Blank}, NEW pinned \in {0, 1}, pins[p] + pinned <= MaxPins,
           SetFrames(kept, p, img, pinned),
           NEW marked \in SUBSET {p}, dirty' = (dirty \cap kept) \cup marked,
           file' \in [PageIds -> PageImages],
           \A q \in kept \ (dirty \cup {p}) : file'[q] = image[q],
           p \in dirty \cap kept \/ marked = {p} \/ file'[p] = img,
           count' \in Nat, count' >= count, p < count'
    PROVE  IndInv'
<1> USE DEF IndInv
<1>1. TypeOK'
  <2>1. older' \in [PageIds -> SUBSET cached']
    BY DEF TypeOK, SetFrames
  <2>2. /\ image' \in [PageIds -> Images \cup {Blank}]
        /\ pins' \in [PageIds -> 0 .. MaxPins]
        /\ cached' \subseteq PageIds /\ dirty' \subseteq cached'
    BY PoolBoundsAssumption DEF TypeOK, SetFrames
  <2> QED
    BY <2>1, <2>2 DEF TypeOK
<1>2. OrderInv'
  BY NewestOrder
<1>3. CapacityInv'
  <2>1. kept \in SUBSET cached /\ cached \in SUBSET PageIds /\ cached' = kept \cup {p}
    BY DEF TypeOK, SetFrames
  <2>2. CASE p \in kept
    BY <2>1, <2>2, FiniteFrames, FS_Subset, CapacityAssumption DEF CapacityInv
  <2>3. CASE p \notin kept
    BY <2>1, <2>3, FiniteFrames, FS_AddElement, CapacityAssumption DEF CapacityInv
  <2> QED
    BY <2>2, <2>3
<1>4. CleanFramesAreStored'
  BY DEF TypeOK, SetFrames, CleanFramesAreStored
<1>5. AllocatedInv'
  BY PoolBoundsAssumption DEF TypeOK, SetFrames, AllocatedInv, PageIds
<1> QED
  BY <1>1, <1>2, <1>3, <1>4, <1>5

-----------------------------------------------------------------------------
(* One step of each operation *)

\* load succeeds only on a page of the file, and gives what callers saw of it.
LEMMA LoadedPage ==
    ASSUME IndInv, NEW p \in PageIds, NEW img, NEW marked, NEW pinned,
           Load(p, img, marked, pinned)
    PROVE  /\ p < count
           /\ LoadedImage(p) = Content[p]
           /\ LoadedImage(p) \in Images \cup {Blank}
<1>1. CASE p \in cached
  BY <1>1 DEF IndInv, TypeOK, AllocatedInv, LoadedImage, Content
<1>2. CASE p \notin cached
  <2>1. p < count /\ ~NoRoom /\ FileWithRoom[p] # Garbled
    BY <1>2 DEF Load
  <2>2. /\ FileWithRoom \in [PageIds -> PageImages]
        /\ FileWithRoom[p] = Content[p]
    BY <1>2, <2>1, MakingRoom DEF Room
  <2> QED
    BY <1>2, <2>1, <2>2 DEF LoadedImage, PageImages
<1> QED
  BY <1>1, <1>2

\* get, get_mut and pin.
LEMMA LoadStep ==
    ASSUME IndInv, open, NEW p \in PageIds, NEW img \in Images \cup {Blank},
           NEW marked \in {{}, {p}}, marked = {} => img = LoadedImage(p),
           NEW pinned \in {0, 1}, pins[p] + pinned <= MaxPins,
           Load(p, img, marked, pinned), UNCHANGED <<open, count, ragged, faults>>
    PROVE  IndInv'
<1>1. p < count
  BY LoadedPage
<1>2. CASE p \in cached
  <2>1. /\ SetFrames(cached, p, img, pinned)
        /\ dirty' = dirty \cup marked /\ file' = file
    BY <1>2 DEF Load
  <2>2. dirty' = (dirty \cap cached) \cup marked
    BY <2>1 DEF IndInv, TypeOK
  <2>3. p \in dirty \cap cached \/ marked = {p} \/ file'[p] = img
    BY <1>2, <2>1 DEF IndInv, CleanFramesAreStored, LoadedImage
  <2>4. \A q \in cached \ (dirty \cup {p}) : file'[q] = image[q]
    BY <2>1 DEF IndInv, CleanFramesAreStored
  <2>5. file' \in [PageIds -> PageImages] /\ count' \in Nat /\ count' >= count
    BY <2>1 DEF IndInv, TypeOK
  <2>6. /\ marked \in SUBSET {p} /\ cached \subseteq cached /\ p < count'
        /\ SetFrames(cached, p, img, pinned)
        /\ open' = open /\ ragged' = ragged /\ faults' = faults
    BY <1>1, <2>1
  <2> QED
    BY <1>2, <2>2, <2>3, <2>4, <2>5, <2>6, TakingAFrame
<1>3. CASE p \notin cached
  <2>1. /\ ~NoRoom
        /\ SetFrames(Kept, p, img, pinned)
        /\ dirty' = (dirty \cap Kept) \cup marked /\ file' = FileWithRoom
    BY <1>3 DEF Load
  <2>2. Room(Kept, FileWithRoom)
    BY <2>1, MakingRoom
  <2>3. p \in dirty \cap Kept \/ marked = {p} \/ file'[p] = img
    BY <1>3, <2>1 DEF LoadedImage
  <2>4. \A q \in Kept \ (dirty \cup {p}) : file'[q] = image[q]
    BY <2>1, <2>2 DEF Room
  <2>5. file' \in [PageIds -> PageImages] /\ count' \in Nat /\ count' >= count
    BY <2>1, <2>2 DEF IndInv, TypeOK, Room
  <2>6. marked \in SUBSET {p} /\ Kept \subseteq cached /\ Cardinality(Kept) < Capacity
    BY <2>2 DEF Room
  <2> QED
    BY <1>1, <2>1, <2>3, <2>4, <2>5, <2>6, TakingAFrame
<1> QED
  BY <1>2, <1>3

\* allocate, with a frame for the new page.
LEMMA AllocateStep ==
    ASSUME IndInv, Allocate
    PROVE  IndInv'
<1>1. Room(Kept, FileWithRoom)
  BY MakingRoom DEF Allocate
<1>2. /\ open /\ count \in PageIds /\ count \notin cached
      /\ SetFrames(Kept, count, Blank, 0)
      /\ open' = open /\ ragged' = ragged /\ faults' = faults
  BY DEF Allocate, IndInv, AllocatedInv, TypeOK
<1>3. dirty' = (dirty \cap Kept) \cup {}
  BY DEF Allocate
<1>4. /\ file' \in [PageIds -> PageImages]
      /\ file'[count] = Blank
      /\ \A q \in Kept \ (dirty \cup {count}) : file'[q] = image[q]
  BY <1>1, <1>2 DEF Allocate, Room, PageImages, IndInv, TypeOK
<1>5. count' \in Nat /\ count' >= count /\ count < count' /\ pins[count] + 0 <= MaxPins
  BY <1>2, PoolBoundsAssumption DEF Allocate, IndInv, TypeOK
<1>6. Kept \subseteq cached /\ Cardinality(Kept) < Capacity
  BY <1>1 DEF Room
<1>7. {} \in SUBSET {count} /\ 0 \in {0, 1} /\ Blank \in Images \cup {Blank}
  OBVIOUS
<1>8. count \in dirty \cap Kept \/ {} = {count} \/ file'[count] = Blank
  BY <1>4
<1> QED
  BY <1>2, <1>3, <1>4, <1>5, <1>6, <1>7, <1>8, TakingAFrame

\* Flushing `written`: what it writes is the frames' images, and at most one
\* dirty page, which stays dirty, is cut or written.
LEMMA Flushing ==
    ASSUME IndInv, NEW written \in SUBSET dirty, FlushUpTo(written)
    PROVE  /\ file' \in [PageIds -> PageImages]
           /\ \A q \in PageIds \ cached : file'[q] = file[q]
           /\ \A q \in written \cup (cached \ dirty) : file'[q] = image[q]
           /\ \E harmed \in {{}} \cup {{p} : p \in dirty} :
                 \A q \in PageIds \ harmed : file'[q] \in {file[q], Content[q]}
<1> USE DEF IndInv
<1>1. /\ FlushedFile(written) \in [PageIds -> PageImages]
      /\ dirty \subseteq cached /\ cached \subseteq PageIds
      /\ \A q \in written : FlushedFile(written)[q] = image[q]
      /\ \A q \in PageIds \ written : FlushedFile(written)[q] = file[q]
      /\ \A q \in cached \ dirty : file[q] = image[q]
  BY DEF TypeOK, FlushedFile, PageImages, CleanFramesAreStored
<1>2. CASE file' = FlushedFile(written)
  <2>1. \A q \in PageIds : file'[q] \in {file[q], Content[q]}
    BY <1>1, <1>2 DEF Content
  <2> QED
    BY <1>1, <1>2, <2>1
<1>3. ASSUME NEW p \in dirty, written = {q \in dirty : q < p},
             NEW left \in {file[p], image[p], Garbled},
             file' = [FlushedFile(written) EXCEPT ![p] = left]
      PROVE  /\ file' \in [PageIds -> PageImages]
             /\ \A q \in PageIds \ cached : file'[q] = file[q]
             /\ \A q \in written \cup (cached \ dirty) : file'[q] = image[q]
             /\ \A q \in PageIds \ {p} : file'[q] \in {file[q], Content[q]}
  <2>1. p \notin written
    BY <1>1, <1>3, PoolBoundsAssumption DEF PageIds
  <2>2. \A q \in PageIds \ {p} : file'[q] = FlushedFile(written)[q]
    BY <1>1, <1>3
  <2>3. left \in PageImages
    BY <1>1, <1>3 DEF TypeOK, PageImages
  <2>4. file' \in [PageIds -> PageImages]
    BY <1>1, <1>3, <2>3
  <2> QED
    BY <1>1, <2>1, <2>2, <2>4 DEF Content
<1>4. CASE \E p \in dirty :
               /\ written = {q \in dirty : q < p}
               /\ PartlyWritten(FlushedFile(written), p)
  <2>1. PICK p \in dirty :
               /\ written = {q \in dirty : q < p}
               /\ PartlyWritten(FlushedFile(written), p)
    BY <1>4
  <2>2. PICK left \in {file[p], image[p], Garbled} : file' = [FlushedFile(written) EXCEPT ![p] = left]
    BY <2>1 DEF PartlyWritten
  <2>3. /\ file' \in [PageIds -> PageImages]
        /\ \A q \in PageIds \ cached : file'[q] = file[q]
        /\ \A q \in written \cup (cached \ dirty) : file'[q] = image[q]
        /\ \A q \in PageIds \ {p} : file'[q] \in {file[q], Content[q]}
    BY ONLY <1>3, <2>1, <2>2
  <2>4. {p} \in {{}} \cup {{q} : q \in dirty}
    BY <2>1
  <2> QED
    BY ONLY <2>3, <2>4
<1>5. \/ file' = FlushedFile(written)
      \/ \E p \in dirty :
               /\ written = {q \in dirty : q < p}
               /\ PartlyWritten(FlushedFile(written), p)
  BY DEF FlushUpTo
<1> QED
  BY <1>2, <1>4, <1>5

\* flush_all, complete or not, leaves the frames as they are.
LEMMA FlushStep ==
    ASSUME IndInv, open, NEW written \in SUBSET dirty, FlushUpTo(written),
           dirty' = dirty \ written, faults' \in 0 .. MaxFaults,
           UNCHANGED <<open, count, ragged, cached, image, pins, older>>
    PROVE  IndInv'
<1>1. TypeOK'
  BY Flushing DEF IndInv, TypeOK
<1>2. OrderInv' /\ CapacityInv' /\ AllocatedInv'
  BY DEF IndInv, OrderInv, CapacityInv, AllocatedInv
<1>3. CleanFramesAreStored'
  BY Flushing DEF IndInv, CleanFramesAreStored
<1> QED
  BY <1>1, <1>2, <1>3 DEF IndInv

\* One more error is within the bound.
LEMMA OneMoreFault ==
    ASSUME TypeOK, IOError
    PROVE  faults' \in 0 .. MaxFaults /\ faults' = faults + 1
BY PoolBoundsAssumption DEF TypeOK, IOError

LEMMA CompleteFlush ==
    ASSUME file' = FlushedFile(dirty)
    PROVE  FlushUpTo(dirty)
BY DEF FlushUpTo

LEMMA InitIndInv == Init => IndInv
<1> SUFFICES ASSUME Init PROVE IndInv
  OBVIOUS
<1>1. TypeOK
  <2>1. 0 \in 0 .. MaxPins /\ 0 \in 0 .. MaxFaults /\ 0 \in Nat
    BY PoolBoundsAssumption
  <2>2. older \in [PageIds -> SUBSET cached]
    BY DEF Init
  <2> QED
    BY <2>1, <2>2 DEF Init, TypeOK, PageImages
<1>2. CapacityInv
  BY FS_EmptySet, CapacityAssumption DEF Init, CapacityInv
<1> QED
  BY <1>1, <1>2 DEF IndInv, Init, OrderInv, CleanFramesAreStored, AllocatedInv

LEMMA StepIndInv == IndInv /\ [Next]_vars => IndInv'
<1> SUFFICES ASSUME IndInv, [Next]_vars PROVE IndInv'
  OBVIOUS
<1>1. CASE Open
  BY <1>1 DEF Open, IndInv, TypeOK, OrderInv, CapacityInv, CleanFramesAreStored, AllocatedInv,
              fileVars, frameVars
<1>2. CASE Allocate
  BY <1>2, AllocateStep
<1>3. CASE AllocateFails
  <2>1. Room(Kept, FileWithRoom)
    BY <1>3, MakingRoom DEF AllocateFails
  <2>2. /\ Kept \subseteq cached /\ FileWithRoom \in [PageIds -> PageImages]
        /\ \A q \in Kept \ dirty : FileWithRoom[q] = image[q]
    BY <2>1 DEF Room
  <2>3. faults' \in 0 .. MaxFaults
    BY <1>3, OneMoreFault DEF AllocateFails, IndInv
  <2>4. /\ file' = FileWithRoom /\ KeepFrames(Kept)
        /\ open /\ UNCHANGED <<open, count>>
        /\ ragged' = ragged \/ ragged' = TRUE
    BY <1>3 DEF AllocateFails
  <2>5. ragged' \in BOOLEAN /\ open' \in BOOLEAN /\ open'
    BY <2>4 DEF IndInv, TypeOK
  <2>6. count' \in Nat /\ count' >= count
    BY <2>4 DEF IndInv, TypeOK
  <2> QED
    BY <2>2, <2>3, <2>4, <2>5, <2>6, DroppingFrames
<1>4. CASE AllocateMisplaced
  <2>1. Room(Kept, FileWithRoom)
    BY <1>4, MakingRoom DEF AllocateMisplaced
  <2>2. count \in PageIds /\ count \notin Kept /\ count \in Nat
    BY <1>4, <2>1 DEF AllocateMisplaced, Room, IndInv, TypeOK, AllocatedInv
  <2>3. file' \in [PageIds -> PageImages] /\ \A q \in Kept \ dirty : file'[q] = image[q]
    BY <1>4, <2>1, <2>2 DEF AllocateMisplaced, Room, PageImages, IndInv, TypeOK
  <2>4. faults' \in 0 .. MaxFaults
    BY <1>4, OneMoreFault DEF AllocateMisplaced, IndInv
  <2>5. /\ Kept \subseteq cached /\ KeepFrames(Kept)
        /\ count' \in Nat /\ count' >= count
        /\ open' \in BOOLEAN /\ open' /\ ragged' \in BOOLEAN
    BY <1>4, <2>1, <2>2 DEF AllocateMisplaced, Room, IndInv, TypeOK
  <2> QED
    BY <2>3, <2>4, <2>5, DroppingFrames
<1>5. ASSUME NEW p \in PageIds, Get(p)
      PROVE  IndInv'
  <2>1. /\ open /\ UNCHANGED <<open, count, ragged, faults>>
        /\ Load(p, LoadedImage(p), {}, 0)
    BY <1>5 DEF Get
  <2>2. LoadedImage(p) \in Images \cup {Blank}
    BY <2>1, LoadedPage
  <2>3. pins[p] + 0 <= MaxPins /\ 0 \in {0, 1} /\ {} \in {{}, {p}}
    BY PoolBoundsAssumption DEF IndInv, TypeOK
  <2> QED
    BY <2>1, <2>2, <2>3, LoadStep
<1>6. ASSUME NEW p \in PageIds, NEW img \in Images \cup {Blank}, GetMut(p, img)
      PROVE  IndInv'
  <2>1. /\ open /\ UNCHANGED <<open, count, ragged, faults>>
        /\ Load(p, img, {p}, 0)
    BY <1>6 DEF GetMut
  <2>2. pins[p] + 0 <= MaxPins /\ 0 \in {0, 1} /\ {p} \in {{}, {p}} /\ {p} # {}
    BY PoolBoundsAssumption DEF IndInv, TypeOK
  <2> QED
    BY <2>1, <2>2, LoadStep
<1>7. ASSUME NEW p \in PageIds, Pin(p)
      PROVE  IndInv'
  <2>1. /\ open /\ UNCHANGED <<open, count, ragged, faults>>
        /\ Load(p, LoadedImage(p), {}, 1)
    BY <1>7 DEF Pin
  <2>2. LoadedImage(p) \in Images \cup {Blank}
    BY <2>1, LoadedPage
  <2>3. pins[p] + 1 <= MaxPins /\ 1 \in {0, 1} /\ {} \in {{}, {p}}
    BY <1>7, PoolBoundsAssumption DEF Pin, IndInv, TypeOK
  <2> QED
    BY <2>1, <2>2, <2>3, LoadStep
<1>8. ASSUME NEW p \in PageIds, Unpin(p)
      PROVE  IndInv'
  <2>1. pins' \in [PageIds -> 0 .. MaxPins]
    BY <1>8, PoolBoundsAssumption DEF Unpin, IndInv, TypeOK
  <2> QED
    BY <1>8, <2>1 DEF Unpin, IndInv, TypeOK, OrderInv, CapacityInv, CleanFramesAreStored,
                      AllocatedInv, fileVars
<1>9. ASSUME NEW p \in PageIds, LoadFails(p)
      PROVE  IndInv'
  <2>1. Room(Kept, FileWithRoom)
    BY <1>9, MakingRoom DEF LoadFails
  <2>2. /\ Kept \subseteq cached /\ FileWithRoom \in [PageIds -> PageImages]
        /\ \A q \in Kept \ dirty : FileWithRoom[q] = image[q]
    BY <2>1 DEF Room
  <2>3. /\ file' = FileWithRoom /\ KeepFrames(Kept)
        /\ open /\ UNCHANGED <<open, count, ragged, faults>>
    BY <1>9 DEF LoadFails
  <2>4. /\ open' \in BOOLEAN /\ open' /\ ragged' \in BOOLEAN
        /\ count' \in Nat /\ count' >= count /\ faults' \in 0 .. MaxFaults
    BY <2>3 DEF IndInv, TypeOK
  <2> QED
    BY <2>2, <2>3, <2>4, DroppingFrames
<1>10. CASE EvictionFails
  <2>1. Victim \in dirty /\ dirty \subseteq cached /\ cached \subseteq PageIds
    BY <1>10 DEF EvictionFails, IndInv, TypeOK
  <2>2. /\ file' \in [PageIds -> PageImages]
        /\ \A q \in cached \ dirty : file'[q] = image[q]
    <3>1. PICK left \in {file[Victim], image[Victim], Garbled} : file' = [file EXCEPT ![Victim] = left]
      BY <1>10 DEF EvictionFails, PartlyWritten
    <3>2. left \in PageImages
      BY <2>1 DEF IndInv, TypeOK, PageImages
    <3> QED
      BY <2>1, <3>1, <3>2 DEF IndInv, TypeOK, CleanFramesAreStored
  <2>3. faults' \in 0 .. MaxFaults
    BY <1>10, OneMoreFault DEF EvictionFails, IndInv
  <2>4. /\ cached \ {Victim} \subseteq cached /\ KeepFrames(cached \ {Victim})
        /\ count' \in Nat /\ count' >= count
        /\ open' \in BOOLEAN /\ open' /\ ragged' \in BOOLEAN
    BY <1>10 DEF EvictionFails, IndInv, TypeOK
  <2> QED
    BY <2>2, <2>3, <2>4, DroppingFrames
<1>11. CASE FlushAll
  <2>1. FlushUpTo(dirty) /\ dirty' = dirty \ dirty /\ dirty \in SUBSET dirty
    BY <1>11, CompleteFlush DEF FlushAll
  <2>2. open /\ UNCHANGED <<open, count, ragged, cached, image, pins, older>>
    BY <1>11 DEF FlushAll
  <2>3. faults' \in 0 .. MaxFaults
    BY <1>11 DEF FlushAll, IndInv, TypeOK
  <2> QED
    BY <2>1, <2>2, <2>3, FlushStep
<1>12. CASE FlushFails
  <2>1. PICK written \in SUBSET dirty : FlushUpTo(written) /\ dirty' = dirty \ written
    BY <1>12 DEF FlushFails
  <2>2. open /\ UNCHANGED <<open, count, ragged, cached, image, pins, older>>
    BY <1>12 DEF FlushFails
  <2>3. faults' \in 0 .. MaxFaults
    BY <1>12, OneMoreFault DEF FlushFails, IndInv
  <2> QED
    BY <2>1, <2>2, <2>3, FlushStep
<1>13. CASE Shutdown
  <2>1. file' \in [PageIds -> PageImages]
    BY <1>13, CompleteFlush, Flushing DEF Shutdown
  <2>2. KeepFrames({}) /\ open' \in BOOLEAN /\ ragged' \in BOOLEAN
    BY <1>13 DEF Shutdown, IndInv, TypeOK
  <2>3. count' \in Nat /\ count' >= count /\ faults' \in 0 .. MaxFaults
    BY <1>13 DEF Shutdown, IndInv, TypeOK
  <2> QED
    BY <2>1, <2>2, <2>3, DroppingFrames
<1>14. CASE ShutdownFails
  <2>1. file' \in [PageIds -> PageImages]
    BY <1>14, Flushing DEF ShutdownFails
  <2>2. faults' \in 0 .. MaxFaults
    BY <1>14, OneMoreFault DEF ShutdownFails, IndInv
  <2>3. KeepFrames({}) /\ open' \in BOOLEAN /\ ragged' \in BOOLEAN
    BY <1>14 DEF ShutdownFails, IndInv, TypeOK
  <2>4. count' \in Nat /\ count' >= count
    BY <1>14 DEF ShutdownFails, IndInv, TypeOK
  <2> QED
    BY <2>1, <2>2, <2>3, <2>4, DroppingFrames
<1>15. CASE Drop
  <2>1. KeepFrames({}) /\ open' \in BOOLEAN /\ ragged' \in BOOLEAN
    BY <1>15 DEF Drop, fileVars, IndInv, TypeOK
  <2>2. /\ count' \in Nat /\ count' >= count /\ faults' \in 0 .. MaxFaults
        /\ file' \in [PageIds -> PageImages]
    BY <1>15 DEF Drop, fileVars, IndInv, TypeOK
  <2> QED
    BY <2>1, <2>2, DroppingFrames
<1>16. CASE UNCHANGED vars
  BY <1>16 DEF vars, fileVars, frameVars, IndInv, TypeOK, OrderInv, CapacityInv,
               CleanFramesAreStored, AllocatedInv
<1> QED
  BY <1>1, <1>2, <1>3, <1>4, <1>5, <1>6, <1>7, <1>8, <1>9, <1>10, <1>11, <1>12, <1>13, <1>14,
     <1>15, <1>16 DEF Next

LEMMA Invariance == Spec => []IndInv
BY InitIndInv, StepIndInv, PTL DEF Spec

-----------------------------------------------------------------------------
(* Theorems *)

\* The pool never holds more frames than its capacity, in a total order of use:
\* evict_one makes room before each insertion.
THEOREM PoolStaysWithinCapacity == Spec => []WithinCapacity
<1>1. IndInv => WithinCapacity
  BY DEF IndInv, OrderInv, CapacityInv, WithinCapacity
<1> QED
  BY <1>1, Invariance, PTL

\* A frame that is not dirty can be dropped unwritten: the file has its page,
\* also after evictions and flushes that failed half way.
THEOREM CleanFramesStayStored == Spec => []CleanFramesAreStored
<1>1. IndInv => CleanFramesAreStored
  BY DEF IndInv
<1> QED
  BY <1>1, Invariance, PTL

\* What each step does to pinned frames, and to the file when there is no room.
LEMMA StepPins ==
    ASSUME IndInv, [Next]_vars
    PROVE  /\ \A p \in PageIds : open' /\ p \in cached /\ pins[p] > 0 => p \in cached'
           /\ NoRoom => count' = count
<1>1. ASSUME ~NoRoom, KeepFrames(Kept)
      PROVE  \A p \in PageIds : p \in cached /\ pins[p] > 0 => p \in cached'
  BY <1>1, MakingRoom DEF Room, KeepFrames
<1>2. ASSUME NEW q, NEW img, NEW pinned, SetFrames(Kept, q, img, pinned), ~NoRoom
      PROVE  \A p \in PageIds : p \in cached /\ pins[p] > 0 => p \in cached'
  BY <1>2, MakingRoom DEF Room, SetFrames
<1>3. ASSUME NEW q, NEW img, NEW marked, NEW pinned, Load(q, img, marked, pinned)
      PROVE  \A p \in PageIds : p \in cached /\ pins[p] > 0 => p \in cached'
  BY <1>2, <1>3 DEF Load, SetFrames
<1>4. CASE Open \/ (\E p \in PageIds : Unpin(p)) \/ FlushAll \/ FlushFails \/ UNCHANGED vars
  BY <1>4 DEF Open, Unpin, FlushAll, FlushFails, vars, fileVars, frameVars
<1>5. CASE Allocate
  BY <1>2, <1>5 DEF Allocate
<1>6. CASE AllocateFails
  BY <1>1, <1>6 DEF AllocateFails
<1>7. CASE AllocateMisplaced
  BY <1>1, <1>7 DEF AllocateMisplaced
<1>8. CASE \E p \in PageIds : Get(p)
  BY <1>3, <1>8 DEF Get
<1>9. CASE \E p \in PageIds, img \in Images \cup {Blank} : GetMut(p, img)
  BY <1>3, <1>9 DEF GetMut
<1>10. CASE \E p \in PageIds : Pin(p)
  BY <1>3, <1>10 DEF Pin
<1>11. CASE \E p \in PageIds : LoadFails(p)
  BY <1>1, <1>11 DEF LoadFails
<1>12. CASE EvictionFails
  <2>1. Victim \in Evictable
    BY <1>12, VictimExists DEF EvictionFails, NoRoom, IndInv
  <2>2. pins[Victim] = 0
    BY <2>1 DEF Evictable
  <2> QED
    BY <1>12, <2>2 DEF EvictionFails, KeepFrames
<1>13. CASE Shutdown \/ ShutdownFails \/ Drop
  BY <1>13 DEF Shutdown, ShutdownFails, Drop, fileVars
<1> QED
  BY <1>4, <1>5, <1>6, <1>7, <1>8, <1>9, <1>10, <1>11, <1>12, <1>13 DEF Next

\* evict_one never takes a pinned frame, and nothing is allocated on disk when
\* every frame is pinned.
THEOREM PinnedFramesStay == Spec => PinsAreRespected
<1>1. IndInv /\ [Next]_vars =>
        [ /\ \A p \in PageIds : open' /\ p \in cached /\ pins[p] > 0 => p \in cached'
          /\ NoRoom => count' = count ]_vars
  BY StepPins
<1> QED
  BY <1>1, Invariance, PTL DEF Spec, PinsAreRespected

-----------------------------------------------------------------------------
(* The refinement *)

\* Pages are written as callers see them, except in `harmed`.
StoredBut(harmed) ==
    /\ file' \in [PageIds -> PageImages]
    /\ \A q \in PageIds \ harmed : file'[q] \in {file[q], Content[q]}

\* Making room changes nothing callers see.
LEMMA RoomIsInvisible ==
    ASSUME IndInv, ~NoRoom, KeepFrames(Kept), file' = FileWithRoom
    PROVE  Content' = Content /\ StoredBut({})
<1>1. Room(Kept, FileWithRoom)
  BY MakingRoom
<1>2. /\ cached' = Kept /\ Kept \subseteq cached
      /\ \A q \in PageIds : q \in Kept => image'[q] = image[q]
      /\ \A q \in PageIds : q \notin Kept => file'[q] = Content[q]
  BY <1>1 DEF Room, KeepFrames
<1>3. Content' = Content
  BY <1>2 DEF Content
<1> QED
  BY <1>1, <1>3 DEF Room, StoredBut

\* load changes what callers see of its page only, to the image left in it.
LEMMA LoadIsVisible ==
    ASSUME IndInv, NEW p \in PageIds, NEW img, NEW marked, NEW pinned,
           Load(p, img, marked, pinned)
    PROVE  Content' = [Content EXCEPT ![p] = img] /\ StoredBut({})
<1>1. CASE p \in cached
  <2>1. SetFrames(cached, p, img, pinned) /\ file' = file
    BY <1>1 DEF Load
  <2>2. /\ cached' = cached
        /\ \A q \in PageIds : q \in cached \ {p} => image'[q] = image[q]
        /\ image'[p] = img
    BY <1>1, <2>1 DEF SetFrames
  <2>3. Content' = [Content EXCEPT ![p] = img]
    BY <1>1, <2>1, <2>2 DEF Content
  <2>4. StoredBut({})
    BY <2>1 DEF StoredBut, IndInv, TypeOK
  <2> QED
    BY <2>3, <2>4
<1>2. CASE p \notin cached
  <2>1. SetFrames(Kept, p, img, pinned) /\ file' = FileWithRoom /\ ~NoRoom
    BY <1>2 DEF Load
  <2>2. Room(Kept, FileWithRoom)
    BY <2>1, MakingRoom
  <2>3. /\ cached' = Kept \cup {p} /\ Kept \subseteq cached
        /\ \A q \in PageIds : q \in Kept \ {p} => image'[q] = image[q]
        /\ image'[p] = img
        /\ \A q \in PageIds : q \notin Kept => file'[q] = Content[q]
    BY <2>1, <2>2 DEF SetFrames, Room
  <2>4. Content' = [Content EXCEPT ![p] = img]
    BY <2>3 DEF Content
  <2>5. StoredBut({})
    BY <2>1, <2>2 DEF Room, StoredBut
  <2> QED
    BY <2>4, <2>5
<1> QED
  BY <1>1, <1>2

\* A flush, complete or not, changes nothing callers see.
LEMMA FlushIsInvisible ==
    ASSUME IndInv, NEW written \in SUBSET dirty, FlushUpTo(written),
           UNCHANGED <<cached, image>>
    PROVE  Content' = Content
BY Flushing DEF Content

LEMMA InitStore == Init => Store!Init
BY DEF Init, Store!Init, Content, PageIds, Store!PageIds

\* Each operation is a step of the page store, or changes nothing of it.
LEMMA StepStore ==
    ASSUME IndInv, [Next]_vars
    PROVE  [Store!Next]_(Store!storeVars)
<1> USE DEF Store!PageIds, Store!PageImages
<1>a. PageIds = Store!PageIds /\ PageImages = Store!PageImages
  BY DEF PageIds, PageImages
<1>b. /\ file \in [PageIds -> PageImages] /\ cached \subseteq PageIds /\ dirty \subseteq cached
      /\ \A p \in cached : p < count
      /\ Content \in [PageIds -> PageImages]
  BY DEF IndInv, TypeOK, AllocatedInv, Content, PageImages
<1>1. CASE Open \/ UNCHANGED vars
  <2>1. UNCHANGED <<count, file, cached, image, faults>>
    BY <1>1 DEF Open, vars, fileVars, frameVars
  <2> QED
    BY <2>1 DEF Store!storeVars, Content
<1>2. ASSUME Content' = Content, StoredBut({}), UNCHANGED <<count, faults>>
      PROVE  Store!Store
  BY <1>a, <1>2 DEF Store!Store, StoredBut
<1>3. CASE \E p \in PageIds : Get(p) \/ Pin(p)
  <2>1. PICK p \in PageIds, n \in {0, 1} :
            Load(p, LoadedImage(p), {}, n) /\ UNCHANGED <<count, faults>>
    BY <1>3 DEF Get, Pin
  <2>2. Content' = Content /\ StoredBut({})
    BY <1>b, <2>1, LoadedPage, LoadIsVisible
  <2> QED
    BY <1>2, <2>1, <2>2 DEF Store!Next
<1>4. CASE \E p \in PageIds, img \in Images \cup {Blank} : GetMut(p, img)
  <2>1. PICK p \in PageIds, img \in Images \cup {Blank} :
            Load(p, img, {p}, 0) /\ UNCHANGED <<count, faults>>
    BY <1>4 DEF GetMut
  <2>2. Content' = [Content EXCEPT ![p] = img] /\ StoredBut({}) /\ p < count
    BY <2>1, LoadedPage, LoadIsVisible
  <2>3. Store!Change(p, img)
    BY <1>a, <2>1, <2>2 DEF Store!Change, StoredBut
  <2> QED
    BY <1>a, <2>3 DEF Store!Next
<1>5. CASE \E p \in PageIds : Unpin(p)
  <2>1. Content' = Content /\ StoredBut({}) /\ UNCHANGED <<count, faults>>
    BY <1>5, <1>b DEF Unpin, fileVars, Content, StoredBut
  <2> QED
    BY <1>2, <2>1 DEF Store!Next
<1>6. CASE \E p \in PageIds : LoadFails(p)
  <2>1. Content' = Content /\ StoredBut({}) /\ UNCHANGED <<count, faults>>
    BY <1>6, RoomIsInvisible DEF LoadFails
  <2> QED
    BY <1>2, <2>1 DEF Store!Next
<1>7. CASE FlushAll
  <2>1. dirty \in SUBSET dirty /\ FlushUpTo(dirty) /\ UNCHANGED <<cached, image, count, faults>>
    BY <1>7, CompleteFlush DEF FlushAll
  <2>2. Content' = Content
    BY <2>1, FlushIsInvisible
  <2>3. StoredBut({})
    BY <1>7, <1>b DEF FlushAll, FlushedFile, StoredBut, Content, IndInv, TypeOK, PageImages
  <2> QED
    BY <1>2, <2>1, <2>2, <2>3 DEF Store!Next
<1>8. CASE Allocate
  <2>1. Room(Kept, FileWithRoom)
    BY <1>8, MakingRoom DEF Allocate
  <2>2. /\ count \in PageIds /\ count' = count + 1 /\ faults' = faults
        /\ file' = [FileWithRoom EXCEPT ![count] = Blank]
        /\ SetFrames(Kept, count, Blank, 0)
    BY <1>8 DEF Allocate
  <2>3. /\ cached' = Kept \cup {count}
        /\ \A q \in PageIds : q \in Kept \ {count} => image'[q] = image[q]
        /\ image'[count] = Blank
        /\ \A q \in PageIds \ {count} : q \notin Kept => file'[q] = Content[q]
    BY <2>1, <2>2 DEF SetFrames, Room
  <2>4. Content' = [Content EXCEPT ![count] = Blank]
    BY <2>1, <2>2, <2>3 DEF Content, Room
  <2>5. /\ file' \in [PageIds -> PageImages] /\ file'[count] = Blank
        /\ \A q \in PageIds \ {count} : file'[q] \in {file[q], Content[q]}
    BY <2>1, <2>2 DEF Room, PageImages
  <2> QED
    BY <1>a, <2>2, <2>4, <2>5 DEF Store!Next, Store!Grow
<1>9. CASE Shutdown
  <2>1. /\ cached' = {} /\ UNCHANGED <<count, faults>>
        /\ file' = FlushedFile(dirty)
    BY <1>9 DEF Shutdown, KeepFrames
  <2>2. \A p \in PageIds : file'[p] = Content[p]
    BY <1>b, <2>1 DEF FlushedFile, Content, IndInv, CleanFramesAreStored
  <2>3. file' = Content /\ Content' = Content
    BY <1>b, <2>1, <2>2 DEF FlushedFile, Content
  <2> QED
    BY <2>1, <2>3 DEF Store!Next, Store!Close
<1>10. CASE Drop
  <2>1. cached' = {} /\ UNCHANGED <<count, file, faults>>
    BY <1>10 DEF Drop, KeepFrames, fileVars
  <2>2. Content' = file
    BY <1>b, <2>1 DEF Content
  <2> QED
    BY <2>1, <2>2 DEF Store!Next, Store!Abandon
<1>11. ASSUME NEW harmed \in {{}} \cup {{p} : p \in PageIds}, StoredBut(harmed),
              faults' = faults + 1, count' \in {count, count + 1},
              count' # count => harmed = {count},
              Content' \in {Content, file',
                            [p \in PageIds |-> IF p \in harmed THEN file'[p] ELSE Content[p]]}
       PROVE  Store!Fault
  BY <1>a, <1>11 DEF Store!Fault, StoredBut
<1>12. CASE AllocateFails
  <2>1. Content' = Content /\ StoredBut({}) /\ count' = count
    BY <1>12, RoomIsInvisible DEF AllocateFails
  <2>2. faults' = faults + 1
    BY <1>12 DEF AllocateFails, IOError
  <2> QED
    BY <1>11, <2>1, <2>2 DEF Store!Next
<1>13. CASE AllocateMisplaced
  <2>1. Room(Kept, FileWithRoom)
    BY <1>13, MakingRoom DEF AllocateMisplaced
  <2>2. /\ count \in PageIds /\ count' = count + 1 /\ faults' = faults + 1
        /\ file' = [FileWithRoom EXCEPT ![count] = Garbled]
        /\ KeepFrames(Kept)
    BY <1>13 DEF AllocateMisplaced, IOError
  <2>3. StoredBut({count})
    BY <2>1, <2>2 DEF Room, StoredBut, PageImages
  <2>4. count \notin Kept
    BY <1>b, <2>1, <2>2 DEF Room, IndInv, TypeOK
  <2>5. Content' = [p \in PageIds |-> IF p \in {count} THEN file'[p] ELSE Content[p]]
    <3>1. /\ cached' = Kept /\ Kept \subseteq cached
          /\ \A q \in PageIds : q \in Kept => image'[q] = image[q]
          /\ \A q \in PageIds \ {count} : q \notin Kept => file'[q] = Content[q]
      BY <2>1, <2>2 DEF KeepFrames, Room
    <3> QED
      BY <2>4, <3>1 DEF Content
  <2>6. count' \in {count, count + 1} /\ {count} \in {{}} \cup {{p} : p \in PageIds}
    BY <2>2
  <2> QED
    BY <1>11, <2>2, <2>3, <2>5, <2>6 DEF Store!Next
<1>14. CASE EvictionFails
  <2>1. /\ Victim \in dirty /\ Victim \in PageIds
        /\ \E left \in {file[Victim], image[Victim], Garbled} : file' = [file EXCEPT ![Victim] = left]
        /\ cached' = cached \ {Victim}
        /\ \A q \in PageIds : q \in cached \ {Victim} => image'[q] = image[q]
        /\ faults' = faults + 1 /\ count' = count
    BY <1>14, <1>b DEF EvictionFails, PartlyWritten, KeepFrames, IOError
  <2>2. /\ file' \in [PageIds -> PageImages]
        /\ \A q \in PageIds \ {Victim} : file'[q] = file[q]
    <3>1. PICK left \in {file[Victim], image[Victim], Garbled} : file' = [file EXCEPT ![Victim] = left]
      BY <2>1
    <3>2. left \in PageImages
      BY <1>b, <2>1 DEF IndInv, TypeOK, PageImages
    <3> QED
      BY <1>b, <3>1, <3>2
  <2>3. StoredBut({Victim})
    BY <2>2 DEF StoredBut
  <2>4. Content' = [p \in PageIds |-> IF p \in {Victim} THEN file'[p] ELSE Content[p]]
    BY <2>1, <2>2 DEF Content
  <2>5. count' \in {count, count + 1} /\ {Victim} \in {{}} \cup {{p} : p \in PageIds}
    BY <2>1
  <2> QED
    BY <1>11, <2>1, <2>3, <2>4, <2>5 DEF Store!Next
<1>15. ASSUME NEW written \in SUBSET dirty, FlushUpTo(written)
       PROVE  \E harmed \in {{}} \cup {{p} : p \in PageIds} : StoredBut(harmed)
  <2>1. /\ file' \in [PageIds -> PageImages]
        /\ \E harmed \in {{}} \cup {{p} : p \in dirty} :
              \A q \in PageIds \ harmed : file'[q] \in {file[q], Content[q]}
    BY <1>15, Flushing
  <2>2. {{p} : p \in dirty} \subseteq {{p} : p \in PageIds}
    BY <1>b
  <2> QED
    BY <2>1, <2>2 DEF StoredBut
<1>16. CASE FlushFails
  <2>1. PICK written \in SUBSET dirty : FlushUpTo(written)
    BY <1>16 DEF FlushFails
  <2>2. UNCHANGED <<cached, image, count>> /\ faults' = faults + 1
    BY <1>16 DEF FlushFails, IOError
  <2>3. Content' = Content
    BY <2>1, <2>2, FlushIsInvisible
  <2>4. PICK harmed \in {{}} \cup {{p} : p \in PageIds} : StoredBut(harmed)
    BY <1>15, <2>1
  <2> QED
    BY <1>11, <2>2, <2>3, <2>4 DEF Store!Next
<1>17. CASE ShutdownFails
  <2>1. PICK written \in SUBSET dirty : FlushUpTo(written)
    BY <1>17 DEF ShutdownFails
  <2>2. cached' = {} /\ count' = count /\ faults' = faults + 1
    BY <1>17 DEF ShutdownFails, KeepFrames, IOError
  <2>3. PICK harmed \in {{}} \cup {{p} : p \in PageIds} : StoredBut(harmed)
    BY <1>15, <2>1
  <2>4. Content' = file'
    BY <2>2, <2>3 DEF Content, StoredBut
  <2> QED
    BY <1>11, <2>2, <2>3, <2>4 DEF Store!Next
<1> QED
  BY <1>1, <1>3, <1>4, <1>5, <1>6, <1>7, <1>8, <1>9, <1>10, <1>12, <1>13, <1>14, <1>16, <1>17
     DEF Next

\* The pool implements the page store: through loads, evictions, flushes, faults
\* and reopening, callers see their own last write of each page, and lose at most
\* the page a fault was reported for, or what a closing did not store.
THEOREM PoolImplementsPageStore == Spec => ImplementsPageStore
<1>1. IndInv /\ [Next]_vars => [Store!Next]_(Store!storeVars)
  BY StepStore
<1> QED
  BY <1>1, InitStore, Invariance, PTL DEF Spec, ImplementsPageStore, Store!Spec
====
