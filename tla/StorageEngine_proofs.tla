---- MODULE StorageEngine_proofs ----
(***************************************************************************)
(* Proofs about SlottedPage and StorageEngine, for any page size, records, *)
(* number of pages, I/O errors and restarts.  A page that can be written   *)
(* is read again as it was; whatever failed writes, exits and crashes left *)
(* of the pages, no id is stored twice, the directory is true to the pages *)
(* and what a shutdown synchronized returns.                               *)
(***************************************************************************)
EXTENDS StorageEngine, FiniteSetTheorems, WellFoundedInduction, TLAPS

Slots == Records \cup {Deleted}

-----------------------------------------------------------------------------
(* Slotted pages: sums of lengths *)

\* Of the slots with some property, from_bytes and to_bytes come to one first.
LEMMA FirstOf ==
    ASSUME NEW n \in Nat, NEW S \in SUBSET (1 .. n), S # {}
    PROVE  \E m \in S : \A j \in S : m <= j
<1> DEFINE Smaller == {{j \in 1 .. n : j < m} : m \in S}
<1>1. IsWellFoundedOn(StrictSubsetOrdering(1 .. n), FiniteSubsetsOf(1 .. n))
  BY FS_StrictSubsetOrderingWellFounded
<1>2. IsFiniteSet(1 .. n)
  BY FS_Interval
<1>3. Smaller \subseteq FiniteSubsetsOf(1 .. n) /\ Smaller # {}
  <2>1. \A T \in SUBSET (1 .. n) : T \in FiniteSubsetsOf(1 .. n)
    BY <1>2, FS_Subset DEF FiniteSubsetsOf
  <2> QED
    BY <2>1
<1>4. PICK x \in Smaller : \A y \in Smaller : ~ (<<y, x>> \in StrictSubsetOrdering(1 .. n))
  BY <1>1, <1>3, WFMin
<1>5. PICK m \in S : x = {j \in 1 .. n : j < m}
  BY <1>4
<1>6. ASSUME NEW j \in S, ~(m <= j)
      PROVE  FALSE
  <2>1. j \in 1 .. n /\ m \in 1 .. n /\ j < m
    BY <1>6
  <2>2. {k \in 1 .. n : k < j} \subseteq x /\ j \in x /\ j \notin {k \in 1 .. n : k < j}
    BY <1>5, <2>1
  <2>3. <<{k \in 1 .. n : k < j}, x>> \in StrictSubsetOrdering(1 .. n)
    BY <1>5, <2>2 DEF StrictSubsetOrdering
  <2> QED
    BY <1>4, <1>6, <2>3
<1> QED
  BY <1>6

\* What holds of no slot at all, and of one more slot whenever it holds of those
\* before it, holds of all of them.
LEMMA SlotBySlot ==
    ASSUME NEW n \in Nat, NEW S, 0 \in S,
           \A k \in 1 .. n : k - 1 \in S => k \in S
    PROVE  \A k \in 0 .. n : k \in S
<1> DEFINE Others == {k \in 1 .. n : k \notin S}
<1>1. ASSUME Others # {}
      PROVE  FALSE
  <2>1. PICK m \in Others : \A j \in Others : m <= j
    BY <1>1, FirstOf
  <2>2. m \in 1 .. n /\ m - 1 \in 0 .. n /\ m - 1 \notin Others
    BY <2>1
  <2>3. m - 1 \in S
    BY <2>2
  <2> QED
    BY <2>1, <2>2, <2>3
<1> QED
  BY <1>1

\* The bytes of a slot, none if it is deleted.
LEMMA SlotLengthFacts ==
    /\ \A slot \in Slots : SlotLength(slot) \in Nat
    /\ SlotLength(Deleted) = 0
    /\ \A r \in Records : SlotLength(r) = Length[r] /\ r # Deleted
  BY PageAssumption DEF Slots, SlotLength

\* free_space and to_bytes add up the lengths slot by slot.
LEMMA SumFacts ==
    ASSUME NEW page \in Seq(Slots)
    PROVE  /\ PayloadUpTo(page, 0) = 0
           /\ \A k \in 1 .. Len(page) :
                 PayloadUpTo(page, k) = PayloadUpTo(page, k - 1) + SlotLength(page[k])
<1> DEFINE Step(f, n) == [k \in 0 .. n |-> IF k = 0 THEN 0 ELSE f[k - 1] + SlotLength(page[k])]
           Sums(n) == \E f : f = Step(f, n)
<1>0. Len(page) \in Nat
  OBVIOUS
<1>1. Sums(0)
  <2>1. [k \in 0 .. 0 |-> 0] = Step([k \in 0 .. 0 |-> 0], 0)
    OBVIOUS
  <2> QED
    BY <2>1
<1>2. ASSUME NEW n \in Nat, Sums(n)
      PROVE  Sums(n + 1)
  <2>1. PICK f : f = Step(f, n)
    BY <1>2
  <2> DEFINE g == [k \in 0 .. n + 1 |-> IF k = n + 1 THEN f[n] + SlotLength(page[n + 1]) ELSE f[k]]
  <2>2. \A k \in 0 .. n : g[k] = f[k]
    OBVIOUS
  <2>3. \A k \in 0 .. n : f[k] = IF k = 0 THEN 0 ELSE f[k - 1] + SlotLength(page[k])
    BY <2>1
  <2>4. \A k \in 0 .. n + 1 : g[k] = IF k = 0 THEN 0 ELSE g[k - 1] + SlotLength(page[k])
    <3> SUFFICES ASSUME NEW k \in 0 .. n + 1
                 PROVE  g[k] = IF k = 0 THEN 0 ELSE g[k - 1] + SlotLength(page[k])
      OBVIOUS
    <3>1. CASE k = n + 1
      BY <2>2, <3>1
    <3>2. CASE k = 0
      BY <2>2, <2>3, <3>2
    <3>3. CASE k \in 1 .. n
      <4>1. k - 1 \in 0 .. n /\ k \in 0 .. n
        BY <3>3
      <4> QED
        BY <2>2, <2>3, <3>3, <4>1
    <3> QED
      BY <3>1, <3>2, <3>3
  <2>5. g = Step(g, n + 1)
    BY <2>4
  <2> QED
    BY <2>5
<1>3. Sums(Len(page))
  <2> DEFINE Defined == {m \in 0 .. Len(page) : Sums(m)}
  <2> HIDE DEF Sums
  <2>1. 0 \in Defined
    BY <1>0, <1>1
  <2>2. \A k \in 1 .. Len(page) : k - 1 \in Defined => k \in Defined
    <3> SUFFICES ASSUME NEW k \in 1 .. Len(page), k - 1 \in Defined
                 PROVE  Sums(k)
      OBVIOUS
    <3>1. k - 1 \in Nat /\ (k - 1) + 1 = k /\ Sums(k - 1)
      BY <1>0
    <3>2. Sums((k - 1) + 1)
      BY <1>2, <3>1
    <3> QED
      BY <3>1, <3>2
  <2> HIDE DEF Defined
  <2>3. \A k \in 0 .. Len(page) : k \in Defined
    BY <1>0, <2>1, <2>2, SlotBySlot
  <2> QED
    BY <1>0, <2>3 DEF Defined
<1> DEFINE sum == CHOOSE f : f = Step(f, Len(page))
<1>5. sum = Step(sum, Len(page))
  BY <1>3
<1>6. \A n : PayloadUpTo(page, n) = sum[n]
  BY DEF PayloadUpTo
<1>7. \A k \in 0 .. Len(page) : sum[k] = IF k = 0 THEN 0 ELSE sum[k - 1] + SlotLength(page[k])
  BY <1>5
<1> HIDE DEF sum
<1> QED
  BY <1>0, <1>6, <1>7

\* The lengths add up to a natural number.
LEMMA SumType ==
    ASSUME NEW page \in Seq(Slots)
    PROVE  \A n \in 0 .. Len(page) : PayloadUpTo(page, n) \in Nat
<1> DEFINE S == {n \in 0 .. Len(page) : PayloadUpTo(page, n) \in Nat}
<1>1. Len(page) \in Nat
  OBVIOUS
<1>2. 0 \in S
  BY <1>1, SumFacts
<1>3. ASSUME NEW k \in 1 .. Len(page), k - 1 \in S
      PROVE  k \in S
  <2>1. SlotLength(page[k]) \in Nat
    BY SlotLengthFacts
  <2>2. PayloadUpTo(page, k) = PayloadUpTo(page, k - 1) + SlotLength(page[k])
    BY SumFacts
  <2> QED
    BY <1>1, <1>3, <2>1, <2>2
<1> HIDE DEF S
<1>4. \A k \in 0 .. Len(page) : k \in S
  BY <1>1, <1>2, <1>3, SlotBySlot
<1> QED
  BY <1>4 DEF S

\* The records of more slots take as many bytes at least.
LEMMA SumMonotone ==
    ASSUME NEW page \in Seq(Slots), NEW i \in 0 .. Len(page), NEW j \in 0 .. Len(page), i <= j
    PROVE  PayloadUpTo(page, i) <= PayloadUpTo(page, j)
<1> DEFINE S == {n \in 0 .. Len(page) : i <= n => PayloadUpTo(page, i) <= PayloadUpTo(page, n)}
<1>1. Len(page) \in Nat /\ \A n \in 0 .. Len(page) : PayloadUpTo(page, n) \in Nat
  BY SumType
<1>2. 0 \in S
  BY <1>1
<1>3. ASSUME NEW k \in 1 .. Len(page), k - 1 \in S
      PROVE  k \in S
  <2>1. SlotLength(page[k]) \in Nat
    BY SlotLengthFacts
  <2>2. PayloadUpTo(page, k) = PayloadUpTo(page, k - 1) + SlotLength(page[k])
    BY SumFacts
  <2>3. k \in 0 .. Len(page) /\ k - 1 \in 0 .. Len(page)
    BY <1>1
  <2>4. PayloadUpTo(page, k - 1) <= PayloadUpTo(page, k)
    BY <1>1, <2>1, <2>2, <2>3
  <2>5. CASE i = k
    BY <1>1, <2>3, <2>5
  <2>6. CASE i # k
    BY <1>1, <1>3, <2>3, <2>4, <2>6
  <2> QED
    BY <2>5, <2>6
<1> HIDE DEF S
<1>4. \A k \in 0 .. Len(page) : k \in S
  BY <1>1, <1>2, <1>3, SlotBySlot
<1> QED
  BY <1>4 DEF S

\* The sum over the first slots depends on nothing but these.
LEMMA SumOfPrefix ==
    ASSUME NEW page \in Seq(Slots), NEW other \in Seq(Slots),
           NEW n \in 0 .. Len(page), n <= Len(other),
           \A k \in 1 .. n : other[k] = page[k]
    PROVE  PayloadUpTo(other, n) = PayloadUpTo(page, n)
<1> DEFINE S == {k \in 0 .. n : PayloadUpTo(other, k) = PayloadUpTo(page, k)}
<1>1. Len(page) \in Nat /\ Len(other) \in Nat /\ n \in Nat
  OBVIOUS
<1>2. 0 \in S
  BY <1>1, SumFacts
<1>3. ASSUME NEW k \in 1 .. n, k - 1 \in S
      PROVE  k \in S
  <2>1. k \in 1 .. Len(page) /\ k \in 1 .. Len(other) /\ page[k] = other[k]
    BY <1>1
  <2>2. /\ PayloadUpTo(page, k) = PayloadUpTo(page, k - 1) + SlotLength(page[k])
        /\ PayloadUpTo(other, k) = PayloadUpTo(other, k - 1) + SlotLength(other[k])
    BY <2>1, SumFacts
  <2> QED
    BY <1>1, <1>3, <2>1, <2>2
<1> HIDE DEF S
<1>4. \A k \in 0 .. n : k \in S
  BY <1>1, <1>2, <1>3, SlotBySlot
<1> QED
  BY <1>1, <1>4 DEF S

\* Another record in one slot changes the sums from there on by the difference.
LEMMA SumOfReplaced ==
    ASSUME NEW page \in Seq(Slots), NEW i \in 1 .. Len(page), NEW slot \in Slots
    PROVE  LET other == [page EXCEPT ![i] = slot] IN
             PayloadUpTo(other, Len(page)) + SlotLength(page[i])
               = PayloadUpTo(page, Len(page)) + SlotLength(slot)
<1> DEFINE other == [page EXCEPT ![i] = slot]
           S == {k \in 0 .. Len(page) : k >= i =>
                   PayloadUpTo(other, k) + SlotLength(page[i])
                     = PayloadUpTo(page, k) + SlotLength(slot)}
<1>1. /\ Len(page) \in Nat /\ other \in Seq(Slots) /\ Len(other) = Len(page)
      /\ other[i] = slot /\ \A k \in 1 .. Len(page) : k # i => other[k] = page[k]
  OBVIOUS
<1> HIDE DEF other
<1>2. 0 \in S
  BY <1>1
<1>3. ASSUME NEW k \in 1 .. Len(page), k - 1 \in S, k >= i
      PROVE  PayloadUpTo(other, k) + SlotLength(page[i]) = PayloadUpTo(page, k) + SlotLength(slot)
  <2>1. /\ PayloadUpTo(page, k) = PayloadUpTo(page, k - 1) + SlotLength(page[k])
        /\ PayloadUpTo(other, k) = PayloadUpTo(other, k - 1) + SlotLength(other[k])
    BY <1>1, SumFacts
  <2>2. /\ SlotLength(page[k]) \in Nat /\ SlotLength(other[k]) \in Nat
        /\ SlotLength(page[i]) \in Nat /\ SlotLength(slot) \in Nat
    BY <1>1, SlotLengthFacts
  <2>3. k - 1 \in 0 .. Len(page) /\ k - 1 \in 0 .. Len(other)
    BY <1>1
  <2>4. PayloadUpTo(page, k - 1) \in Nat /\ PayloadUpTo(other, k - 1) \in Nat
    BY <1>1, <2>3, SumType
  <2>5. CASE k = i
    <3>1. PayloadUpTo(other, k - 1) = PayloadUpTo(page, k - 1)
      BY <1>1, <2>3, <2>5, SumOfPrefix
    <3> QED
      BY <1>1, <2>1, <2>2, <2>4, <2>5, <3>1
  <2>6. CASE k # i
    <3> DEFINE before == PayloadUpTo(page, k - 1)
               after == PayloadUpTo(other, k - 1)
               same == SlotLength(page[k])
               old == SlotLength(page[i])
               new == SlotLength(slot)
    <3>1. k - 1 >= i
      BY <1>1, <1>3, <2>6
    <3>2. after + old = before + new
      BY <1>3, <3>1
    <3>3. other[k] = page[k]
      BY <1>1, <2>6
    <3>4. before \in Nat /\ after \in Nat /\ same \in Nat /\ old \in Nat /\ new \in Nat
      BY <2>2, <2>4
    <3>5. PayloadUpTo(page, k) = before + same /\ PayloadUpTo(other, k) = after + same
      BY <2>1, <3>3
    <3>6. PayloadUpTo(other, k) + old = PayloadUpTo(page, k) + new
      <4> HIDE DEF before, after, same, old, new
      <4>1. (after + same) + old = (before + same) + new
        BY <3>2, <3>4
      <4> QED
        BY <3>5, <4>1
    <3> QED
      BY <3>6
  <2> QED
    BY <2>5, <2>6
<1>4. \A k \in 1 .. Len(page) : k - 1 \in S => k \in S
  BY <1>1, <1>3
<1> HIDE DEF S
<1>5. \A k \in 0 .. Len(page) : k \in S
  BY <1>1, <1>2, <1>4, SlotBySlot
<1>6. Len(page) \in S /\ Len(page) >= i
  BY <1>1, <1>5
<1> QED
  BY <1>1, <1>6 DEF S, other

\* Deleted slots have no bytes.
LEMMA SumOfDeleted ==
    ASSUME NEW page \in Seq(Slots), Live(page) = {}
    PROVE  PayloadUpTo(page, Len(page)) = 0
<1> DEFINE S == {k \in 0 .. Len(page) : PayloadUpTo(page, k) = 0}
<1>1. Len(page) \in Nat
  OBVIOUS
<1>2. 0 \in S
  BY <1>1, SumFacts
<1>3. ASSUME NEW k \in 1 .. Len(page), k - 1 \in S
      PROVE  k \in S
  <2>1. page[k] = Deleted
    BY DEF Live
  <2>2. PayloadUpTo(page, k) = PayloadUpTo(page, k - 1) + SlotLength(page[k])
    BY SumFacts
  <2> QED
    BY <1>1, <1>3, <2>1, <2>2, SlotLengthFacts
<1> HIDE DEF S
<1>4. \A k \in 0 .. Len(page) : k \in S
  BY <1>1, <1>2, <1>3, SlotBySlot
<1> QED
  BY <1>1, <1>4 DEF S

-----------------------------------------------------------------------------
(* Slotted pages: inserts and removals *)

\* insert puts the record into the first deleted slot, or into a new one, and
\* leaves the other slots alone.
LEMMA InsertFacts ==
    ASSUME NEW page \in Seq(Slots), NEW record \in Records
    PROVE  LET i == SlotFor(page)
               other == InsertRecord(page, record)
           IN  /\ other \in Seq(Slots)
               /\ Len(other) = IF Live(page) = DOMAIN page THEN Len(page) + 1 ELSE Len(page)
               /\ i \in 1 .. Len(other) /\ i \notin Live(page)
               /\ other[i] = record
               /\ \A j \in 1 .. Len(other) : j # i => j \in 1 .. Len(page) /\ other[j] = page[j]
               /\ Live(other) = Live(page) \cup {i}
               /\ PayloadUpTo(other, Len(other)) = PayloadUpTo(page, Len(page)) + Length[record]
<1> DEFINE i == SlotFor(page)
           other == InsertRecord(page, record)
<1>1. Len(page) \in Nat /\ DOMAIN page = 1 .. Len(page) /\ record \in Slots /\ record # Deleted
  BY SlotLengthFacts DEF Slots
<1>2. CASE Live(page) = DOMAIN page
  <2>1. i = Len(page) + 1 /\ other = Append(page, record)
    <3>1. i = Len(page) + 1
      BY <1>2 DEF SlotFor
    <3>2. i \notin DOMAIN page
      BY <1>1, <3>1
    <3> HIDE DEF i
    <3>3. other = IF i \in DOMAIN page THEN [page EXCEPT ![i] = record] ELSE Append(page, record)
      BY DEF InsertRecord, i
    <3> QED
      BY <3>1, <3>2, <3>3
  <2>2. /\ other \in Seq(Slots) /\ Len(other) = Len(page) + 1 /\ other[i] = record
        /\ \A j \in 1 .. Len(page) : other[j] = page[j]
    BY <1>1, <2>1
  <2>3. i \in 1 .. Len(other) /\ i \notin Live(page)
    BY <1>1, <1>2, <2>1, <2>2
  <2>4. \A j \in 1 .. Len(other) : j # i => j \in 1 .. Len(page) /\ other[j] = page[j]
    BY <1>1, <2>1, <2>2
  <2> HIDE DEF i, other
  <2>5. PayloadUpTo(other, Len(page)) = PayloadUpTo(page, Len(page))
    BY <1>1, <2>2, SumOfPrefix
  <2>6. PayloadUpTo(other, Len(other)) = PayloadUpTo(other, Len(page)) + Length[record]
    <3>1. Len(other) \in 1 .. Len(other) /\ Len(other) - 1 = Len(page)
      BY <1>1, <2>2
    <3>2. other[Len(other)] = record
      BY <2>1, <2>2
    <3> QED
      BY <2>2, <3>1, <3>2, SumFacts, SlotLengthFacts
  <2>7. Live(other) = Live(page) \cup {i}
    <3>1. DOMAIN other = 1 .. Len(other)
      BY <2>2
    <3> QED
      BY <1>1, <2>2, <2>3, <2>4, <3>1 DEF Live
  <2> QED
    BY <1>2, <2>2, <2>3, <2>4, <2>5, <2>6, <2>7 DEF i, other
<1>3. CASE Live(page) # DOMAIN page
  <2> DEFINE free == DOMAIN page \ Live(page)
  <2>1. free \in SUBSET (1 .. Len(page)) /\ free # {}
    BY <1>1, <1>3 DEF Live
  <2>2. \E m \in free : \A j \in free : m <= j
    BY <1>1, <2>1, FirstOf
  <2>3. i \in free
    BY <1>3, <2>2 DEF SlotFor
  <2>4. i \in 1 .. Len(page) /\ page[i] = Deleted /\ i \notin Live(page)
    BY <2>1, <2>3 DEF Live
  <2>5. other = [page EXCEPT ![i] = record]
    BY <1>1, <2>4 DEF InsertRecord
  <2> HIDE DEF i, free
  <2>6. /\ other \in Seq(Slots) /\ Len(other) = Len(page) /\ other[i] = record
        /\ \A j \in 1 .. Len(page) : j # i => other[j] = page[j]
    BY <1>1, <2>4, <2>5
  <2>7. PayloadUpTo(other, Len(page)) + SlotLength(page[i])
           = PayloadUpTo(page, Len(page)) + SlotLength(record)
    <3>1. page \in Seq(Slots) /\ record \in Slots
      BY <1>1
    <3> HIDE DEF other
    <3>2. PayloadUpTo([page EXCEPT ![i] = record], Len(page)) + SlotLength(page[i])
             = PayloadUpTo(page, Len(page)) + SlotLength(record)
      BY <2>4, <3>1, SumOfReplaced
    <3> QED
      BY <2>5, <3>2
  <2>8. PayloadUpTo(other, Len(other)) = PayloadUpTo(page, Len(page)) + Length[record]
    <3>1. Len(page) \in 0 .. Len(page) /\ Len(page) \in 0 .. Len(other)
      BY <1>1, <2>6
    <3>2. PayloadUpTo(other, Len(page)) \in Nat /\ PayloadUpTo(page, Len(page)) \in Nat
      BY <2>6, <3>1, SumType
    <3> HIDE DEF other
    <3> QED
      BY <2>4, <2>6, <2>7, <3>2, SlotLengthFacts
  <2>9. Live(other) = Live(page) \cup {i}
    <3>1. DOMAIN other = 1 .. Len(page)
      BY <2>6
    <3> HIDE DEF other
    <3> QED
      BY <1>1, <2>4, <2>6, <3>1 DEF Live
  <2> HIDE DEF other
  <2> QED
    BY <1>3, <2>4, <2>6, <2>8, <2>9 DEF i, other
<1> QED
  BY <1>2, <1>3

\* A record of a byte or more that free_space has room for leaves a page that
\* to_bytes takes.
LEMMA InsertEncodes ==
    ASSUME NEW page \in Seq(Slots), NEW record \in Records,
           Length[record] > 0, Fits(page, record)
    PROVE  Encodable(InsertRecord(page, record))
<1> DEFINE other == InsertRecord(page, record)
           used == PayloadUpTo(page, Len(page))
<1>1. Len(page) \in Nat /\ used \in Nat /\ Length[record] \in Nat
  BY SumType, PageAssumption
<1>2. /\ Len(other) = IF Live(page) = DOMAIN page THEN Len(page) + 1 ELSE Len(page)
      /\ PayloadUpTo(other, Len(other)) = used + Length[record]
  BY InsertFacts
<1>3. FreeStart(page) \in Nat
  BY <1>1, PageAssumption DEF FreeStart
<1>4. FreeStart(other) = FreeStart(page) + IF Live(page) = DOMAIN page THEN SlotSize ELSE 0
  <2>1. (Len(page) + 1) * SlotSize = Len(page) * SlotSize + SlotSize
    BY <1>1, PageAssumption
  <2>2. Len(page) * SlotSize \in Nat
    BY <1>1, PageAssumption
  <2> QED
    BY <1>2, <2>1, <2>2, PageAssumption DEF FreeStart
<1>5. FreeSpace(page) = SaturatingSub(SaturatingSub(PageSize, FreeStart(page) + used),
                            IF Live(page) = DOMAIN page THEN SlotSize ELSE 0)
  BY DEF FreeSpace, FreeStart
<1>6. Length[record] <= FreeSpace(page)
  BY DEF Fits
<1> HIDE DEF other, used
<1>7. FreeStart(other) + used + Length[record] <= PageSize
  BY <1>1, <1>3, <1>4, <1>5, <1>6, PageAssumption DEF SaturatingSub
<1>8. FreeStart(other) \in Nat
  BY <1>3, <1>4, PageAssumption
<1>9. Encodable(other)
  BY <1>1, <1>2, <1>7, <1>8, PageAssumption DEF Encodable
<1> QED
  BY <1>9 DEF other

\* remove deletes one slot, and the page takes no more room than before.
LEMMA RemoveFacts ==
    ASSUME NEW page \in Seq(Slots), NEW i \in Live(page), Encodable(page)
    PROVE  LET other == [page EXCEPT ![i] = Deleted] IN
             /\ other \in Seq(Slots)
             /\ Live(other) = Live(page) \ {i}
             /\ \A j \in Live(other) : other[j] = page[j]
             /\ Encodable(other)
<1> DEFINE other == [page EXCEPT ![i] = Deleted]
<1>1. Len(page) \in Nat /\ i \in 1 .. Len(page) /\ Deleted \in Slots
  BY DEF Live, Slots
<1>2. /\ other \in Seq(Slots) /\ Len(other) = Len(page) /\ other[i] = Deleted
      /\ \A j \in 1 .. Len(page) : j # i => other[j] = page[j]
  BY <1>1
<1>3. PayloadUpTo(other, Len(page)) + SlotLength(page[i])
         = PayloadUpTo(page, Len(page)) + SlotLength(Deleted)
  BY <1>1, SumOfReplaced
<1> HIDE DEF other
<1>4. DOMAIN other = 1 .. Len(page) /\ DOMAIN page = 1 .. Len(page)
  BY <1>2
<1>5. Live(other) = Live(page) \ {i} /\ \A j \in Live(other) : other[j] = page[j]
  BY <1>1, <1>2, <1>4 DEF Live
<1>6. PayloadUpTo(other, Len(other)) <= PayloadUpTo(page, Len(page))
  <2>1. SlotLength(page[i]) \in Nat /\ SlotLength(Deleted) = 0
    BY <1>1, SlotLengthFacts
  <2>2. PayloadUpTo(other, Len(page)) \in Nat /\ PayloadUpTo(page, Len(page)) \in Nat
    BY <1>1, <1>2, SumType
  <2> QED
    BY <1>2, <1>3, <2>1, <2>2
<1>7. FreeStart(other) = FreeStart(page) /\ FreeStart(page) \in Nat
  BY <1>1, <1>2, PageAssumption DEF FreeStart
<1>8. PayloadUpTo(other, Len(other)) \in Nat /\ PayloadUpTo(page, Len(page)) \in Nat
  BY <1>1, <1>2, SumType
<1>9. Encodable(other)
  BY <1>5, <1>6, <1>7, <1>8, PageAssumption DEF Encodable
<1> QED
  BY <1>2, <1>5, <1>9 DEF other

-----------------------------------------------------------------------------
(* Images *)

\* The records lie one behind the other, from the end of the page down.
LEMMA PayloadFacts ==
    ASSUME NEW page \in Seq(Slots)
    PROVE  /\ \A n \in 0 .. Len(page) : PayloadStart(page, n) \in Int /\ PayloadStart(page, n) <= PageSize
           /\ PayloadStart(page, 0) = PageSize
           /\ \A k \in 1 .. Len(page) :
                 PayloadStart(page, k) = PayloadStart(page, k - 1) - SlotLength(page[k])
           /\ \A i, j \in 0 .. Len(page) :
                 i <= j => PayloadStart(page, j) <= PayloadStart(page, i)
<1>1. Len(page) \in Nat /\ PageSize \in Nat
  BY PageAssumption
<1>2. \A n \in 0 .. Len(page) : PayloadUpTo(page, n) \in Nat
  BY SumType
<1>3. \A n \in 0 .. Len(page) : PayloadStart(page, n) \in Int /\ PayloadStart(page, n) <= PageSize
  BY <1>1, <1>2 DEF PayloadStart
<1>4. PayloadStart(page, 0) = PageSize
  BY <1>1, SumFacts DEF PayloadStart
<1>5. ASSUME NEW k \in 1 .. Len(page)
      PROVE  PayloadStart(page, k) = PayloadStart(page, k - 1) - SlotLength(page[k])
  <2>1. PayloadUpTo(page, k) = PayloadUpTo(page, k - 1) + SlotLength(page[k])
    BY SumFacts
  <2>2. PayloadUpTo(page, k - 1) \in Nat /\ SlotLength(page[k]) \in Nat
    <3>1. k - 1 \in 0 .. Len(page) /\ page[k] \in Slots
      BY <1>1
    <3> QED
      BY <1>2, <3>1, SlotLengthFacts
  <2> QED
    BY <1>1, <2>1, <2>2 DEF PayloadStart
<1>6. ASSUME NEW i \in 0 .. Len(page), NEW j \in 0 .. Len(page), i <= j
      PROVE  PayloadStart(page, j) <= PayloadStart(page, i)
  <2>1. PayloadUpTo(page, i) <= PayloadUpTo(page, j)
    BY <1>6, SumMonotone
  <2> QED
    BY <1>1, <1>2, <2>1 DEF PayloadStart
<1> QED
  BY <1>3, <1>4, <1>5, <1>6

\* Every byte of the payload is of one record.
LEMMA ByteOwner ==
    ASSUME NEW page \in Seq(Slots), NEW at \in Int,
           PayloadStart(page, Len(page)) <= at, at < PageSize
    PROVE  \E i \in Live(page) : PayloadStart(page, i) <= at /\ at < PayloadStart(page, i - 1)
<1> DEFINE S == {n \in 1 .. Len(page) : PayloadStart(page, n) <= at}
<1>1. Len(page) \in Nat /\ PageSize \in Nat /\ Len(page) \in 0 .. Len(page)
  BY PageAssumption
<1>2. S \in SUBSET (1 .. Len(page)) /\ S # {}
  <2>1. Len(page) # 0
    BY <1>1, PayloadFacts
  <2> QED
    BY <1>1, <2>1
<1>3. PICK i \in S : \A j \in S : i <= j
  BY <1>1, <1>2, FirstOf
<1>4. i \in 1 .. Len(page) /\ i - 1 \in 0 .. Len(page) /\ PayloadStart(page, i) <= at
  BY <1>1, <1>3
<1>5. at < PayloadStart(page, i - 1)
  <2>1. CASE i - 1 = 0
    BY <1>1, <2>1, PayloadFacts
  <2>2. CASE i - 1 # 0
    <3>1. i - 1 \in 1 .. Len(page) /\ i - 1 \notin S
      BY <1>1, <1>3, <1>4, <2>2
    <3>2. PayloadStart(page, i - 1) \in Int
      BY <1>4, PayloadFacts
    <3> QED
      BY <3>1, <3>2
  <2> QED
    BY <2>1, <2>2
<1>6. page[i] # Deleted
  <2>1. PayloadStart(page, i) = PayloadStart(page, i - 1) - SlotLength(page[i])
    BY <1>4, PayloadFacts
  <2>2. PayloadStart(page, i - 1) \in Int /\ PayloadStart(page, i) \in Int
    BY <1>1, <1>4, PayloadFacts
  <2> QED
    BY <1>4, <1>5, <2>1, <2>2, SlotLengthFacts
<1> QED
  BY <1>4, <1>5, <1>6 DEF Live

\* to_bytes writes no byte for two records.
LEMMA ByteOwnerIsOne ==
    ASSUME NEW page \in Seq(Slots), NEW at \in Int,
           NEW i \in Live(page), NEW j \in Live(page),
           PayloadStart(page, i) <= at, at < PayloadStart(page, i - 1),
           PayloadStart(page, j) <= at, at < PayloadStart(page, j - 1)
    PROVE  i = j
<1>1. /\ Len(page) \in Nat /\ i \in 1 .. Len(page) /\ j \in 1 .. Len(page)
      /\ i - 1 \in 0 .. Len(page) /\ j - 1 \in 0 .. Len(page)
      /\ i \in 0 .. Len(page) /\ j \in 0 .. Len(page)
  BY DEF Live
<1>2. /\ PayloadStart(page, i) \in Int /\ PayloadStart(page, i - 1) \in Int
      /\ PayloadStart(page, j) \in Int /\ PayloadStart(page, j - 1) \in Int
  BY <1>1, PayloadFacts
<1>3. CASE i < j
  <2>1. PayloadStart(page, j - 1) <= PayloadStart(page, i)
    BY <1>1, <1>3, PayloadFacts
  <2> QED
    BY <1>2, <2>1
<1>4. CASE j < i
  <2>1. PayloadStart(page, i - 1) <= PayloadStart(page, j)
    BY <1>1, <1>4, PayloadFacts
  <2> QED
    BY <1>2, <2>1
<1> QED
  BY <1>1, <1>3, <1>4

\* What to_bytes writes for each slot.
LEMMA DirectoryFacts ==
    ASSUME NEW page \in Seq(Slots), Encodable(page), NEW id
    PROVE  LET image == Encode(id, page) IN
             /\ FreeStart(page) <= PayloadStart(page, Len(page))
             /\ DOMAIN image.directory = 1 .. Len(page)
             /\ Len(image.directory) = Len(page)
             /\ \A i \in 1 .. Len(page) : i \notin Live(page) => image.directory[i] = Deleted
             /\ \A i \in Live(page) :
                   /\ image.directory[i] # Deleted
                   /\ image.directory[i].length = Length[page[i]]
                   /\ Covered(image.directory[i]) = PayloadStart(page, i) .. PayloadStart(page, i - 1) - 1
<1> DEFINE image == Encode(id, page)
<1>1. Len(page) \in Nat /\ DOMAIN page = 1 .. Len(page) /\ PageSize \in Nat /\ Len(page) \in 0 .. Len(page)
  BY PageAssumption
<1>2. image.directory = [i \in 1 .. Len(page) |->
            IF page[i] = Deleted THEN Deleted
            ELSE [offset |-> PayloadStart(page, i), length |-> Length[page[i]]]]
  BY <1>1 DEF Encode
<1> HIDE DEF image
<1>3. DOMAIN image.directory = 1 .. Len(page) /\ Len(image.directory) = Len(page)
  BY <1>1, <1>2
<1>4. \A i \in 1 .. Len(page) : i \notin Live(page) => image.directory[i] = Deleted
  BY <1>1, <1>2 DEF Live
<1>5. FreeStart(page) <= PayloadStart(page, Len(page)) /\ FreeStart(page) \in Nat
  <2>1. FreeStart(page) \in Nat
    BY <1>1, PageAssumption DEF FreeStart
  <2>2. PayloadUpTo(page, Len(page)) \in Nat
    BY <1>1, SumType
  <2>3. PayloadUpTo(page, Len(page)) + FreeStart(page) <= PageSize
    <3>1. CASE Live(page) = {}
      BY <1>1, <2>1, <3>1, SumOfDeleted DEF Encodable
    <3>2. CASE Live(page) # {}
      BY <3>2 DEF Encodable
    <3> QED
      BY <3>1, <3>2
  <2> QED
    BY <1>1, <2>1, <2>2, <2>3 DEF PayloadStart
<1>6. ASSUME NEW i \in Live(page)
      PROVE  /\ image.directory[i] # Deleted
             /\ image.directory[i].length = Length[page[i]]
             /\ Covered(image.directory[i]) = PayloadStart(page, i) .. PayloadStart(page, i - 1) - 1
  <2>1. /\ i \in 1 .. Len(page) /\ i \in 0 .. Len(page) /\ i - 1 \in 0 .. Len(page)
        /\ page[i] \in Records /\ page[i] # Deleted
    BY <1>1 DEF Live, Slots
  <2>2. image.directory[i] = [offset |-> PayloadStart(page, i), length |-> Length[page[i]]]
    BY <1>2, <2>1
  <2>3. Length[page[i]] \in Nat /\ PayloadStart(page, i) = PayloadStart(page, i - 1) - Length[page[i]]
    BY <2>1, PayloadFacts, SlotLengthFacts
  <2>4. /\ PayloadStart(page, i) \in Int /\ PayloadStart(page, i - 1) \in Int
        /\ PayloadStart(page, i - 1) <= PageSize
        /\ PayloadStart(page, Len(page)) <= PayloadStart(page, i)
        /\ PayloadStart(page, Len(page)) \in Int
    BY <1>1, <2>1, PayloadFacts
  <2>5. PayloadStart(page, i) \in 0 .. PageSize /\ Length[page[i]] \in 0 .. PageSize
    BY <1>1, <1>5, <2>3, <2>4
  <2>6. image.directory[i] # Deleted
    BY <2>2, <2>5, RecordAssumption
  <2>7. Covered(image.directory[i]) = PayloadStart(page, i) .. PayloadStart(page, i) + Length[page[i]] - 1
    BY <2>2 DEF Covered
  <2>8. PayloadStart(page, i) + Length[page[i]] = PayloadStart(page, i - 1)
    BY <2>3, <2>4
  <2>9. image.directory[i].length = Length[page[i]]
    BY <2>2
  <2>10. Covered(image.directory[i]) = PayloadStart(page, i) .. PayloadStart(page, i - 1) - 1
    BY <2>3, <2>4, <2>7, <2>8
  <2> QED
    BY <2>6, <2>9, <2>10
<1> QED
  BY <1>3, <1>4, <1>5, <1>6 DEF image

\* from_bytes takes what to_bytes makes, and makes the same page of it.
THEOREM EncodedPagesRead ==
    ASSUME NEW page \in Seq(Slots), Encodable(page), NEW id
    PROVE  /\ Valid(Encode(id, page))
           /\ Decode(Encode(id, page)) = page
           /\ Encode(id, page).id = id
<1> DEFINE image == Encode(id, page)
           used == {i \in DOMAIN image.directory : image.directory[i] # Deleted}
<1>1. Len(page) \in Nat /\ DOMAIN page = 1 .. Len(page) /\ PageSize \in Nat /\ Len(page) \in 0 .. Len(page)
  BY PageAssumption
<1>2. /\ image.id = id /\ image.live = Cardinality(Live(page))
      /\ image.freeStart = FreeStart(page) /\ image.freeEnd = PayloadStart(page, Len(page))
      /\ image.payload = [at \in PayloadStart(page, Len(page)) .. PageSize - 1 |->
            page[CHOOSE i \in Live(page) :
                    PayloadStart(page, i) <= at /\ at < PayloadStart(page, i - 1)]]
  BY DEF Encode
<1>3. /\ FreeStart(page) <= PayloadStart(page, Len(page))
      /\ DOMAIN image.directory = 1 .. Len(page) /\ Len(image.directory) = Len(page)
      /\ \A i \in 1 .. Len(page) : i \notin Live(page) => image.directory[i] = Deleted
  BY DirectoryFacts
<1>4. \A i \in Live(page) :
         /\ image.directory[i] # Deleted
         /\ image.directory[i].length = Length[page[i]]
         /\ Covered(image.directory[i]) = PayloadStart(page, i) .. PayloadStart(page, i - 1) - 1
  BY DirectoryFacts
<1> HIDE DEF image
<1>5. used = Live(page)
  BY <1>1, <1>3, <1>4 DEF Live
<1>6. \A i \in Live(page) : i \in 1 .. Len(page) /\ i \in 0 .. Len(page) /\ i - 1 \in 0 .. Len(page)
  BY <1>1 DEF Live
<1>7. PayloadStart(page, Len(page)) \in Int /\ PayloadStart(page, Len(page)) <= PageSize
  BY <1>1, PayloadFacts
<1>8. \A i \in Live(page) :
         /\ PayloadStart(page, i) \in Int /\ PayloadStart(page, i - 1) \in Int
         /\ PayloadStart(page, Len(page)) <= PayloadStart(page, i)
         /\ PayloadStart(page, i - 1) <= PageSize
  BY <1>1, <1>6, PayloadFacts
<1>9. ASSUME NEW i \in Live(page)
      PROVE  Covered(image.directory[i]) \subseteq image.freeEnd .. PageSize - 1
  <2>1. Covered(image.directory[i]) = PayloadStart(page, i) .. PayloadStart(page, i - 1) - 1
    BY <1>4
  <2> QED
    BY <1>1, <1>2, <1>7, <1>8, <2>1
<1>10. ASSUME NEW i \in Live(page), NEW j \in Live(page), i # j
       PROVE  Covered(image.directory[i]) \cap Covered(image.directory[j]) = {}
  <2> SUFFICES ASSUME NEW at \in Covered(image.directory[i]), at \in Covered(image.directory[j])
               PROVE  FALSE
    OBVIOUS
  <2>1. /\ at \in PayloadStart(page, i) .. PayloadStart(page, i - 1) - 1
        /\ at \in PayloadStart(page, j) .. PayloadStart(page, j - 1) - 1
    BY <1>4
  <2>2. /\ at \in Int
        /\ PayloadStart(page, i) <= at /\ at < PayloadStart(page, i - 1)
        /\ PayloadStart(page, j) <= at /\ at < PayloadStart(page, j - 1)
    BY <1>8, <2>1
  <2> QED
    BY <1>10, <2>2, ByteOwnerIsOne
<1>11. image.freeEnd .. PageSize - 1 \subseteq UNION {Covered(image.directory[i]) : i \in Live(page)}
  <2> SUFFICES ASSUME NEW at \in image.freeEnd .. PageSize - 1
               PROVE  \E i \in Live(page) : at \in Covered(image.directory[i])
    OBVIOUS
  <2>1. at \in Int /\ PayloadStart(page, Len(page)) <= at /\ at < PageSize
    BY <1>1, <1>2, <1>7
  <2>2. PICK i \in Live(page) : PayloadStart(page, i) <= at /\ at < PayloadStart(page, i - 1)
    BY <2>1, ByteOwner
  <2>3. at \in PayloadStart(page, i) .. PayloadStart(page, i - 1) - 1
    BY <1>8, <2>1, <2>2
  <2> QED
    BY <1>4, <2>3
<1>12. Valid(image)
  <2>1. image.freeStart = HeaderSize + Len(image.directory) * SlotSize
    BY <1>2, <1>3 DEF FreeStart
  <2>2. image.freeStart <= image.freeEnd /\ image.freeEnd <= PageSize
    BY <1>2, <1>3, <1>7
  <2>3. Cardinality(used) = image.live
    BY <1>2, <1>5
  <2>4. UNION {Covered(image.directory[i]) : i \in Live(page)} = image.freeEnd .. PageSize - 1
    BY <1>9, <1>11
  <2> HIDE DEF used
  <2>5. /\ \A i \in used : Covered(image.directory[i]) \subseteq image.freeEnd .. PageSize - 1
        /\ UNION {Covered(image.directory[i]) : i \in used} = image.freeEnd .. PageSize - 1
        /\ \A i, j \in used :
              i # j => Covered(image.directory[i]) \cap Covered(image.directory[j]) = {}
    BY <1>5, <1>9, <1>10, <2>4
  <2> QED
    BY <2>1, <2>2, <2>3, <2>5 DEF Valid, used
<1>13. ASSUME NEW i \in Live(page)
       PROVE  RecordAt(image, image.directory[i]) = page[i]
  <2> DEFINE entry == image.directory[i]
             IsIt(record) == /\ Length[record] = entry.length
                             /\ \A at \in Covered(entry) : image.payload[at] = record
  <2>1. page[i] \in Records
    BY DEF Live, Slots
  <2>2. ASSUME NEW at \in Covered(entry)
        PROVE  image.payload[at] = page[i]
    <3>1. at \in PayloadStart(page, i) .. PayloadStart(page, i - 1) - 1
      BY <1>4
    <3>2. at \in Int /\ PayloadStart(page, i) <= at /\ at < PayloadStart(page, i - 1)
      BY <1>8, <3>1
    <3>3. at \in PayloadStart(page, Len(page)) .. PageSize - 1
      BY <1>1, <1>7, <1>8, <3>2
    <3>4. \A j \in Live(page) :
             PayloadStart(page, j) <= at /\ at < PayloadStart(page, j - 1) => j = i
      BY <3>2, ByteOwnerIsOne
    <3>5. (CHOOSE j \in Live(page) :
              PayloadStart(page, j) <= at /\ at < PayloadStart(page, j - 1)) = i
      BY <3>2, <3>4
    <3> QED
      BY <1>2, <3>3, <3>5
  <2>3. IsIt(page[i])
    BY <1>4, <2>2
  <2>4. ASSUME NEW record \in Records, IsIt(record)
        PROVE  record = page[i]
    <3>1. Length[record] = Length[page[i]] /\ Length[page[i]] \in Nat
      BY <1>4, <2>1, <2>4, PageAssumption
    <3>2. CASE Length[page[i]] = 0
      BY <2>1, <3>1, <3>2, RecordAssumption
    <3>3. CASE Length[page[i]] > 0
      <4>1. PayloadStart(page, i) = PayloadStart(page, i - 1) - Length[page[i]]
        BY <1>6, <2>1, PayloadFacts, SlotLengthFacts
      <4>2. PayloadStart(page, i) \in PayloadStart(page, i) .. PayloadStart(page, i - 1) - 1
        BY <1>8, <3>1, <3>3, <4>1
      <4>3. PayloadStart(page, i) \in Covered(entry)
        BY <1>4, <4>2
      <4> QED
        BY <2>2, <2>4, <4>3
    <3> QED
      BY <3>1, <3>2, <3>3
  <2> HIDE DEF IsIt
  <2>5. (CHOOSE record \in Records : IsIt(record)) = page[i]
    BY <2>1, <2>3, <2>4
  <2> QED
    BY <2>5 DEF RecordAt, IsIt
<1>14. Decode(image) = page
  <2>1. Decode(image) = [i \in 1 .. Len(page) |->
            IF image.directory[i] = Deleted THEN Deleted ELSE RecordAt(image, image.directory[i])]
    BY <1>3 DEF Decode
  <2>2. \A i \in 1 .. Len(page) :
           page[i] = IF image.directory[i] = Deleted THEN Deleted
                     ELSE RecordAt(image, image.directory[i])
    BY <1>1, <1>3, <1>4, <1>13 DEF Live
  <2>3. page = [i \in 1 .. Len(page) |-> page[i]]
    BY <1>1
  <2> QED
    BY <2>1, <2>2, <2>3
<1> QED
  BY <1>2, <1>12, <1>14 DEF image

-----------------------------------------------------------------------------
(* The invariant *)

\* Pages that the engine makes: documents and deleted slots, and an image of them.
DocumentPages == {page \in Seq(Documents \cup {Deleted}) : Encodable(page)}

\* The documents, with their places, in all images that a crash may leave.
Stored ==
    {s \in Pages \X (1 .. PageSize) \X Documents :
        \E image \in kept[s[1]] :
            /\ Reads(image, s[1])
            /\ s[2] \in Live(Decode(image))
            /\ Decode(image)[s[2]] = s[3]}

FilesInv ==
    /\ \E S : file \in Seq(S)
    /\ \E S : kept \in Seq(S)

PagesInv ==
    \A p \in Pages : \A image \in kept[p] : Reads(image, p) => Decode(image) \in DocumentPages

\* No two places have documents of one id, in whatever images, unless a failed
\* insert of the id was repeated.
StoredOnce ==
    \A s, t \in Stored : IdOf[s[3]] = IdOf[t[3]] => s = t \/ IdOf[s[3]] \in retried

\* Until the next sync, images of a page differ by documents that were added.
StoredIsRead ==
    \A s \in Stored : Readable(s[1]) =>
        s[2] \in Live(Content(s[1])) /\ Content(s[1])[s[2]] = s[3]

\* The directory knows all places, those in older images too, but what a failed
\* insert has left.
StoredIsKnown ==
    up = FALSE \/ \A s \in Stored : locations[IdOf[s[3]]] = <<s[1], s[2]>> \/ IdOf[s[3]] \in failed

\* A place in the directory is one of its id.
PlacesResolve ==
    \A id \in Ids : locations[id] # Absent =>
        LET p == locations[id][1]
            i == locations[id][2]
        IN  Readable(p) => i \in Live(Content(p)) /\ IdOf[Content(p)[i]] = id

ClosedInv == up = TRUE \/ (locations = Nowhere /\ failed = {})

\* A document that was synchronized is in every image of its page.
DurableIsStored ==
    \A d \in durable : \E p \in 1 .. durableLength : \A image \in kept[p] :
        Reads(image, p) => \E i \in Live(Decode(image)) : Decode(image)[i] = d

DurableIsKnown == up = FALSE \/ \A d \in durable : locations[IdOf[d]] # Absent

\* The inductive invariant.
IndInv ==
    /\ TypeOK /\ FilesInv /\ PagesInv
    /\ StoredOnce /\ StoredIsRead /\ StoredIsKnown
    /\ PlacesResolve /\ ClosedInv
    /\ DurableIsStored /\ DurableIsKnown

-----------------------------------------------------------------------------
(* Pages and files *)

\* What is in the slots of a page, or the pages of a file, types it.
LEMMA SequenceOf ==
    ASSUME NEW S, NEW T, NEW s \in Seq(S), \A i \in 1 .. Len(s) : s[i] \in T
    PROVE  s \in Seq(T)
<1>1. Len(s) \in Nat /\ s = [i \in 1 .. Len(s) |-> s[i]]
  OBVIOUS
<1>2. s \in [1 .. Len(s) -> T]
  BY <1>1
<1> QED
  BY <1>1, <1>2

\* A page has no more slots than bytes.
LEMMA DocumentPageFacts ==
    ASSUME NEW page \in DocumentPages
    PROVE  /\ page \in Seq(Slots) /\ Encodable(page) /\ page \in Seq(Documents \cup {Deleted})
           /\ Live(page) \subseteq 1 .. Len(page) /\ Len(page) \in 0 .. PageSize
           /\ \A i \in Live(page) : page[i] \in Documents /\ i \in 1 .. PageSize
<1>1. page \in Seq(Documents \cup {Deleted}) /\ Encodable(page)
  BY DEF DocumentPages
<1>2. page \in Seq(Slots)
  <2>1. \A i \in 1 .. Len(page) : page[i] \in Slots
    BY <1>1, EngineAssumption DEF Slots
  <2> QED
    BY <1>1, <2>1, SequenceOf
<1>3. Len(page) \in Nat /\ DOMAIN page = 1 .. Len(page)
  BY <1>1
<1>4. Len(page) <= PageSize
  <2>1. HeaderSize + Len(page) * SlotSize <= PageSize
    BY <1>1 DEF Encodable, FreeStart
  <2>2. SlotSize - 1 \in Nat /\ Len(page) * (SlotSize - 1) \in Nat
    BY <1>3, PageAssumption
  <2>3. Len(page) * SlotSize = Len(page) + Len(page) * (SlotSize - 1)
    BY <1>3, PageAssumption
  <2> QED
    BY <1>3, <2>1, <2>2, <2>3, PageAssumption
<1>5. \A i \in Live(page) : i \in 1 .. Len(page) /\ page[i] \in Documents
  BY <1>1, <1>3 DEF Live
<1> QED
  BY <1>1, <1>2, <1>3, <1>4, <1>5, PageAssumption

\* allocate begins with a page without records.
LEMMA EmptyPageFacts ==
    /\ EmptyPage \in DocumentPages
    /\ Live(EmptyPage) = {}
<1>1. Live(EmptyPage) = {}
  BY DEF Live, EmptyPage
<1>2. FreeStart(EmptyPage) <= PageSize
  <2>1. Len(EmptyPage) = 0
    BY DEF EmptyPage
  <2> QED
    BY <2>1, PageAssumption DEF FreeStart
<1> QED
  BY <1>1, <1>2 DEF DocumentPages, EmptyPage, Encodable

\* The files of an engine, and what it reads in them.
LEMMA FileFacts ==
    ASSUME IndInv
    PROVE  /\ Len(file) \in 0 .. MaxPages /\ Pages = 1 .. Len(file) /\ DOMAIN kept = Pages
           /\ Len(kept) = Len(file)
           /\ \A p \in Pages : file[p] \in kept[p]
           /\ \A p \in Pages : Readable(p) => Content(p) \in DocumentPages
           /\ \A p \in Pages : \A image \in kept[p] : Reads(image, p) =>
                 \A i \in Live(Decode(image)) : <<p, i, Decode(image)[i]>> \in Stored
<1>1. PICK S : file \in Seq(S)
  BY DEF IndInv, FilesInv
<1>2. PICK T : kept \in Seq(T)
  BY DEF IndInv, FilesInv
<1>3. Len(file) \in 0 .. MaxPages /\ Pages = 1 .. Len(file) /\ DOMAIN kept = Pages
  BY <1>1, EngineAssumption DEF IndInv, TypeOK, Pages
<1>4. Len(kept) = Len(file)
  BY <1>1, <1>2, <1>3
<1>5. \A p \in Pages : file[p] \in kept[p]
  BY DEF IndInv, TypeOK
<1>6. \A p \in Pages : Readable(p) => Content(p) \in DocumentPages
  BY <1>5 DEF IndInv, PagesInv, Readable, Content
<1>7. ASSUME NEW p \in Pages, NEW image \in kept[p], Reads(image, p), NEW i \in Live(Decode(image))
      PROVE  <<p, i, Decode(image)[i]>> \in Stored
  <2>1. Decode(image) \in DocumentPages
    BY <1>7 DEF IndInv, PagesInv
  <2>2. Decode(image)[i] \in Documents /\ i \in 1 .. PageSize
    BY <2>1, DocumentPageFacts
  <2> QED
    BY <1>7, <2>2 DEF Stored
<1> QED
  BY <1>3, <1>4, <1>5, <1>6, <1>7

\* A page is written behind the others, or in place.
LEMMA WrittenFacts ==
    ASSUME IndInv, NEW p, p \in Pages \/ p = Len(file) + 1, NEW image, Written(p, image)
    PROVE  /\ FilesInv' /\ Pages' = Pages \cup {p} /\ DOMAIN kept' = Pages'
           /\ Len(file') = IF p \in Pages THEN Len(file) ELSE Len(file) + 1
           /\ file'[p] = image /\ kept'[p] = Before(p) \cup {image, Garbled}
           /\ \A q \in Pages : q # p => file'[q] = file[q] /\ kept'[q] = kept[q]
           /\ durableLength' = durableLength
<1>1. PICK S : file \in Seq(S)
  BY DEF IndInv, FilesInv
<1>2. PICK T : kept \in Seq(T)
  BY DEF IndInv, FilesInv
<1> DEFINE images == Before(p) \cup {image, Garbled}
<1>3. /\ Len(file) \in Nat /\ Pages = 1 .. Len(file) /\ DOMAIN kept = Pages /\ Len(kept) = Len(file)
      /\ DOMAIN file = Pages
  BY FileFacts DEF Pages
<1>4. durableLength' = durableLength
  BY DEF Written
<1> HIDE DEF images
<1>5. CASE p \in Pages
  <2>1. file' = [file EXCEPT ![p] = image] /\ kept' = [kept EXCEPT ![p] = images]
    BY <1>5 DEF Written, images
  <2>2. file \in Seq(S \cup {image}) /\ kept \in Seq(T \cup {images})
    <3>1. \A i \in 1 .. Len(file) : file[i] \in S \cup {image}
      BY <1>1
    <3>2. \A i \in 1 .. Len(kept) : kept[i] \in T \cup {images}
      BY <1>2
    <3> QED
      BY <1>1, <1>2, <3>1, <3>2, SequenceOf
  <2>3. /\ file' \in Seq(S \cup {image}) /\ Len(file') = Len(file) /\ file'[p] = image
        /\ \A q \in Pages : q # p => file'[q] = file[q]
    BY <1>3, <1>5, <2>1, <2>2
  <2>4. /\ kept' \in Seq(T \cup {images}) /\ kept'[p] = images
        /\ \A q \in Pages : q # p => kept'[q] = kept[q]
    BY <1>3, <1>5, <2>1, <2>2
  <2>5. Pages' = Pages \cup {p} /\ DOMAIN kept' = Pages'
    BY <1>3, <1>5, <2>1 DEF Pages
  <2>6. FilesInv'
    BY <2>3, <2>4 DEF FilesInv
  <2> QED
    BY <1>4, <1>5, <2>3, <2>4, <2>5, <2>6 DEF images
<1>6. CASE p \notin Pages
  <2>1. file' = Append(file, image) /\ kept' = Append(kept, images) /\ p = Len(file) + 1
    BY <1>6 DEF Written, images
  <2>2. file \in Seq(S \cup {image}) /\ kept \in Seq(T \cup {images})
    <3>1. \A i \in 1 .. Len(file) : file[i] \in S \cup {image}
      BY <1>1
    <3>2. \A i \in 1 .. Len(kept) : kept[i] \in T \cup {images}
      BY <1>2
    <3> QED
      BY <1>1, <1>2, <3>1, <3>2, SequenceOf
  <2>3. /\ file' \in Seq(S \cup {image}) /\ Len(file') = Len(file) + 1 /\ file'[p] = image
        /\ \A q \in Pages : file'[q] = file[q]
    BY <1>3, <2>1, <2>2
  <2>4. /\ kept' \in Seq(T \cup {images}) /\ Len(kept') = Len(file) + 1 /\ kept'[p] = images
        /\ \A q \in Pages : kept'[q] = kept[q]
    BY <1>3, <2>1, <2>2
  <2>5. Pages' = Pages \cup {p} /\ DOMAIN kept' = Pages'
    <3>1. DOMAIN file' = 1 .. Len(file) + 1 /\ DOMAIN kept' = 1 .. Len(file) + 1
      BY <2>3, <2>4
    <3> QED
      BY <1>3, <2>1, <3>1 DEF Pages
  <2>6. FilesInv'
    BY <2>3, <2>4 DEF FilesInv
  <2> QED
    BY <1>4, <1>6, <2>3, <2>4, <2>5, <2>6 DEF images
<1> QED
  BY <1>5, <1>6

\* An image that the engine makes of a page is read as this page.
LEMMA ImageFacts ==
    ASSUME NEW page \in DocumentPages, NEW p
    PROVE  Decode(Encode(p, page)) = page
  BY DocumentPageFacts, EncodedPagesRead

-----------------------------------------------------------------------------
(* Steps of the engine *)

\* The places and the documents at them do not depend on more than the images.
LEMMA FewerStored ==
    ASSUME IndInv, Stored' \subseteq Stored, retried' = retried
    PROVE  /\ StoredOnce'
           /\ up' = up /\ locations' = locations /\ failed' = failed => StoredIsKnown'
  BY DEF IndInv, StoredOnce, StoredIsKnown

\* A document goes into a page of the file with room, or into a page that is
\* allocated for it, and its place into the directory, unless the write fails with
\* the document in the file.
LEMMA PlaceKeeps ==
    ASSUME IndInv, up = TRUE, NEW d \in Documents, locations[IdOf[d]] = Absent,
           NEW p, NEW page,
           \/ p \in Pages /\ Readable(p) /\ page = Content(p)
           \/ p = Len(file) + 1 /\ Len(file) < MaxPages /\ page = EmptyPage,
           Encodable(InsertRecord(page, d)), Written(p, Encode(p, InsertRecord(page, d))),
           \/ locations' = [locations EXCEPT ![IdOf[d]] = <<p, SlotFor(page)>>] /\ failed' = failed
           \/ locations' = locations /\ failed' = failed \cup {IdOf[d]},
           Retried(d), UNCHANGED <<up, tail, durable, restarts>>, faults' \in 0 .. MaxFaults
    PROVE  IndInv'
<1> DEFINE new == InsertRecord(page, d)
           image == Encode(p, new)
           i == SlotFor(page)
<1>1. /\ Encodable(new) /\ Written(p, image)
      /\ \/ locations' = [locations EXCEPT ![IdOf[d]] = <<p, i>>] /\ failed' = failed
         \/ locations' = locations /\ failed' = failed \cup {IdOf[d]}
      /\ retried' = retried \cup (failed \cap {IdOf[d]})
      /\ UNCHANGED <<up, tail, durable, restarts>> /\ faults' \in 0 .. MaxFaults
  BY DEF Retried
<1>2. /\ Len(file) \in 0 .. MaxPages /\ Pages = 1 .. Len(file)
      /\ \A q \in Pages : file[q] \in kept[q]
  BY FileFacts
<1>3. page \in DocumentPages
  BY FileFacts, EmptyPageFacts
<1>4. p \in Pages \/ p = Len(file) + 1
  OBVIOUS
<1>5. /\ new \in Seq(Slots) /\ i \in 1 .. Len(new) /\ i \notin Live(page) /\ new[i] = d
      /\ Live(new) = Live(page) \cup {i}
      /\ \A j \in 1 .. Len(new) : j # i => j \in 1 .. Len(page) /\ new[j] = page[j]
  BY <1>3, DocumentPageFacts, InsertFacts, EngineAssumption
<1> HIDE DEF new, i
<1>6. \A j \in Live(page) : j # i /\ j \in Live(new) /\ new[j] = page[j]
  <2>1. Live(new) \subseteq 1 .. Len(new)
    BY <1>5 DEF Live
  <2> QED
    BY <1>5, <2>1
<1>7. new \in DocumentPages
  <2>1. ASSUME NEW j \in 1 .. Len(new)
        PROVE  new[j] \in Documents \cup {Deleted}
    <3>1. page \in Seq(Documents \cup {Deleted})
      BY <1>3, DocumentPageFacts
    <3> QED
      BY <1>5, <3>1
  <2> QED
    BY <1>1, <1>5, <2>1, SequenceOf DEF DocumentPages
<1>8. Decode(image) = new
  BY <1>7, ImageFacts
<1> HIDE DEF image
<1>9. /\ FilesInv' /\ Pages' = Pages \cup {p} /\ DOMAIN kept' = Pages'
      /\ Len(file') = IF p \in Pages THEN Len(file) ELSE Len(file) + 1
      /\ file'[p] = image /\ kept'[p] = Before(p) \cup {image, Garbled}
      /\ \A q \in Pages : q # p => file'[q] = file[q] /\ kept'[q] = kept[q]
      /\ durableLength' = durableLength
  BY <1>1, <1>4, WrittenFacts
<1>10. ASSUME NEW q \in Pages', NEW some \in kept'[q], Reads(some, q)
       PROVE  \/ q \in Pages /\ some \in kept[q]
              \/ q = p /\ Decode(some) = new
              \/ q = p /\ p \notin Pages /\ Decode(some) = EmptyPage
  <2>1. CASE q # p
    BY <1>9, <2>1
  <2>2. CASE q = p
    <3>1. some \in Before(p) \cup {image}
      BY <1>9, <1>10, <2>2 DEF Reads
    <3>2. Before(p) = IF p \in Pages THEN kept[p] ELSE {Encode(p, EmptyPage)}
      BY DEF Before
    <3>3. Decode(Encode(p, EmptyPage)) = EmptyPage
      BY EmptyPageFacts, ImageFacts
    <3> QED
      BY <1>8, <2>2, <3>1, <3>2, <3>3
  <2> QED
    BY <2>1, <2>2
<1>11. ASSUME NEW s \in Stored'
       PROVE  s \in Stored \/ s = <<p, i, d>>
  <2>1. /\ s = <<s[1], s[2], s[3]>> /\ s[1] \in Pages' /\ s[2] \in 1 .. PageSize /\ s[3] \in Documents
        /\ \E some \in kept'[s[1]] :
              Reads(some, s[1]) /\ s[2] \in Live(Decode(some)) /\ Decode(some)[s[2]] = s[3]
    BY <1>11 DEF Stored
  <2>2. PICK some \in kept'[s[1]] :
           Reads(some, s[1]) /\ s[2] \in Live(Decode(some)) /\ Decode(some)[s[2]] = s[3]
    BY <2>1
  <2>3. CASE s[1] \in Pages /\ some \in kept[s[1]]
    <3>1. <<s[1], s[2], Decode(some)[s[2]]>> \in Stored
      BY <2>2, <2>3, FileFacts
    <3> QED
      BY <2>1, <2>2, <3>1
  <2>4. CASE s[1] = p /\ Decode(some) = new
    <3>1. CASE s[2] = i
      BY <1>5, <2>1, <2>2, <2>4, <3>1
    <3>2. CASE s[2] # i
      <4>1. s[2] \in Live(page) /\ page[s[2]] = s[3]
        BY <1>5, <1>6, <2>2, <2>4, <3>2
      <4>2. p \in Pages /\ Readable(p) /\ page = Content(p)
        BY <4>1, EmptyPageFacts
      <4>3. file[p] \in kept[p] /\ Reads(file[p], p) /\ page = Decode(file[p])
        BY <1>2, <4>2 DEF Readable, Content
      <4>4. <<p, s[2], page[s[2]]>> \in Stored
        BY <4>1, <4>2, <4>3, FileFacts
      <4> QED
        BY <2>1, <2>4, <4>1, <4>4
    <3> QED
      BY <3>1, <3>2
  <2>5. CASE Decode(some) = EmptyPage
    BY <2>2, <2>5, EmptyPageFacts
  <2> QED
    BY <1>10, <2>1, <2>2, <2>3, <2>4, <2>5
<1>12. \A s \in Stored : s[1] \in Pages /\ s[2] \in 1 .. PageSize /\ s[3] \in Documents
  BY DEF Stored
<1>13. \A s \in Stored : \/ locations[IdOf[s[3]]] = <<s[1], s[2]>> /\ IdOf[s[3]] # IdOf[d]
                         \/ IdOf[s[3]] \in failed
  <2>1. \A s \in Stored : locations[IdOf[s[3]]] = <<s[1], s[2]>> \/ IdOf[s[3]] \in failed
    BY DEF IndInv, StoredIsKnown
  <2>2. \A s \in Stored : <<s[1], s[2]>> # Absent
    BY <1>2, <1>12, EngineAssumption
  <2> QED
    BY <2>1, <2>2
<1>14. StoredOnce'
  <2> SUFFICES ASSUME NEW s \in Stored', NEW t \in Stored', IdOf[s[3]] = IdOf[t[3]]
               PROVE  s = t \/ IdOf[s[3]] \in retried'
    BY DEF StoredOnce
  <2>1. CASE s \in Stored /\ t \in Stored
    BY <1>1, <2>1 DEF IndInv, StoredOnce
  <2>2. CASE s \in Stored /\ t = <<p, i, d>>
    BY <1>1, <1>13, <2>2
  <2>3. CASE s = <<p, i, d>> /\ t \in Stored
    BY <1>1, <1>13, <2>3
  <2> QED
    BY <1>11, <2>1, <2>2, <2>3
<1>15. /\ IdOf[d] \in Ids
       /\ \/ locations'[IdOf[d]] = <<p, i>>
          \/ locations'[IdOf[d]] = Absent /\ IdOf[d] \in failed'
       /\ \A id \in Ids : id # IdOf[d] => locations'[id] = locations[id]
       /\ failed \subseteq failed'
  BY <1>1 DEF IndInv, TypeOK, Ids
<1>16. StoredIsKnown'
  <2> SUFFICES ASSUME NEW s \in Stored'
               PROVE  locations'[IdOf[s[3]]] = <<s[1], s[2]>> \/ IdOf[s[3]] \in failed'
    BY DEF StoredIsKnown
  <2>1. CASE s = <<p, i, d>>
    BY <1>15, <2>1
  <2>2. CASE s \in Stored
    <3>1. IdOf[s[3]] \in Ids
      BY <1>12, <2>2 DEF Ids
    <3> QED
      BY <1>13, <1>15, <2>2, <3>1
  <2> QED
    BY <1>11, <2>1, <2>2
<1>17. i \in Live(new)
  BY <1>5
<1>18. \A q \in Pages' : q # p => q \in Pages /\ Readable(q)' = Readable(q) /\ Content(q)' = Content(q)
  BY <1>9 DEF Readable, Content
<1>19. Content(p)' = new
  BY <1>8, <1>9 DEF Content
<1>20. StoredIsRead'
  <2> SUFFICES ASSUME NEW s \in Stored', Readable(s[1])'
               PROVE  s[2] \in Live(Content(s[1]))' /\ Content(s[1])'[s[2]] = s[3]
    BY DEF StoredIsRead
  <2>1. CASE s = <<p, i, d>>
    BY <1>5, <1>17, <1>19, <2>1 DEF Live
  <2>2. CASE s \in Stored /\ s[1] = p
    <3>1. s[2] \in Live(page) /\ page[s[2]] = s[3]
      BY <1>2, <1>12, <2>2 DEF IndInv, StoredIsRead
    <3> QED
      BY <1>6, <1>19, <2>2, <3>1 DEF Live
  <2>3. CASE s \in Stored /\ s[1] # p
    <3>1. Readable(s[1]) /\ Content(s[1])' = Content(s[1])
      BY <1>9, <1>12, <1>18, <2>3
    <3>2. s[2] \in Live(Content(s[1])) /\ Content(s[1])[s[2]] = s[3]
      BY <2>3, <3>1 DEF IndInv, StoredIsRead
    <3> QED
      BY <3>1, <3>2 DEF Live
  <2> QED
    BY <1>11, <2>1, <2>2, <2>3
<1>21. PagesInv'
  <2> SUFFICES ASSUME NEW q \in Pages', NEW some \in kept'[q], Reads(some, q)
               PROVE  Decode(some) \in DocumentPages
    BY DEF PagesInv
  <2> QED
    BY <1>7, <1>10, EmptyPageFacts DEF IndInv, PagesInv
<1>22. \A id \in Ids : locations[id] # Absent => locations[id] \in Pages \X Nat
  BY DEF IndInv, TypeOK
<1>23. PlacesResolve'
  <2> SUFFICES ASSUME NEW id \in Ids, locations'[id] # Absent, NEW q, NEW j, q = locations'[id][1], j = locations'[id][2],
                      Readable(q)'
               PROVE  j \in Live(Content(q))' /\ IdOf[Content(q)'[j]] = id
    BY DEF PlacesResolve
  <2>1. CASE id = IdOf[d]
    <3>1. q = p /\ j = i
      BY <1>15, <2>1
    <3> QED
      BY <1>5, <1>17, <1>19, <2>1, <3>1 DEF Live
  <2>2. CASE id # IdOf[d]
    <3>1. locations[id] # Absent /\ q = locations[id][1] /\ j = locations[id][2] /\ q \in Pages
      BY <1>15, <1>22, <2>2
    <3>2. CASE q = p
      <4>1. Readable(q) /\ page = Content(q)
        BY <1>2, <3>1, <3>2
      <4>2. j \in Live(Content(q)) /\ IdOf[Content(q)[j]] = id
        BY <3>1, <4>1 DEF IndInv, PlacesResolve
      <4>3. j \in Live(new) /\ IdOf[new[j]] = id
        BY <1>6, <4>1, <4>2
      <4> QED
        BY <1>19, <3>2, <4>3 DEF Live
    <3>3. CASE q # p
      <4>1. Readable(q) /\ Content(q)' = Content(q)
        BY <1>9, <1>18, <3>1, <3>3
      <4>2. j \in Live(Content(q)) /\ IdOf[Content(q)[j]] = id
        BY <3>1, <4>1 DEF IndInv, PlacesResolve
      <4> QED
        BY <4>1, <4>2 DEF Live
    <3> QED
      BY <3>2, <3>3
  <2> QED
    BY <2>1, <2>2
<1>24. ClosedInv'
  BY <1>1 DEF ClosedInv
<1>25. DurableIsStored'
  <2> SUFFICES ASSUME NEW e \in durable
               PROVE  \E q \in 1 .. durableLength : \A some \in kept'[q] :
                         Reads(some, q) => \E j \in Live(Decode(some)) : Decode(some)[j] = e
    BY <1>1, <1>9 DEF DurableIsStored
  <2>1. PICK q \in 1 .. durableLength : \A some \in kept[q] :
           Reads(some, q) => \E j \in Live(Decode(some)) : Decode(some)[j] = e
    BY DEF IndInv, DurableIsStored
  <2>2. q \in Pages
    BY <1>2 DEF IndInv, TypeOK
  <2>3. CASE q # p
    BY <1>9, <2>1, <2>2, <2>3
  <2>4. CASE q = p
    <3>1. p \in Pages /\ Readable(p) /\ page = Content(p)
      BY <1>2, <2>2, <2>4
    <3>2. PICK j \in Live(page) : page[j] = e
      BY <1>2, <2>1, <2>4, <3>1 DEF Readable, Content
    <3>3. j \in Live(new) /\ new[j] = e
      BY <1>6, <3>2
    <3>4. ASSUME NEW some \in kept'[q], Reads(some, q)
          PROVE  \E k \in Live(Decode(some)) : Decode(some)[k] = e
      <4>1. CASE some \in kept[q]
        BY <2>1, <3>4, <4>1
      <4>2. CASE Decode(some) = new
        BY <3>3, <4>2
      <4> QED
        BY <1>9, <1>10, <2>2, <2>4, <3>1, <3>4, <4>1, <4>2
    <3> QED
      BY <3>4
  <2> QED
    BY <2>3, <2>4
<1>26. DurableIsKnown'
  <2> SUFFICES ASSUME NEW e \in durable
               PROVE  locations'[IdOf[e]] # Absent
    BY <1>1 DEF DurableIsKnown
  <2>1. locations[IdOf[e]] # Absent /\ e \in Documents
    BY DEF IndInv, DurableIsKnown, TypeOK
  <2>2. IdOf[e] \in Ids /\ IdOf[e] # IdOf[d]
    BY <2>1 DEF Ids
  <2> QED
    BY <1>15, <2>1, <2>2
<1>27. TypeOK'
  <2>1. Len(file') <= MaxPages /\ durableLength \in 0 .. Len(file')
    BY <1>2, <1>9, EngineAssumption DEF IndInv, TypeOK
  <2>2. locations' \in [Ids -> {Absent} \cup (Pages' \X Nat)]
    <3>1. i \in Nat /\ p \in Pages'
      BY <1>5, <1>9
    <3>2. locations \in [Ids -> {Absent} \cup (Pages' \X Nat)]
      BY <1>9 DEF IndInv, TypeOK
    <3>3. CASE locations' = locations
      BY <3>2, <3>3
    <3>4. CASE locations' = [locations EXCEPT ![IdOf[d]] = <<p, i>>]
      BY <3>1, <3>2, <3>4
    <3> QED
      BY <1>1, <3>3, <3>4
  <2>3. \A q \in Pages' : file'[q] \in kept'[q]
    BY <1>2, <1>9
  <2>4. up' \in BOOLEAN /\ tail' \in BOOLEAN
    BY <1>1 DEF IndInv, TypeOK
  <2>5. durable' \subseteq Documents /\ faults' \in 0 .. MaxFaults /\ restarts' \in 0 .. MaxRestarts
    BY <1>1 DEF IndInv, TypeOK
  <2>6. failed' \subseteq Ids /\ retried' \subseteq Ids
    BY <1>1, <1>15 DEF IndInv, TypeOK
  <2> QED
    BY <1>9, <2>1, <2>2, <2>3, <2>4, <2>5, <2>6 DEF TypeOK
<1> QED
  BY <1>9, <1>14, <1>16, <1>20, <1>21, <1>23, <1>24, <1>25, <1>26, <1>27 DEF IndInv

\* A write that fails leaves a page that does not read, or an empty page behind
\* the others: no document is anywhere where it was not.
LEMMA GarbleKeeps ==
    ASSUME IndInv, up = TRUE, NEW p, NEW image,
           \/ p \in Pages /\ image = Garbled
           \/ p = Len(file) + 1 /\ Len(file) < MaxPages /\ image \in {Encode(p, EmptyPage), Garbled},
           Written(p, image),
           UNCHANGED <<up, locations, tail, historyVars, restarts>>,
           faults' \in 0 .. MaxFaults
    PROVE  IndInv'
<1>1. (p \in Pages \/ p = Len(file) + 1) /\ UNCHANGED <<durable, failed, retried>>
  BY DEF historyVars
<1>2. /\ Len(file) \in 0 .. MaxPages /\ Pages = 1 .. Len(file)
      /\ \A q \in Pages : file[q] \in kept[q]
  BY FileFacts
<1>3. /\ FilesInv' /\ Pages' = Pages \cup {p} /\ DOMAIN kept' = Pages'
      /\ Len(file') = IF p \in Pages THEN Len(file) ELSE Len(file) + 1
      /\ file'[p] = image /\ kept'[p] = Before(p) \cup {image, Garbled}
      /\ \A q \in Pages : q # p => file'[q] = file[q] /\ kept'[q] = kept[q]
      /\ durableLength' = durableLength
  BY <1>1, WrittenFacts
<1>4. p \in Pages => image = Garbled
  BY <1>2
<1>5. ASSUME NEW q \in Pages', NEW some \in kept'[q], Reads(some, q)
      PROVE  \/ q \in Pages /\ some \in kept[q]
             \/ q = p /\ p \notin Pages /\ Decode(some) = EmptyPage
  <2>1. CASE q # p
    BY <1>3, <2>1
  <2>2. CASE q = p
    <3>1. some # Garbled
      BY <1>5 DEF Reads
    <3>2. some \in Before(p) \cup {image}
      BY <1>3, <2>2, <3>1
    <3>3. Before(p) = IF p \in Pages THEN kept[p] ELSE {Encode(p, EmptyPage)}
      BY DEF Before
    <3>4. Decode(Encode(p, EmptyPage)) = EmptyPage
      BY EmptyPageFacts, ImageFacts
    <3> QED
      BY <1>1, <1>4, <2>2, <3>1, <3>2, <3>3, <3>4
  <2> QED
    BY <2>1, <2>2
<1>6. ASSUME NEW s \in Stored'
      PROVE  s \in Stored
  <2>1. /\ s = <<s[1], s[2], s[3]>> /\ s[1] \in Pages' /\ s[2] \in 1 .. PageSize /\ s[3] \in Documents
        /\ \E some \in kept'[s[1]] :
              Reads(some, s[1]) /\ s[2] \in Live(Decode(some)) /\ Decode(some)[s[2]] = s[3]
    BY <1>6 DEF Stored
  <2>2. PICK some \in kept'[s[1]] :
           Reads(some, s[1]) /\ s[2] \in Live(Decode(some)) /\ Decode(some)[s[2]] = s[3]
    BY <2>1
  <2>3. CASE s[1] \in Pages /\ some \in kept[s[1]]
    <3>1. <<s[1], s[2], Decode(some)[s[2]]>> \in Stored
      BY <2>2, <2>3, FileFacts
    <3> QED
      BY <2>1, <2>2, <3>1
  <2>4. CASE Decode(some) = EmptyPage
    BY <2>2, <2>4, EmptyPageFacts
  <2> QED
    BY <1>5, <2>1, <2>2, <2>3, <2>4
<1>7. \A s \in Stored : s[1] \in Pages
  BY DEF Stored
<1>8. ASSUME NEW q \in Pages, Readable(q)'
      PROVE  Readable(q) /\ Content(q)' = Content(q)
  <2>1. q # p
    <3>1. file'[q] # Garbled
      BY <1>8 DEF Readable, Reads
    <3> QED
      BY <1>3, <1>4, <3>1
  <2> QED
    BY <1>3, <1>8, <2>1 DEF Readable, Content
<1>9. StoredOnce' /\ StoredIsKnown'
  BY <1>1, <1>6, FewerStored
<1>10. StoredIsRead'
  <2> SUFFICES ASSUME NEW s \in Stored', Readable(s[1])'
               PROVE  s[2] \in Live(Content(s[1]))' /\ Content(s[1])'[s[2]] = s[3]
    BY DEF StoredIsRead
  <2>1. s \in Stored /\ Readable(s[1]) /\ Content(s[1])' = Content(s[1])
    BY <1>6, <1>7, <1>8
  <2>2. s[2] \in Live(Content(s[1])) /\ Content(s[1])[s[2]] = s[3]
    BY <2>1 DEF IndInv, StoredIsRead
  <2> QED
    BY <2>1, <2>2 DEF Live
<1>11. PagesInv'
  <2> SUFFICES ASSUME NEW q \in Pages', NEW some \in kept'[q], Reads(some, q)
               PROVE  Decode(some) \in DocumentPages
    BY DEF PagesInv
  <2> QED
    BY <1>5, EmptyPageFacts DEF IndInv, PagesInv
<1>12. \A id \in Ids : locations[id] # Absent => locations[id] \in Pages \X Nat
  BY DEF IndInv, TypeOK
<1>13. PlacesResolve'
  <2> SUFFICES ASSUME NEW id \in Ids, locations[id] # Absent, NEW q, NEW j, q = locations[id][1], j = locations[id][2],
                      Readable(q)'
               PROVE  j \in Live(Content(q))' /\ IdOf[Content(q)'[j]] = id
    BY DEF PlacesResolve
  <2>1. q \in Pages
    BY <1>12
  <2>2. Readable(q) /\ Content(q)' = Content(q)
    BY <1>8, <2>1
  <2>3. j \in Live(Content(q)) /\ IdOf[Content(q)[j]] = id
    BY <2>2 DEF IndInv, PlacesResolve
  <2> QED
    BY <2>2, <2>3 DEF Live
<1>14. ClosedInv' /\ DurableIsKnown'
  BY <1>1 DEF IndInv, ClosedInv, DurableIsKnown
<1>15. DurableIsStored'
  <2> SUFFICES ASSUME NEW e \in durable
               PROVE  \E q \in 1 .. durableLength : \A some \in kept'[q] :
                         Reads(some, q) => \E j \in Live(Decode(some)) : Decode(some)[j] = e
    BY <1>1, <1>3 DEF DurableIsStored
  <2>1. PICK q \in 1 .. durableLength : \A some \in kept[q] :
           Reads(some, q) => \E j \in Live(Decode(some)) : Decode(some)[j] = e
    BY DEF IndInv, DurableIsStored
  <2>2. q \in Pages /\ q \in Pages'
    BY <1>2, <1>3 DEF IndInv, TypeOK
  <2> QED
    BY <1>5, <2>1, <2>2
<1>16. TypeOK'
  <2>1. Len(file') <= MaxPages /\ durableLength \in 0 .. Len(file')
    BY <1>2, <1>3, EngineAssumption DEF IndInv, TypeOK
  <2>2. locations' \in [Ids -> {Absent} \cup (Pages' \X Nat)]
    BY <1>3 DEF IndInv, TypeOK
  <2>3. \A q \in Pages' : file'[q] \in kept'[q]
    BY <1>2, <1>3
  <2>4. up' \in BOOLEAN /\ tail' \in BOOLEAN
    BY DEF IndInv, TypeOK
  <2>5. durable' \subseteq Documents /\ restarts' \in 0 .. MaxRestarts /\ failed' \subseteq Ids /\ retried' \subseteq Ids
    BY <1>1 DEF IndInv, TypeOK
  <2> QED
    BY <1>3, <2>1, <2>2, <2>3, <2>4, <2>5 DEF TypeOK
<1> QED
  BY <1>3, <1>9, <1>10, <1>11, <1>13, <1>14, <1>15, <1>16 DEF IndInv

\* A step that writes no page, opens no file and forgets no place, or forgets all.
LEMMA QuietKeeps ==
    ASSUME IndInv, UNCHANGED <<file, kept, durableLength, durable>>,
           tail' \in BOOLEAN, faults' \in 0 .. MaxFaults, restarts' \in 0 .. MaxRestarts, retried' = retried,
           \/ UNCHANGED <<up, locations, failed>>
           \/ up' = FALSE /\ locations' = Nowhere /\ failed' = {}
    PROVE  IndInv'
<1>1. Pages' = Pages /\ Stored' = Stored
  BY DEF Pages, Stored
<1>2. \A p : Readable(p)' = Readable(p) /\ Content(p)' = Content(p)
  BY DEF Readable, Content
<1>3. FilesInv' /\ PagesInv'
  BY <1>1 DEF IndInv, FilesInv, PagesInv
<1>4. StoredOnce' /\ StoredIsRead'
  BY <1>1, <1>2 DEF IndInv, StoredOnce, StoredIsRead, Live
<1>5. DurableIsStored'
  BY DEF IndInv, DurableIsStored
<1>6. CASE UNCHANGED <<up, locations, failed>>
  <2>1. StoredIsKnown' /\ ClosedInv' /\ DurableIsKnown'
    BY <1>1, <1>6 DEF IndInv, StoredIsKnown, ClosedInv, DurableIsKnown
  <2>2. PlacesResolve'
    BY <1>2, <1>6 DEF IndInv, PlacesResolve, Live
  <2>3. TypeOK'
    BY <1>1, <1>6 DEF IndInv, TypeOK
  <2> QED
    BY <1>3, <1>4, <1>5, <2>1, <2>2, <2>3 DEF IndInv
<1>7. CASE up' = FALSE /\ locations' = Nowhere /\ failed' = {}
  <2>1. StoredIsKnown' /\ ClosedInv' /\ DurableIsKnown'
    BY <1>7 DEF StoredIsKnown, ClosedInv, DurableIsKnown
  <2>2. PlacesResolve'
    BY <1>7 DEF PlacesResolve, Nowhere
  <2>3. TypeOK'
    BY <1>1, <1>7 DEF IndInv, TypeOK, Nowhere
  <2> QED
    BY <1>3, <1>4, <1>5, <2>1, <2>2, <2>3 DEF IndInv
<1> QED
  BY <1>6, <1>7

\* At a sync and after a crash there is one image of each page, in which are
\* documents that were in images before.
LEMMA SyncKeeps ==
    ASSUME IndInv, up' = FALSE, locations' = Nowhere, failed' = {}, retried' = retried, Synced,
           \E S : file' \in Seq(S), Len(file') <= MaxPages,
           \A p \in Pages' : Reads(file'[p], p) =>
              /\ Decode(file'[p]) \in DocumentPages
              /\ \A i \in Live(Decode(file'[p])) : <<p, i, Decode(file'[p])[i]>> \in Stored,
           durable' \subseteq Documents,
           \A d \in durable' : \E p \in 1 .. Len(file') :
              Reads(file'[p], p) => \E i \in Live(Decode(file'[p])) : Decode(file'[p])[i] = d,
           tail' \in BOOLEAN, faults' \in 0 .. MaxFaults, restarts' \in 0 .. MaxRestarts
    PROVE  IndInv'
<1>1. PICK S : file' \in Seq(S)
  OBVIOUS
<1>2. Len(file') \in Nat /\ Pages' = 1 .. Len(file')
  BY <1>1 DEF Pages
<1>3. kept' = [p \in Pages' |-> {file'[p]}] /\ durableLength' = Len(file')
  BY DEF Synced, Pages
<1>4. FilesInv'
  <2>1. kept' \in Seq({{file'[p]} : p \in Pages'})
    <3> DEFINE n == Len(file')
               contents == {{file'[p]} : p \in Pages'}
    <3>1. n \in Nat /\ kept' \in [1 .. n -> contents]
      BY <1>2, <1>3
    <3> HIDE DEF n, contents
    <3>2. kept' \in Seq(contents)
      BY <3>1
    <3> QED
      BY <3>2 DEF contents
  <2> QED
    BY <1>1, <2>1 DEF FilesInv
<1>5. ASSUME NEW s \in Stored'
      PROVE  /\ s = <<s[1], s[2], s[3]>> /\ s[1] \in Pages'
             /\ Reads(file'[s[1]], s[1]) /\ s[2] \in Live(Decode(file'[s[1]])) /\ Decode(file'[s[1]])[s[2]] = s[3]
  BY <1>3 DEF Stored
<1>6. Stored' \subseteq Stored
  <2>1. ASSUME NEW s \in Stored'
        PROVE  s \in Stored
    <3>1. <<s[1], s[2], Decode(file'[s[1]])[s[2]]>> \in Stored
      BY <1>5, <2>1
    <3> QED
      BY <1>5, <2>1, <3>1
  <2> QED
    BY <2>1
<1>7. StoredOnce'
  BY <1>6, FewerStored
<1>8. StoredIsRead'
  BY <1>5 DEF StoredIsRead, Content, Live
<1>9. PagesInv'
  BY <1>3 DEF PagesInv
<1>10. StoredIsKnown' /\ DurableIsKnown' /\ ClosedInv'
  BY DEF StoredIsKnown, DurableIsKnown, ClosedInv
<1>11. PlacesResolve'
  BY DEF PlacesResolve, Nowhere
<1>12. DurableIsStored'
  <2> SUFFICES ASSUME NEW d \in durable'
               PROVE  \E p \in 1 .. durableLength' : \A image \in kept'[p] :
                         Reads(image, p) => \E i \in Live(Decode(image)) : Decode(image)[i] = d
    BY DEF DurableIsStored
  <2>1. PICK p \in 1 .. Len(file') :
           Reads(file'[p], p) => \E i \in Live(Decode(file'[p])) : Decode(file'[p])[i] = d
    OBVIOUS
  <2>2. kept'[p] = {file'[p]} /\ p \in 1 .. durableLength'
    BY <1>2, <1>3, <2>1
  <2> QED
    BY <2>1, <2>2
<1>13. TypeOK'
  <2>1. locations' \in [Ids -> {Absent} \cup (Pages' \X Nat)]
    BY DEF Nowhere
  <2>2. \A p \in Pages' : file'[p] \in kept'[p]
    BY <1>3
  <2>3. DOMAIN kept' = Pages' /\ durableLength' \in 0 .. Len(file')
    BY <1>2, <1>3
  <2>4. failed' \subseteq Ids /\ retried' \subseteq Ids
    BY DEF IndInv, TypeOK
  <2>5. up' \in BOOLEAN
    OBVIOUS
  <2> QED
    BY <2>1, <2>2, <2>3, <2>4, <2>5 DEF TypeOK
<1> QED
  BY <1>4, <1>7, <1>8, <1>9, <1>10, <1>11, <1>12, <1>13 DEF IndInv

\* shutdown that synchronizes the file finds the documents in it.
LEMMA ShutdownKeeps ==
    ASSUME IndInv, Shutdown
    PROVE  IndInv'
<1>1. up' = FALSE /\ locations' = Nowhere /\ failed' = {} /\ retried' = retried /\ file' = file /\ tail' = tail /\ restarts' = restarts
  BY DEF Shutdown
<1>2. tail \in BOOLEAN /\ faults \in 0 .. MaxFaults /\ restarts \in 0 .. MaxRestarts
  BY DEF IndInv, TypeOK
<1>3. CASE IOError /\ UNCHANGED <<kept, durableLength, durable>>
  <2>1. faults' \in 0 .. MaxFaults
    BY <1>2, <1>3, EngineAssumption DEF IOError
  <2> QED
    BY <1>1, <1>2, <1>3, <2>1, QuietKeeps
<1>4. CASE /\ Synced /\ faults' = faults
           /\ durable' = UNION {DocumentsIn(p) : p \in {q \in Pages : Readable(q)}}
  <2>1. /\ Len(file) \in 0 .. MaxPages /\ Pages = 1 .. Len(file)
        /\ \A p \in Pages : file[p] \in kept[p]
        /\ \A p \in Pages : Readable(p) => Content(p) \in DocumentPages
    BY FileFacts
  <2>2. \E S : file' \in Seq(S)
    BY <1>1 DEF IndInv, FilesInv
  <2>3. Pages' = Pages
    BY <1>1 DEF Pages
  <2>4. \A p \in Pages' : Reads(file'[p], p) =>
           /\ Decode(file'[p]) \in DocumentPages
           /\ \A i \in Live(Decode(file'[p])) : <<p, i, Decode(file'[p])[i]>> \in Stored
    BY <1>1, <2>1, <2>3, FileFacts DEF Readable, Content
  <2>5. ASSUME NEW d \in durable'
        PROVE  /\ d \in Documents
               /\ \E p \in 1 .. Len(file') : \E i \in Live(Decode(file'[p])) : Decode(file'[p])[i] = d
    <3>1. PICK p \in Pages : Readable(p) /\ d \in DocumentsIn(p)
      BY <1>4, <2>5
    <3>2. PICK i \in Live(Content(p)) : d = Content(p)[i]
      BY <3>1 DEF DocumentsIn
    <3>3. Content(p) \in DocumentPages
      BY <2>1, <3>1
    <3> QED
      BY <1>1, <2>1, <3>2, <3>3, DocumentPageFacts DEF Content
  <2>6. \A d \in durable' : \E p \in 1 .. Len(file') :
           Reads(file'[p], p) => \E i \in Live(Decode(file'[p])) : Decode(file'[p])[i] = d
    BY <2>5
  <2>7. durable' \subseteq Documents
    BY <2>5
  <2>8. Len(file') <= MaxPages
    BY <1>1, <2>1, EngineAssumption
  <2>9. tail' \in BOOLEAN /\ faults' \in 0 .. MaxFaults /\ restarts' \in 0 .. MaxRestarts
    BY <1>1, <1>2, <1>4
  <2> QED
    BY <1>1, <1>4, <2>2, <2>4, <2>6, <2>7, <2>8, <2>9, SyncKeeps
<1> QED
  BY <1>3, <1>4 DEF Shutdown

\* The client of the page manager removes one document; any other keeps its slot.
LEMMA RemoveKeeps ==
    ASSUME IndInv, NEW p \in Pages, NEW i, RemoveRecord(p, i)
    PROVE  IndInv'
<1> DEFINE new == [Content(p) EXCEPT ![i] = Deleted]
           image == Encode(p, new)
<1>1. /\ up = FALSE /\ Readable(p) /\ i \in Live(Content(p))
      /\ file' = [file EXCEPT ![p] = image] /\ Synced
      /\ durable' = durable \ {Content(p)[i]}
      /\ UNCHANGED <<up, locations, tail, failed, retried, faults, restarts>>
  BY DEF RemoveRecord, IndInv, TypeOK
<1>2. /\ Len(file) \in 0 .. MaxPages /\ Pages = 1 .. Len(file)
      /\ \A q \in Pages : file[q] \in kept[q]
      /\ Content(p) \in DocumentPages
  BY <1>1, FileFacts
<1>3. /\ Content(p) \in Seq(Documents \cup {Deleted}) /\ Encodable(Content(p)) /\ Content(p) \in Seq(Slots)
      /\ i \in 1 .. Len(Content(p)) /\ Len(Content(p)) \in Nat
  BY <1>1, <1>2, DocumentPageFacts
<1>4. /\ new \in Seq(Documents \cup {Deleted}) /\ Len(new) = Len(Content(p)) /\ new[i] = Deleted
      /\ \A j \in 1 .. Len(new) : j # i => new[j] = Content(p)[j]
  BY <1>3
<1>5. Encodable(new)
  BY <1>1, <1>3, RemoveFacts
<1>6. \A j : j \in Live(new) <=> j \in Live(Content(p)) /\ j # i
  BY <1>3, <1>4 DEF Live
<1>7. new \in DocumentPages
  BY <1>4, <1>5 DEF DocumentPages
<1>8. Decode(image) = new
  BY <1>7, ImageFacts
<1> HIDE DEF new, image
<1>9. PICK S : file \in Seq(S)
  BY DEF IndInv, FilesInv
<1>10. /\ file' \in Seq(S \cup {image}) /\ Len(file') = Len(file) /\ file'[p] = image
       /\ \A q \in Pages : q # p => file'[q] = file[q]
  <2>1. file \in Seq(S \cup {image})
    <3>1. \A q \in 1 .. Len(file) : file[q] \in S \cup {image}
      BY <1>9
    <3> QED
      BY <1>9, <3>1, SequenceOf
  <2> QED
    BY <1>1, <1>2, <2>1
<1>11. Pages' = Pages
  BY <1>2, <1>10 DEF Pages
<1>12. ASSUME NEW q \in Pages, Reads(file'[q], q)
       PROVE  /\ Decode(file'[q]) \in DocumentPages
              /\ \A j \in Live(Decode(file'[q])) : <<q, j, Decode(file'[q])[j]>> \in Stored
  <2>1. CASE q # p
    BY <1>2, <1>10, <1>12, <2>1, FileFacts DEF Readable, Content
  <2>2. CASE q = p
    <3>1. ASSUME NEW j \in Live(new)
          PROVE  <<p, j, new[j]>> \in Stored
      <4>1. j \in Live(Content(p)) /\ j # i /\ j \in 1 .. Len(new)
        BY <1>3, <1>4, <1>6, <3>1 DEF Live
      <4>2. <<p, j, Content(p)[j]>> \in Stored
        BY <1>1, <1>2, <4>1, FileFacts DEF Readable, Content
      <4> QED
        BY <1>4, <4>1, <4>2
    <3> QED
      BY <1>7, <1>8, <1>10, <2>2, <3>1
  <2> QED
    BY <2>1, <2>2
<1>13. ASSUME NEW d \in durable'
       PROVE  \E q \in 1 .. Len(file') :
                 Reads(file'[q], q) => \E j \in Live(Decode(file'[q])) : Decode(file'[q])[j] = d
  <2>1. d \in durable /\ d # Content(p)[i]
    BY <1>1
  <2>2. PICK q \in 1 .. durableLength : \A some \in kept[q] :
           Reads(some, q) => \E j \in Live(Decode(some)) : Decode(some)[j] = d
    BY <2>1 DEF IndInv, DurableIsStored
  <2>3. q \in Pages /\ q \in 1 .. Len(file')
    BY <1>2, <1>10 DEF IndInv, TypeOK
  <2>4. Reads(file[q], q) => \E j \in Live(Decode(file[q])) : Decode(file[q])[j] = d
    BY <1>2, <2>2, <2>3
  <2>5. CASE q # p
    BY <1>10, <2>3, <2>4, <2>5
  <2>6. CASE q = p
    <3>1. PICK j \in Live(Content(p)) : Content(p)[j] = d
      BY <1>1, <2>4, <2>6 DEF Readable, Content
    <3>2. j # i
      BY <2>1, <3>1
    <3>3. j \in Live(new) /\ j \in 1 .. Len(new)
      BY <1>3, <1>4, <1>6, <3>1, <3>2 DEF Live
    <3>4. new[j] = d
      BY <1>4, <3>1, <3>2, <3>3
    <3> QED
      BY <1>8, <1>10, <2>3, <2>6, <3>3, <3>4
  <2> QED
    BY <2>5, <2>6
<1>14. locations' = Nowhere /\ up' = FALSE /\ failed' = {} /\ retried' = retried
  BY <1>1 DEF IndInv, ClosedInv
<1>15. durable' \subseteq Documents /\ tail' \in BOOLEAN /\ faults' \in 0 .. MaxFaults /\ restarts' \in 0 .. MaxRestarts
  BY <1>1 DEF IndInv, TypeOK
<1>16. Len(file') <= MaxPages /\ \E T : file' \in Seq(T)
  BY <1>2, <1>10, EngineAssumption
<1> QED
  BY <1>1, <1>11, <1>12, <1>13, <1>14, <1>15, <1>16, SyncKeeps

\* A crash leaves of each page one of the images that were kept of it, and the
\* synchronized pages at least.
LEMMA CrashKeeps ==
    ASSUME IndInv, Crash
    PROVE  IndInv'
<1>1. PICK n \in durableLength .. Len(file) :
         /\ file' \in {f \in [1 .. n -> UNION Range(kept)] : \A p \in 1 .. n : f[p] \in kept[p]}
         /\ tail' \in IF n < Len(file) THEN BOOLEAN ELSE {FALSE, tail}
  BY DEF Crash
<1>2. /\ up' = FALSE /\ locations' = Nowhere /\ failed' = {} /\ Synced
      /\ restarts < MaxRestarts /\ restarts' = restarts + 1
      /\ UNCHANGED <<durable, retried, faults>>
  BY DEF Crash
<1>3. /\ Len(file) \in 0 .. MaxPages /\ Pages = 1 .. Len(file)
      /\ durableLength \in 0 .. Len(file) /\ n \in Nat /\ n <= MaxPages
  BY <1>1, FileFacts, EngineAssumption DEF IndInv, TypeOK
<1>4. /\ file' \in Seq(UNION Range(kept)) /\ Len(file') = n
      /\ \A p \in 1 .. n : file'[p] \in kept[p]
  <2>1. file' \in [1 .. n -> UNION Range(kept)] /\ \A p \in 1 .. n : file'[p] \in kept[p]
    BY <1>1
  <2>2. file' \in Seq(UNION Range(kept))
    BY <1>3, <2>1
  <2>3. Len(file') = n
    BY <1>3, <2>1, <2>2
  <2> QED
    BY <2>1, <2>2, <2>3
<1>5. Pages' = 1 .. n /\ Pages' \subseteq Pages
  BY <1>1, <1>3, <1>4 DEF Pages
<1>6. \A p \in Pages' : Reads(file'[p], p) =>
         /\ Decode(file'[p]) \in DocumentPages
         /\ \A i \in Live(Decode(file'[p])) : <<p, i, Decode(file'[p])[i]>> \in Stored
  BY <1>4, <1>5, FileFacts DEF IndInv, PagesInv
<1>7. ASSUME NEW d \in durable'
      PROVE  \E p \in 1 .. Len(file') :
                Reads(file'[p], p) => \E i \in Live(Decode(file'[p])) : Decode(file'[p])[i] = d
  <2>1. PICK q \in 1 .. durableLength : \A image \in kept[q] :
           Reads(image, q) => \E i \in Live(Decode(image)) : Decode(image)[i] = d
    BY <1>2 DEF IndInv, DurableIsStored
  <2>2. q \in 1 .. n
    BY <1>1, <1>3
  <2> QED
    BY <1>4, <2>1, <2>2
<1>8. durable' \subseteq Documents /\ faults' \in 0 .. MaxFaults
  BY <1>2 DEF IndInv, TypeOK
<1>9. restarts' \in 0 .. MaxRestarts
  BY <1>2, EngineAssumption DEF IndInv, TypeOK
<1>10. tail' \in BOOLEAN
  BY <1>1 DEF IndInv, TypeOK
<1>11. Len(file') <= MaxPages /\ \E S : file' \in Seq(S)
  BY <1>3, <1>4
<1> QED
  BY <1>2, <1>6, <1>7, <1>8, <1>9, <1>10, <1>11, SyncKeeps

\* No two places have one id, as no two documents of an id are stored, if no failed
\* insert was repeated.
LEMMA IdsAreSingle ==
    ASSUME IndInv
    PROVE  /\ RepeatedIds \subseteq retried
           /\ \A place \in Found : /\ place = <<place[1], place[2]>> /\ place[1] \in Pages /\ place[2] \in 1 .. PageSize
                                   /\ Readable(place[1]) /\ place[2] \in Live(Content(place[1]))
                                   /\ <<place[1], place[2], RecordOf(place)>> \in Stored
<1>1. ASSUME NEW place \in Found
      PROVE  /\ place = <<place[1], place[2]>> /\ place[1] \in Pages /\ place[2] \in 1 .. PageSize
             /\ Readable(place[1]) /\ place[2] \in Live(Content(place[1]))
             /\ <<place[1], place[2], RecordOf(place)>> \in Stored
  <2>1. PICK p \in Pages : Readable(p) /\ place \in {<<p, i>> : i \in Live(Content(p))}
    BY DEF Found
  <2>2. PICK i \in Live(Content(p)) : place = <<p, i>>
    BY <2>1
  <2>3. <<p, i, Content(p)[i]>> \in Stored
    BY <2>1, <2>2, FileFacts DEF Readable, Content
  <2>4. i \in 1 .. PageSize
    BY <2>1, <2>2, FileFacts, DocumentPageFacts
  <2> QED
    BY <2>1, <2>2, <2>3, <2>4 DEF RecordOf
<1>2. ASSUME NEW a \in Found, NEW b \in Found, a # b, IdOf[RecordOf(b)] = IdOf[RecordOf(a)]
      PROVE  IdOf[RecordOf(a)] \in retried
  <2>1. \/ <<a[1], a[2], RecordOf(a)>> = <<b[1], b[2], RecordOf(b)>>
        \/ IdOf[RecordOf(a)] \in retried
    BY <1>1, <1>2 DEF IndInv, StoredOnce
  <2> QED
    BY <1>1, <1>2, <2>1
<1> QED
  BY <1>1, <1>2 DEF RepeatedIds

\* open finds every stored document, the synchronized ones among them.
LEMMA OpenKeeps ==
    ASSUME IndInv, Open
    PROVE  IndInv'
<1>1. /\ up' = TRUE /\ UNCHANGED <<file, tail, kept, durableLength, durable, failed, retried, faults, restarts>>
      /\ \A p \in Pages : Readable(p)
      /\ locations' = [id \in Ids |->
            IF \E place \in Found : IdOf[RecordOf(place)] = id
            THEN CHOOSE place \in Found : IdOf[RecordOf(place)] = id
            ELSE Absent]
  BY DEF Open, Consistent, fileVars, historyVars
<1>2. \A a, b \in Found : IdOf[RecordOf(a)] = IdOf[RecordOf(b)] => a = b
  BY DEF Open, Consistent, RepeatedIds
<1>3. /\ Len(file) \in 0 .. MaxPages /\ Pages = 1 .. Len(file)
      /\ Pages' = Pages /\ Stored' = Stored
  BY <1>1, FileFacts DEF Pages, Stored
<1>4. \A p : Readable(p)' = Readable(p) /\ Content(p)' = Content(p)
  BY <1>1 DEF Readable, Content
<1>5. ASSUME NEW place \in Found
      PROVE  /\ IdOf[RecordOf(place)] \in Ids
             /\ locations'[IdOf[RecordOf(place)]] = place
  <2>1. IdOf[RecordOf(place)] \in Ids
    BY IdsAreSingle DEF Ids, Stored
  <2>2. \A other \in Found : IdOf[RecordOf(other)] = IdOf[RecordOf(place)] => other = place
    BY <1>2
  <2> QED
    BY <1>1, <2>1, <2>2
<1>6. ASSUME NEW id \in Ids, locations'[id] # Absent
      PROVE  locations'[id] \in Found /\ IdOf[RecordOf(locations'[id])] = id
  BY <1>1, <1>6
<1>7. ASSUME NEW s \in Stored
      PROVE  /\ <<s[1], s[2]>> \in Found /\ RecordOf(<<s[1], s[2]>>) = s[3]
             /\ <<s[1], s[2]>> # Absent
  <2>1. s[1] \in Pages /\ s[2] \in 1 .. PageSize
    BY DEF Stored
  <2>2. s[2] \in Live(Content(s[1])) /\ Content(s[1])[s[2]] = s[3]
    BY <1>1, <2>1 DEF IndInv, StoredIsRead
  <2>3. <<s[1], s[2]>> # Absent
    BY <1>3, <2>1, EngineAssumption
  <2> QED
    BY <1>1, <2>1, <2>2, <2>3 DEF Found, RecordOf
<1>8. StoredIsKnown'
  BY <1>3, <1>5, <1>7 DEF StoredIsKnown
<1>9. PlacesResolve'
  <2> SUFFICES ASSUME NEW id \in Ids, locations'[id] # Absent, NEW q, NEW j, q = locations'[id][1], j = locations'[id][2],
                      Readable(q)'
               PROVE  j \in Live(Content(q))' /\ IdOf[Content(q)'[j]] = id
    BY DEF PlacesResolve
  <2>1. j \in Live(Content(q)) /\ IdOf[Content(q)[j]] = id
    BY <1>6, IdsAreSingle DEF RecordOf
  <2> QED
    BY <1>4, <2>1 DEF Live
<1>10. DurableIsKnown'
  <2> SUFFICES ASSUME NEW d \in durable
               PROVE  locations'[IdOf[d]] # Absent
    BY <1>1 DEF DurableIsKnown
  <2>1. PICK p \in 1 .. durableLength : \A image \in kept[p] :
           Reads(image, p) => \E i \in Live(Decode(image)) : Decode(image)[i] = d
    BY DEF IndInv, DurableIsStored
  <2>2. p \in Pages
    BY <1>3 DEF IndInv, TypeOK
  <2>3. PICK i \in Live(Content(p)) : Content(p)[i] = d
    BY <1>1, <2>1, <2>2, FileFacts DEF Readable, Content
  <2>4. <<p, i, d>> \in Stored
    BY <1>1, <2>2, <2>3, FileFacts DEF Readable, Content
  <2>5. <<p, i>> \in Found /\ RecordOf(<<p, i>>) = d /\ <<p, i>> # Absent
    BY <1>7, <2>4
  <2> QED
    BY <1>5, <2>5
<1>11. TypeOK'
  <2>1. locations' \in [Ids -> {Absent} \cup (Pages \X Nat)]
    <3>1. \A place \in Found : place \in Pages \X Nat
      <4>1. \A j \in 1 .. PageSize : j \in Nat
        BY PageAssumption
      <4>2. ASSUME NEW place \in Found
            PROVE  place \in Pages \X Nat
        <5>1. place = <<place[1], place[2]>> /\ place[1] \in Pages /\ place[2] \in Nat
          BY <4>1, IdsAreSingle
        <5> QED
          BY <5>1
      <4> QED
        BY <4>2
    <3>2. \A id \in Ids : locations'[id] \in {Absent} \cup (Pages \X Nat)
      BY <1>6, <3>1
    <3> QED
      BY <1>1, <3>2
  <2>2. up' \in BOOLEAN
    BY <1>1
  <2> QED
    BY <1>1, <1>3, <2>1, <2>2 DEF IndInv, TypeOK
<1>12. FilesInv' /\ PagesInv'
  BY <1>1, <1>3 DEF IndInv, FilesInv, PagesInv
<1>13. StoredOnce' /\ StoredIsRead'
  BY <1>1, <1>3, <1>4 DEF IndInv, StoredOnce, StoredIsRead, Live
<1>14. ClosedInv' /\ DurableIsStored'
  BY <1>1 DEF IndInv, ClosedInv, DurableIsStored
<1> QED
  BY <1>8, <1>9, <1>10, <1>11, <1>12, <1>13, <1>14 DEF IndInv

-----------------------------------------------------------------------------
(* The invariant holds *)

\* A new engine knows no document, and its file has no page.
LEMMA InitInv == Init => IndInv
<1> SUFFICES ASSUME Init
             PROVE  IndInv
  OBVIOUS
<1>1. /\ up = FALSE /\ locations = Nowhere /\ file = <<>> /\ tail = FALSE /\ kept = <<>>
      /\ durableLength = 0 /\ durable = {} /\ failed = {} /\ retried = {} /\ faults = 0 /\ restarts = 0
  BY DEF Init
<1>2. Pages = {} /\ DOMAIN kept = {} /\ Len(file) = 0
  BY <1>1 DEF Pages
<1>3. TypeOK
  <2>1. locations \in [Ids -> {Absent} \cup (Pages \X Nat)]
    BY <1>1 DEF Nowhere
  <2>2. 0 <= MaxPages /\ 0 \in 0 .. 0 /\ 0 \in 0 .. MaxFaults /\ 0 \in 0 .. MaxRestarts
    BY EngineAssumption
  <2>3. up \in BOOLEAN /\ tail \in BOOLEAN
    BY <1>1
  <2> HIDE DEF Pages
  <2> QED
    BY <1>1, <1>2, <2>1, <2>2, <2>3 DEF TypeOK
<1>4. FilesInv
  <2>1. file \in Seq({}) /\ kept \in Seq({})
    BY <1>1
  <2> QED
    BY <2>1 DEF FilesInv
<1>5. Stored = {} /\ PagesInv
  BY <1>2 DEF Stored, PagesInv
<1>6. StoredOnce /\ StoredIsRead /\ StoredIsKnown
  BY <1>5 DEF StoredOnce, StoredIsRead, StoredIsKnown
<1>7. PlacesResolve
  BY <1>1 DEF PlacesResolve, Nowhere
<1>8. ClosedInv /\ DurableIsStored /\ DurableIsKnown
  BY <1>1 DEF ClosedInv, DurableIsStored, DurableIsKnown
<1> QED
  BY <1>3, <1>4, <1>5, <1>6, <1>7, <1>8 DEF IndInv

\* Every step of the engine, of the other client and of the machine.
LEMMA StepInv == IndInv /\ [Next]_vars => IndInv'
<1> SUFFICES ASSUME IndInv, [Next]_vars
             PROVE  IndInv'
  OBVIOUS
<1>1. /\ up \in BOOLEAN /\ tail \in BOOLEAN /\ durable \subseteq Documents
      /\ faults \in 0 .. MaxFaults /\ restarts \in 0 .. MaxRestarts
  BY DEF IndInv, TypeOK
<1>2. IOError => faults' \in 0 .. MaxFaults
  BY <1>1, EngineAssumption DEF IOError
<1>3. CASE Open
  BY <1>3, OpenKeeps
<1>4. CASE OpenFails \/ UNCHANGED vars
  <2>1. UNCHANGED <<up, locations, file, tail, kept, durableLength, durable, failed, retried, faults, restarts>>
    BY <1>4 DEF OpenFails, vars, fileVars, historyVars
  <2> QED
    BY <1>1, <2>1, QuietKeeps
<1>5. ASSUME NEW d \in Documents, Insert(d)
      PROVE  IndInv'
  <2>1. up = TRUE /\ locations[IdOf[d]] = Absent
    BY <1>1, <1>5 DEF Insert, Insertable
  <2>2. PICK p \in Pages : IsTarget(p, d) /\ Place(p, Content(p), d)
    BY <1>5 DEF Insert
  <2>3. Readable(p)
    <3>1. p \in Nat /\ 1 <= p
      BY FileFacts
    <3> QED
      BY <2>2, <3>1 DEF IsTarget
  <2>4. /\ Encodable(InsertRecord(Content(p), d)) /\ Written(p, Encode(p, InsertRecord(Content(p), d)))
        /\ locations' = [locations EXCEPT ![IdOf[d]] = <<p, SlotFor(Content(p))>>] /\ failed' = failed
        /\ Retried(d) /\ UNCHANGED <<up, tail, durable, faults, restarts>>
    BY <2>2 DEF Place
  <2> QED
    BY <1>1, <2>1, <2>3, <2>4, PlaceKeeps
<1>6. ASSUME NEW d \in Documents, InsertAllocates(d)
      PROVE  IndInv'
  <2> DEFINE p == Len(file) + 1
  <2>1. /\ up = TRUE /\ locations[IdOf[d]] = Absent /\ Len(file) < MaxPages
        /\ Place(p, EmptyPage, d)
    BY <1>1, <1>6 DEF InsertAllocates, Insertable
  <2>2. /\ Encodable(InsertRecord(EmptyPage, d)) /\ Written(p, Encode(p, InsertRecord(EmptyPage, d)))
        /\ locations' = [locations EXCEPT ![IdOf[d]] = <<p, SlotFor(EmptyPage)>>] /\ failed' = failed
        /\ Retried(d) /\ UNCHANGED <<up, tail, durable, faults, restarts>>
    BY <2>1 DEF Place
  <2> QED
    BY <1>1, <2>1, <2>2, PlaceKeeps
<1>7. ASSUME NEW d \in Documents, InsertFails(d)
      PROVE  IndInv'
  <2>1. /\ up = TRUE /\ locations[IdOf[d]] = Absent /\ faults' \in 0 .. MaxFaults
        /\ UNCHANGED <<up, locations, durable, restarts>>
    BY <1>1, <1>2, <1>7 DEF InsertFails, Insertable
  <2>2. PICK p \in Pages :
           /\ IsTarget(p, d)
           /\ UNCHANGED <<fileVars, failed, retried>> \/ PartlyWritten(p, Content(p), d)
    BY <1>7 DEF InsertFails
  <2>3. Readable(p)
    <3>1. p \in Nat /\ 1 <= p
      BY FileFacts
    <3> QED
      BY <2>2, <3>1 DEF IsTarget
  <2>4. CASE UNCHANGED <<fileVars, failed, retried>>
    BY <1>1, <2>1, <2>4, QuietKeeps DEF fileVars
  <2>5. CASE PartlyWritten(p, Content(p), d)
    <3> tail' = tail /\ Encodable(InsertRecord(Content(p), d))
      BY <2>5 DEF PartlyWritten
    <3>1. CASE Written(p, Garbled) /\ UNCHANGED <<failed, retried>>
      BY <2>1, <2>5, <3>1, GarbleKeeps DEF historyVars
    <3>2. CASE /\ Written(p, Encode(p, InsertRecord(Content(p), d)))
               /\ failed' = failed \cup {IdOf[d]} /\ Retried(d)
      BY <2>1, <2>2, <2>3, <2>5, <3>2, PlaceKeeps
    <3> QED
      BY <2>5, <3>1, <3>2 DEF PartlyWritten
  <2> QED
    BY <2>2, <2>4, <2>5
<1>8. ASSUME NEW d \in Documents, AllocationFails(d)
      PROVE  IndInv'
  <2> DEFINE p == Len(file) + 1
  <2>1. /\ up = TRUE /\ locations[IdOf[d]] = Absent /\ faults' \in 0 .. MaxFaults
        /\ Len(file) < MaxPages
        /\ UNCHANGED <<up, locations, durable, restarts>>
    BY <1>1, <1>2, <1>8 DEF AllocationFails, Insertable
  <2>2. CASE tail' = TRUE /\ UNCHANGED <<file, kept, durableLength, failed, retried>>
    BY <1>1, <2>1, <2>2, QuietKeeps
  <2>3. CASE Written(p, Encode(p, EmptyPage)) /\ UNCHANGED <<tail, failed, retried>>
    BY <2>1, <2>3, GarbleKeeps DEF historyVars
  <2>4. CASE PartlyWritten(p, EmptyPage, d)
    <3> tail' = tail /\ Encodable(InsertRecord(EmptyPage, d))
      BY <2>4 DEF PartlyWritten
    <3>1. CASE Written(p, Garbled) /\ UNCHANGED <<failed, retried>>
      BY <2>1, <2>4, <3>1, GarbleKeeps DEF historyVars
    <3>2. CASE /\ Written(p, Encode(p, InsertRecord(EmptyPage, d)))
               /\ failed' = failed \cup {IdOf[d]} /\ Retried(d)
      BY <2>1, <2>4, <3>2, PlaceKeeps
    <3> QED
      BY <2>4, <3>1, <3>2 DEF PartlyWritten
  <2> QED
    BY <1>8, <2>2, <2>3, <2>4 DEF AllocationFails
<1>9. ASSUME NEW d \in Documents, AllocationMisplaced(d)
      PROVE  IndInv'
  <2>1. /\ up = TRUE /\ Len(file) < MaxPages /\ Written(Len(file) + 1, Garbled)
        /\ UNCHANGED <<up, locations, tail, historyVars, faults, restarts>>
    BY <1>1, <1>9 DEF AllocationMisplaced, Insertable
  <2> QED
    BY <1>1, <2>1, GarbleKeeps
<1>10. CASE Shutdown
  BY <1>10, ShutdownKeeps
<1>11. ASSUME NEW p \in Pages, NEW i \in 1 .. PageSize, RemoveRecord(p, i)
       PROVE  IndInv'
  BY <1>11, RemoveKeeps
<1>12. CASE Exit
  <2>1. /\ UNCHANGED <<file, tail, kept, durableLength, durable, retried, faults>>
        /\ up' = FALSE /\ locations' = Nowhere /\ failed' = {} /\ restarts < MaxRestarts /\ restarts' = restarts + 1
    BY <1>12 DEF Exit, fileVars
  <2>2. restarts' \in 0 .. MaxRestarts
    BY <1>1, <2>1, EngineAssumption
  <2> QED
    BY <1>1, <2>1, <2>2, QuietKeeps
<1>13. CASE Crash
  BY <1>13, CrashKeeps
<1> QED
  BY <1>3, <1>4, <1>5, <1>6, <1>7, <1>8, <1>9, <1>10, <1>11, <1>12, <1>13 DEF Next

\* The invariant of every reachable state of the engine.
THEOREM Invariance == Spec => []IndInv
  BY InitInv, StepInv, PTL DEF Spec

-----------------------------------------------------------------------------
(* What the engine promises *)

\* get (engine.rs) returns the document of the id, and open reports a duplicate only
\* of an id whose failed insert was repeated, however inserts, failed writes, exits
\* and crashes came.
THEOREM DirectoryFollowsPagesAlways == Spec => []DirectoryFollowsPages
<1>1. IndInv => DirectoryFollowsPages
  BY IdsAreSingle DEF IndInv, PlacesResolve, DirectoryFollowsPages
<1> QED
  BY Invariance, <1>1, PTL

\* What shutdown synchronized is in the directory of every later engine.
THEOREM SyncedDocumentsReturnAlways == Spec => []SyncedDocumentsReturn
<1>1. IndInv => SyncedDocumentsReturn
  BY DEF IndInv, DurableIsKnown, SyncedDocumentsReturn
<1> QED
  BY Invariance, <1>1, PTL

\* Page::insert (page.rs) accepts what to_bytes can write and from_bytes reads
\* again, in every page that the engine can meet.
THEOREM AcceptedRecordsEncodeAlways == Spec => []AcceptedRecordsEncode
<1>1. ASSUME IndInv
      PROVE  AcceptedRecordsEncode
  <2> SUFFICES ASSUME NEW p \in Pages, NEW record \in {r \in Records : Length[r] > 0},
                      Readable(p), Fits(Content(p), record)
               PROVE  LET page == InsertRecord(Content(p), record) IN
                        Encodable(page) /\ Valid(Encode(p, page)) /\ Decode(Encode(p, page)) = page
    BY DEF AcceptedRecordsEncode
  <2>1. Content(p) \in Seq(Slots) /\ Encodable(Content(p))
    BY <1>1, FileFacts, DocumentPageFacts
  <2>2. InsertRecord(Content(p), record) \in Seq(Slots)
    BY <2>1, InsertFacts
  <2>3. Encodable(InsertRecord(Content(p), record))
    BY <2>1, InsertEncodes
  <2> QED
    BY <2>2, <2>3, EncodedPagesRead
<1>2. IndInv => AcceptedRecordsEncode
  BY <1>1
<1> QED
  BY Invariance, <1>2, PTL
====
