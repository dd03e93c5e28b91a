----------------------------- MODULE RingProofs -----------------------------
(***************************************************************************)
(* What Put and Take do to a well-formed ring, for every capacity.  The    *)
(* proofs about the components that own a ring cite these lemmas and never *)
(* look at the index arithmetic.                                           *)
(***************************************************************************)
EXTENDS Ring, TLAPS

(* Below twice the capacity, the modulus subtracts the capacity or nothing. *)
LEMMA Wrap ==
    ASSUME NEW n \in 0 .. 2 * Capacity - 1
    PROVE  n % Capacity = IF n < Capacity THEN n ELSE n - Capacity
<1>1. CASE n < Capacity
  BY <1>1, CapacityAssumption, SMT
<1>2. CASE n >= Capacity
  BY <1>2, CapacityAssumption, SMT
<1>3. QED
  BY <1>1, <1>2, CapacityAssumption

(* head and tail stay inside the array when they advance. *)
LEMMA AdvanceIndex ==
    ASSUME NEW i \in Index
    PROVE  /\ Advance(i) = IF i + 1 = Capacity THEN 0 ELSE i + 1
           /\ Advance(i) \in Index
BY Wrap, CapacityAssumption DEF Advance, Index

(* Facts about the window of slots that starts at index h. *)
LEMMA Window ==
    ASSUME NEW h \in Index, NEW j \in Index, NEW k \in Index
    PROVE  /\ (h + k) % Capacity \in Index
           /\ (h + j) % Capacity = (h + k) % Capacity <=> j = k
           /\ Advance((h + k) % Capacity) = (h + (k + 1)) % Capacity
           /\ (Advance(h) + k) % Capacity = (h + (k + 1)) % Capacity
           /\ (h + 0) % Capacity = h
           /\ (h + Capacity) % Capacity = h
<1>1. \A n \in 0 .. 2 * Capacity - 1 :
         n % Capacity = IF n < Capacity THEN n ELSE n - Capacity
  BY Wrap
<1>2. (h + k) % Capacity = IF h + k < Capacity THEN h + k ELSE h + k - Capacity
  BY <1>1, CapacityAssumption DEF Index
<1>3. (h + j) % Capacity = IF h + j < Capacity THEN h + j ELSE h + j - Capacity
  BY <1>1, CapacityAssumption DEF Index
<1>4. (h + (k + 1)) % Capacity =
         IF h + (k + 1) < Capacity THEN h + (k + 1) ELSE h + (k + 1) - Capacity
  BY <1>1, CapacityAssumption DEF Index
<1>5. (h + k) % Capacity \in Index
  BY <1>2, CapacityAssumption DEF Index
<1>6. Advance((h + k) % Capacity) = (h + (k + 1)) % Capacity
  BY <1>2, <1>4, <1>5, AdvanceIndex, CapacityAssumption DEF Index
<1>7. (Advance(h) + k) % Capacity = (h + (k + 1)) % Capacity
  <2>1. Advance(h) \in Index /\ Advance(h) = IF h + 1 = Capacity THEN 0 ELSE h + 1
    BY AdvanceIndex
  <2>2. Advance(h) + k \in 0 .. 2 * Capacity - 1
    BY <2>1, CapacityAssumption DEF Index
  <2>3. QED
    BY <1>1, <1>4, <2>1, <2>2, CapacityAssumption DEF Index
<1>8. (h + j) % Capacity = (h + k) % Capacity <=> j = k
  BY <1>2, <1>3, CapacityAssumption DEF Index
<1>9. (h + 0) % Capacity = h /\ (h + Capacity) % Capacity = h
  BY <1>1, CapacityAssumption DEF Index
<1>10. QED
  BY <1>5, <1>6, <1>7, <1>8, <1>9

(* Different places of the window are different slots. *)
LEMMA SlotInjective ==
    ASSUME NEW r, r.head \in Index
    PROVE  \A j, k \in Index : Slot(r, j) = Slot(r, k) => j = k
<1>1. TAKE j \in Index, k \in Index
<1>2. HAVE Slot(r, j) = Slot(r, k)
<1>3. PICK h \in Index : h = r.head
  OBVIOUS
<1>4. (h + j) % Capacity = (h + k) % Capacity
  BY <1>2, <1>3 DEF Slot
<1>5. QED
  BY <1>4, Window

(* The empty ring of a new core is well formed. *)
LEMMA EmptyWellFormed ==
    ASSUME NEW Item
    PROVE  EmptyRing \in RingOf(Item) /\ WellFormed(EmptyRing)
<1>1. EmptyRing \in RingOf(Item)
  BY CapacityAssumption DEF EmptyRing, RingOf, Index
<1>2. 0 \in Index
  BY CapacityAssumption DEF Index
<1>3. EmptyRing.tail = Slot(EmptyRing, EmptyRing.count)
  BY <1>2, Window DEF EmptyRing, Slot
<1>4. ASSUME NEW k \in Index
      PROVE  EmptyRing.slots[Slot(EmptyRing, k)] # NULL <=> k < EmptyRing.count
  <2>1. Slot(EmptyRing, k) \in Index
    BY <1>2, Window DEF EmptyRing, Slot
  <2>2. EmptyRing.slots[Slot(EmptyRing, k)] = NULL
    BY <2>1 DEF EmptyRing
  <2>3. ~(k < EmptyRing.count)
    BY DEF EmptyRing, Index
  <2>4. QED
    BY <2>2, <2>3
<1>5. QED
  BY <1>1, <1>3, <1>4 DEF WellFormed

(* Storing into a ring that is not full keeps it well formed: the slot at   *)
(* tail was free, and the window of used slots grows by exactly that slot.  *)
LEMMA PutWellFormed ==
    ASSUME NEW Item, NULL \notin Item, NEW r \in RingOf(Item), WellFormed(r),
           r.count # Capacity, NEW item \in Item
    PROVE  /\ Put(r, item) \in RingOf(Item)
           /\ WellFormed(Put(r, item))
           /\ r.tail \in Index /\ r.slots[r.tail] = NULL
<1> DEFINE q == Put(r, item)
<1>1. /\ r.slots \in [Index -> Item \cup {NULL}] /\ r.head \in Index
      /\ r.tail \in Index /\ r.count \in Index
  BY CapacityAssumption DEF RingOf, Index
<1>2. /\ q.slots = [r.slots EXCEPT ![r.tail] = item] /\ q.head = r.head
      /\ q.tail = Advance(r.tail) /\ q.count = r.count + 1
  BY DEF Put
<1>3. r.tail = Slot(r, r.count)
  BY DEF WellFormed
<1>4. q \in RingOf(Item)
  <2>1. r.count + 1 \in 0 .. Capacity
    BY <1>1, CapacityAssumption DEF Index
  <2>2. QED
    BY <1>1, <2>1, AdvanceIndex DEF RingOf, Put
<1>5. q.tail = Slot(q, q.count)
  BY <1>1, <1>2, <1>3, Window DEF Slot
<1>6. ASSUME NEW k \in Index
      PROVE  q.slots[Slot(q, k)] # NULL <=> k < q.count
  <2>1. Slot(q, k) = Slot(r, k) /\ Slot(r, k) \in Index
    BY <1>1, <1>2, Window DEF Slot
  <2>2. Slot(r, k) = r.tail <=> k = r.count
    BY <1>1, <1>3, SlotInjective
  <2>3. CASE k = r.count
    <3>1. q.slots[Slot(q, k)] = item
      BY <1>1, <1>2, <2>1, <2>2, <2>3
    <3>2. k < q.count
      BY <1>1, <1>2, <2>3 DEF Index
    <3>3. QED
      BY <3>1, <3>2
  <2>4. CASE k # r.count
    <3>1. q.slots[Slot(q, k)] = r.slots[Slot(r, k)]
      BY <1>1, <1>2, <2>1, <2>2, <2>4
    <3>2. k < q.count <=> k < r.count
      BY <1>1, <1>2, <2>4 DEF Index
    <3>3. QED
      BY <3>1, <3>2 DEF WellFormed
  <2>5. QED
    BY <2>3, <2>4
<1>7. r.slots[r.tail] = NULL
  <2>1. ~(r.count < r.count)
    BY <1>1 DEF Index
  <2>2. QED
    BY <1>1, <1>3, <2>1 DEF WellFormed
<1>8. QED
  BY <1>1, <1>4, <1>5, <1>6, <1>7 DEF WellFormed

(* Taking from a ring that is not empty keeps it well formed, and what is   *)
(* taken is an item, never the null of a free slot.                         *)
LEMMA TakeWellFormed ==
    ASSUME NEW Item, NULL \notin Item, NEW r \in RingOf(Item), WellFormed(r),
           r.count > 0
    PROVE  /\ Take(r) \in RingOf(Item)
           /\ WellFormed(Take(r))
           /\ Front(r) \in Item
<1> DEFINE q == Take(r)
<1>1. /\ r.slots \in [Index -> Item \cup {NULL}] /\ r.head \in Index
      /\ r.tail \in Index /\ r.count \in 1 .. Capacity /\ r.count - 1 \in Index
  BY CapacityAssumption DEF RingOf, Index
<1>2. /\ q.slots = [r.slots EXCEPT ![r.head] = NULL] /\ q.head = Advance(r.head)
      /\ q.tail = r.tail /\ q.count = r.count - 1
  BY DEF Take
<1>3. r.tail = Slot(r, r.count)
  BY DEF WellFormed
<1>4. q \in RingOf(Item)
  <2>1. r.count - 1 \in 0 .. Capacity
    BY <1>1, CapacityAssumption DEF Index
  <2>2. QED
    BY <1>1, <2>1, AdvanceIndex DEF RingOf, Take
<1>5. 0 \in Index /\ Slot(r, 0) = r.head
  BY <1>1, Window, CapacityAssumption DEF Slot, Index
<1>6. \A k \in Index : Slot(q, k) = Slot(r, k + 1)
  BY <1>1, <1>2, Window DEF Slot
<1>7. q.tail = Slot(q, q.count)
  <2>1. (r.count - 1) + 1 = r.count
    BY <1>1
  <2>2. QED
    BY <1>1, <1>2, <1>3, <1>6, <2>1
<1>8. ASSUME NEW k \in Index
      PROVE  q.slots[Slot(q, k)] # NULL <=> k < q.count
  <2>1. CASE k + 1 = Capacity
    <3>1. Slot(q, k) = r.head
      BY <1>1, <1>6, <2>1, Window DEF Slot
    <3>2. q.slots[Slot(q, k)] = NULL
      BY <1>1, <1>2, <3>1
    <3>3. ~(k < q.count)
      BY <1>1, <1>2, <2>1 DEF Index
    <3>4. QED
      BY <3>2, <3>3
  <2>2. CASE k + 1 # Capacity
    <3>1. k + 1 \in Index /\ k + 1 # 0
      BY <2>2, CapacityAssumption DEF Index
    <3>2. Slot(r, k + 1) \in Index /\ Slot(r, k + 1) # r.head
      <4>1. Slot(r, k + 1) \in Index
        BY <1>1, <3>1, Window DEF Slot
      <4>2. Slot(r, k + 1) # Slot(r, 0)
        BY <1>1, <1>5, <3>1, SlotInjective
      <4>3. QED
        BY <1>5, <4>1, <4>2
    <3>3. q.slots[Slot(q, k)] = r.slots[Slot(r, k + 1)]
      BY <1>1, <1>2, <1>6, <3>2
    <3>4. k < q.count <=> k + 1 < r.count
      BY <1>1, <1>2 DEF Index
    <3>5. QED
      BY <3>1, <3>3, <3>4 DEF WellFormed
  <2>3. QED
    BY <2>1, <2>2
<1>9. Front(r) \in Item
  <2>1. 0 < r.count
    BY <1>1
  <2>2. r.slots[Slot(r, 0)] # NULL
    BY <1>5, <2>1 DEF WellFormed
  <2>3. QED
    BY <1>1, <1>5, <2>2 DEF Front
<1>10. QED
  BY <1>4, <1>7, <1>8, <1>9 DEF WellFormed

(* Put leaves the queued items in place and adds its item behind them. *)
LEMMA PutReads ==
    ASSUME NEW Item, NULL \notin Item, NEW r \in RingOf(Item), WellFormed(r),
           r.count # Capacity, NEW item \in Item
    PROVE  /\ Put(r, item).count = r.count + 1
           /\ Put(r, item).slots[Slot(Put(r, item), r.count)] = item
           /\ \A k \in 0 .. r.count - 1 :
                 Put(r, item).slots[Slot(Put(r, item), k)] = r.slots[Slot(r, k)]
<1> DEFINE q == Put(r, item)
<1>1. /\ r.slots \in [Index -> Item \cup {NULL}] /\ r.head \in Index
      /\ r.tail \in Index /\ r.count \in Index /\ 0 .. r.count - 1 \subseteq Index
  BY CapacityAssumption DEF RingOf, Index
<1>2. /\ q.slots = [r.slots EXCEPT ![r.tail] = item] /\ q.head = r.head
      /\ q.count = r.count + 1
  BY DEF Put
<1>3. r.tail = Slot(r, r.count)
  BY DEF WellFormed
<1>4. \A k \in Index : Slot(q, k) = Slot(r, k) /\ Slot(r, k) \in Index
  BY <1>1, <1>2, Window DEF Slot
<1>5. ASSUME NEW k \in 0 .. r.count - 1
      PROVE  q.slots[Slot(q, k)] = r.slots[Slot(r, k)]
  <2>1. k \in Index /\ k # r.count
    BY <1>1 DEF Index
  <2>2. Slot(r, k) # r.tail
    BY <1>1, <1>3, <2>1, SlotInjective
  <2>3. QED
    BY <1>1, <1>2, <1>4, <2>1, <2>2
<1>6. q.slots[Slot(q, r.count)] = item
  BY <1>1, <1>2, <1>3, <1>4
<1>7. QED
  BY <1>2, <1>5, <1>6

(* Take removes the oldest item and leaves the others in their order. *)
LEMMA TakeReads ==
    ASSUME NEW Item, NEW r \in RingOf(Item), WellFormed(r), r.count > 0
    PROVE  /\ Take(r).count = r.count - 1
           /\ Front(r) = r.slots[Slot(r, 0)]
           /\ \A k \in 0 .. r.count - 2 :
                 Take(r).slots[Slot(Take(r), k)] = r.slots[Slot(r, k + 1)]
<1> DEFINE q == Take(r)
<1>1. /\ r.slots \in [Index -> Item \cup {NULL}] /\ r.head \in Index
      /\ r.count \in 1 .. Capacity /\ 0 \in Index
      /\ \A k \in 0 .. r.count - 2 : k \in Index /\ k + 1 \in Index /\ k + 1 # 0
  BY CapacityAssumption DEF RingOf, Index
<1>2. /\ q.slots = [r.slots EXCEPT ![r.head] = NULL] /\ q.head = Advance(r.head)
      /\ q.count = r.count - 1
  BY DEF Take
<1>3. Slot(r, 0) = r.head
  BY <1>1, Window DEF Slot
<1>4. ASSUME NEW k \in 0 .. r.count - 2
      PROVE  q.slots[Slot(q, k)] = r.slots[Slot(r, k + 1)]
  <2>1. Slot(q, k) = Slot(r, k + 1)
    BY <1>1, <1>2, Window DEF Slot
  <2>2. Slot(r, k + 1) \in Index
    BY <1>1, Window DEF Slot
  <2>3. Slot(r, k + 1) # r.head
    BY <1>1, <1>3, SlotInjective
  <2>4. QED
    BY <1>1, <1>2, <2>1, <2>2, <2>3
<1>5. QED
  BY <1>2, <1>3, <1>4 DEF Front

(* The slots of the window hold items. *)
LEMMA QueuedItems ==
    ASSUME NEW Item, NEW r \in RingOf(Item), WellFormed(r)
    PROVE  /\ r.count \in 0 .. Capacity
           /\ \A k \in 0 .. r.count - 1 : r.slots[Slot(r, k)] \in Item
<1>1. /\ r.slots \in [Index -> Item \cup {NULL}] /\ r.head \in Index
      /\ r.count \in 0 .. Capacity
  BY DEF RingOf
<1>2. ASSUME NEW k \in 0 .. r.count - 1
      PROVE  r.slots[Slot(r, k)] \in Item
  <2>1. k \in Index /\ k < r.count
    BY <1>1, CapacityAssumption DEF Index
  <2>2. Slot(r, k) \in Index
    BY <1>1, <2>1, Window DEF Slot
  <2>3. QED
    BY <1>1, <2>1, <2>2 DEF WellFormed
<1>3. QED
  BY <1>1, <1>2

-----------------------------------------------------------------------------
(* The queue read in order.                                                 *)
LOCAL INSTANCE SequenceTheorems

(* The queue read in order is a sequence of items. *)
LEMMA ContentsSequence ==
    ASSUME NEW Item, NEW r \in RingOf(Item), WellFormed(r)
    PROVE  /\ Contents(r) \in Seq(Item)
           /\ Len(Contents(r)) = r.count
           /\ \A k \in 1 .. r.count : Contents(r)[k] = r.slots[Slot(r, k - 1)]
           /\ Contents(r) = <<>> <=> r.count = 0
<1>1. r.count \in Nat /\ \A k \in 0 .. r.count - 1 : r.slots[Slot(r, k)] \in Item
  BY QueuedItems, CapacityAssumption
<1>2. \A k \in 1 .. r.count : k - 1 \in 0 .. r.count - 1
  BY <1>1
<1>3. Contents(r) \in [1 .. r.count -> Item]
  BY <1>1, <1>2 DEF Contents
<1>4. Contents(r) \in Seq(Item)
  BY <1>1, <1>3, SeqDef
<1>5. Len(Contents(r)) = r.count
  BY <1>1, <1>3, <1>4, LenProperties
<1>6. Contents(r) = <<>> <=> r.count = 0
  BY <1>1, <1>4, <1>5, EmptySeq
<1>7. \A k \in 1 .. r.count : Contents(r)[k] = r.slots[Slot(r, k - 1)]
  BY DEF Contents
<1>8. QED
  BY <1>4, <1>5, <1>6, <1>7

(* The ring of a new core reads as the empty queue. *)
LEMMA EmptyContents == Contents(EmptyRing) = <<>>
<1>1. EmptyRing \in RingOf({}) /\ WellFormed(EmptyRing) /\ EmptyRing.count = 0
  BY EmptyWellFormed DEF EmptyRing
<1>2. QED
  BY <1>1, ContentsSequence

(* Put appends. *)
LEMMA PutAppends ==
    ASSUME NEW Item, NULL \notin Item, NEW r \in RingOf(Item), WellFormed(r),
           r.count # Capacity, NEW item \in Item
    PROVE  Contents(Put(r, item)) = Append(Contents(r), item)
<1> DEFINE q == Put(r, item)
           c == r.count
<1>1. q \in RingOf(Item) /\ WellFormed(q)
  BY PutWellFormed
<1>2. /\ q.count = c + 1 /\ q.slots[Slot(q, c)] = item
      /\ \A k \in 0 .. c - 1 : q.slots[Slot(q, k)] = r.slots[Slot(r, k)]
  BY PutReads
<1>3. /\ Contents(q) \in Seq(Item) /\ Len(Contents(q)) = c + 1
      /\ \A k \in 1 .. c + 1 : Contents(q)[k] = q.slots[Slot(q, k - 1)]
  BY <1>1, <1>2, ContentsSequence
<1>4. /\ Contents(r) \in Seq(Item) /\ Len(Contents(r)) = c
      /\ \A k \in 1 .. c : Contents(r)[k] = r.slots[Slot(r, k - 1)]
  BY ContentsSequence
<1>5. c \in Nat
  BY QueuedItems, CapacityAssumption
<1>6. /\ Append(Contents(r), item) \in Seq(Item)
      /\ Len(Append(Contents(r), item)) = c + 1
      /\ \A k \in 1 .. c : Append(Contents(r), item)[k] = Contents(r)[k]
      /\ Append(Contents(r), item)[c + 1] = item
  BY <1>4, <1>5, AppendProperties
<1>7. ASSUME NEW k \in 1 .. c + 1
      PROVE  Contents(q)[k] = Append(Contents(r), item)[k]
  <2>1. CASE k = c + 1
    BY <1>2, <1>3, <1>5, <1>6, <2>1
  <2>2. CASE k # c + 1
    <3>1. k \in 1 .. c /\ k - 1 \in 0 .. c - 1
      BY <1>5, <2>2
    <3>2. QED
      BY <1>2, <1>3, <1>4, <1>6, <3>1
  <2>3. QED
    BY <2>1, <2>2
<1>8. QED
  BY <1>3, <1>6, <1>7, SeqEqual

(* Take removes the head, and Front is the head. *)
LEMMA TakeRemovesHead ==
    ASSUME NEW Item, NULL \notin Item, NEW r \in RingOf(Item), WellFormed(r),
           r.count > 0
    PROVE  /\ Contents(r) # <<>>
           /\ Contents(Take(r)) = Tail(Contents(r))
           /\ Front(r) = Head(Contents(r))
<1> DEFINE q == Take(r)
           c == r.count
<1>1. q \in RingOf(Item) /\ WellFormed(q)
  BY TakeWellFormed
<1>2. /\ q.count = c - 1 /\ Front(r) = r.slots[Slot(r, 0)]
      /\ \A k \in 0 .. c - 2 : q.slots[Slot(q, k)] = r.slots[Slot(r, k + 1)]
  BY TakeReads
<1>3. /\ Contents(q) \in Seq(Item) /\ Len(Contents(q)) = c - 1
      /\ \A k \in 1 .. c - 1 : Contents(q)[k] = q.slots[Slot(q, k - 1)]
  BY <1>1, <1>2, ContentsSequence
<1>4. c \in Nat \ {0}
  BY QueuedItems, CapacityAssumption
<1>5. /\ Contents(r) \in Seq(Item) /\ Len(Contents(r)) = c /\ Contents(r) # <<>>
      /\ \A k \in 1 .. c : Contents(r)[k] = r.slots[Slot(r, k - 1)]
  BY <1>4, ContentsSequence
<1>6. /\ Tail(Contents(r)) \in Seq(Item) /\ Len(Tail(Contents(r))) = c - 1
      /\ \A k \in 1 .. c - 1 : Tail(Contents(r))[k] = Contents(r)[k + 1]
  BY <1>5, HeadTailProperties
<1>7. ASSUME NEW k \in 1 .. c - 1
      PROVE  Contents(q)[k] = Tail(Contents(r))[k]
  <2>1. k - 1 \in 0 .. c - 2 /\ (k - 1) + 1 = k /\ k + 1 \in 1 .. c /\ (k + 1) - 1 = k
    BY <1>4
  <2>2. QED
    BY <1>2, <1>3, <1>5, <1>6, <2>1
<1>8. Contents(q) = Tail(Contents(r))
  BY <1>3, <1>6, <1>7, SeqEqual
<1>9. Head(Contents(r)) = Contents(r)[1] /\ 1 \in 1 .. c /\ 1 - 1 = 0
  BY <1>4, <1>5
<1>10. QED
  BY <1>2, <1>5, <1>8, <1>9

=============================================================================
