-------------------------------- MODULE Ring --------------------------------
(***************************************************************************)
(* The circular queue that the OwnedBytes channel, the generic channel and *)
(* the thread pool each keep inside their core struct: an array of         *)
(* pointers, the index of the oldest entry (head), the index of the next   *)
(* free entry (tail) and the number of entries.  All of it is only touched *)
(* under the core's mutex, so the operators below are whole updates.       *)
(***************************************************************************)
EXTENDS Integers, Sequences, FiniteSets

CONSTANTS
    Capacity,   \* core->capacity, the number of slots
    NULL        \* the null pointer of an unoccupied slot

ASSUME CapacityAssumption == Capacity \in Nat \ {0}

Index == 0 .. Capacity - 1

RingOf(Item) ==
    [slots : [Index -> Item \cup {NULL}], head : Index, tail : Index,
     count : 0 .. Capacity]

EmptyRing ==
    [slots |-> [i \in Index |-> NULL], head |-> 0, tail |-> 0, count |-> 0]

Advance(i) == (i + 1) % Capacity

Put(r, item) ==
    [slots |-> [r.slots EXCEPT ![r.tail] = item],
     head  |-> r.head,
     tail  |-> Advance(r.tail),
     count |-> r.count + 1]

(* Mutants of Front and Take: reading at the wrong end of the queue, and    *)
(* leaving the taken pointer in its slot.                                   *)
FrontAtTail(r) == r.slots[(r.tail + Capacity - 1) % Capacity]

TakeKeepsPointer(r) ==
    [slots |-> r.slots,
     head  |-> Advance(r.head),
     tail  |-> r.tail,
     count |-> r.count - 1]

Front(r) == r.slots[r.head]

Take(r) ==
    [slots |-> [r.slots EXCEPT ![r.head] = NULL],
     head  |-> Advance(r.head),
     tail  |-> r.tail,
     count |-> r.count - 1]

Occupied(r) == {i \in Index : r.slots[i] # NULL}

(* The slot k places after the oldest entry, and the queue read in order.   *)
Slot(r, k) == (r.head + k) % Capacity

Contents(r) == [k \in 1 .. r.count |-> r.slots[Slot(r, k - 1)]]

(* The indices agree with each other and with the slots: tail is count      *)
(* places after head, and exactly the count slots from head on are in use.  *)
WellFormed(r) ==
    /\ r.tail = Slot(r, r.count) 
    /\ \A k \in Index : r.slots[Slot(r, k)] # NULL <=> k < r.count

=============================================================================
