---------------------- MODULE OwnedBytesChannelProofs ----------------------
(***************************************************************************)
(* IInv is an inductive invariant of OwnedBytesChannel, for every number   *)
(* of senders, every capacity, every byte limit and every set of faults.   *)
(* The proof has one lemma per conjunct of IInv; each goes through the     *)
(* actions that can disturb that conjunct.                                 *)
(***************************************************************************)
EXTENDS OwnedBytesChannel, RingProofs, FiniteSetTheorems

(* Most leaves are first-order; those that are not name their prover.       *)
USE Zenon

(* A function that is one to one and onto is a bijection. *)
LEMMA OneToOne ==
    ASSUME NEW S, NEW T, NEW f \in [S -> T],
           \A x, y \in S : f[x] = f[y] => x = y,
           \A z \in T : \E x \in S : f[x] = z
    PROVE  ExistsBijection(S, T)
<1>1. f \in Injection(S, T) /\ f \in Surjection(S, T)
  BY DEF Injection, IsInjective, Surjection
<1>2. QED
  BY <1>1 DEF ExistsBijection, Bijection

(* The occupied slots are exactly as many as count says: the loop of        *)
(* core_release over all slots frees count messages.                        *)
LEMMA OccupiedCount ==
    ASSUME NEW Item, NEW r \in RingOf(Item), WellFormed(r)
    PROVE  IsFiniteSet(Occupied(r)) /\ Cardinality(Occupied(r)) = r.count
<1> DEFINE W == 0 .. r.count - 1
           f == [k \in W |-> Slot(r, k)]
<1>1. /\ r.head \in Index /\ r.count \in 0 .. Capacity
      /\ W \subseteq Index /\ \A k \in Index : k \in W <=> k < r.count
  BY CapacityAssumption, SMTT(20) DEF RingOf, Index
<1>2. \A k \in Index : Slot(r, k) \in Index
  BY <1>1, Window DEF Slot
<1>3. f \in [W -> Occupied(r)]
  BY <1>1, <1>2 DEF Occupied, WellFormed
<1>4. \A j, k \in W : f[j] = f[k] => j = k
  BY <1>1, SlotInjective
<1>5. ASSUME NEW i \in Occupied(r)
      PROVE  \E k \in W : f[k] = i
  <2>1. i \in Index /\ r.slots[i] # NULL
    BY DEF Occupied
  <2>2. PICK k \in Index : Slot(r, k) = i
    <3> DEFINE k == IF i >= r.head THEN i - r.head ELSE i - r.head + Capacity
    <3>1. k \in Index
      BY <1>1, <2>1, CapacityAssumption, SMTT(20) DEF Index
    <3>2. r.head + k \in 0 .. 2 * Capacity - 1
      BY <1>1, <2>1, CapacityAssumption, SMTT(20) DEF Index
    <3>3. (r.head + k) % Capacity = i
      BY <1>1, <2>1, <3>2, Wrap, CapacityAssumption, SMTT(20) DEF Index
    <3>4. QED
      BY <3>1, <3>3 DEF Slot
  <2>3. k < r.count
    BY <2>1, <2>2 DEF WellFormed
  <2>4. QED
    BY <1>1, <2>2, <2>3
<1>6. ExistsBijection(W, Occupied(r))
  <2> HIDE DEF W, f
  <2> QED BY <1>3, <1>4, <1>5, OneToOne, SMTT(20)
<1>7. IsFiniteSet(W) /\ Cardinality(W) = r.count
  <2>1. 0 \in Int /\ r.count - 1 \in Int
    BY <1>1, SMTT(20)
  <2>2. QED
    <3>1. IsFiniteSet(W) /\ Cardinality(W) = IF 0 > r.count - 1 THEN 0 ELSE (r.count - 1) - 0 + 1
      BY <2>1, FS_Interval
    <3>2. QED
      BY <1>1, <3>1, SMTT(20)
<1>8. QED
  BY <1>6, <1>7, FS_Bijection

(* t has got to where, and the others moved at most from waiting to woken. *)
Settled(t, where) ==
    /\ pc' \in [Endpoint -> Location]
    /\ pc'[t] = where
    /\ \A u \in Endpoint : u # t =>
          pc'[u] = pc[u] \/ (pc[u] = "waiting" /\ pc'[u] = "woken")

(* Waking waiters and moving one thread on settles that thread. *)
LEMMA MovedSettles ==
    ASSUME pc \in [Endpoint -> Location], NEW t \in Endpoint,
           NEW where \in Location, NEW woken \in SUBSET Waiters(Endpoint),
           pc' = Moved(t, where, woken)
    PROVE  Settled(t, where)
BY DEF Settled, Moved, Waiters, Location

(* signal and broadcast only wake waiters. *)
LEMMA WokenWait ==
    ASSUME NEW threads \in SUBSET Endpoint, NEW ok
    PROVE  /\ \A woken \in SignalWakes(threads, ok) : woken \in SUBSET Waiters(Endpoint)
           /\ BroadcastWakes(threads, ok) \in SUBSET Waiters(Endpoint)
BY DEF SignalWakes, BroadcastWakes, Waiters

(* What the notifications of each operation do to the threads. *)
LEMMA Notifications ==
    ASSUME TypeOK
    PROVE  /\ \A s \in Sender : SubmitEnqueue(s) => Settled(s, "idle")
           /\ \A b \in BOOLEAN : ReceiveTake(b) => Settled(Receiver, "idle")
           /\ \A s \in Sender : SenderClose(s) => Settled(s, "idle")
           /\ ReceiverClose => Settled(Receiver, "idle")
           /\ \A s \in Sender : FinalizeSender(s) => Settled(s, "releasing")
           /\ FinalizeReceiver => Settled(Receiver, "releasing")
<1>1. /\ Sender \subseteq Endpoint /\ {Receiver} \subseteq Endpoint /\ Receiver \in Endpoint
      /\ pc \in [Endpoint -> Location] /\ "idle" \in Location /\ "releasing" \in Location
  BY DEF Endpoint, TypeOK, Location
<1>2. ASSUME NEW s \in Sender, SubmitEnqueue(s)
      PROVE  Settled(s, "idle")
  <2>1. PICK ok \in Notified : \E woken \in SignalWakes({Receiver}, ok) :
           pc' = Moved(s, "idle", woken)
    BY <1>2 DEF SubmitEnqueue
  <2>2. PICK woken \in SignalWakes({Receiver}, ok) : pc' = Moved(s, "idle", woken)
    BY <2>1
  <2>3. QED
    BY <1>1, <2>2, WokenWait, MovedSettles
<1>3. ASSUME NEW b \in BOOLEAN, ReceiveTake(b)
      PROVE  Settled(Receiver, "idle")
  <2>1. PICK ok \in Notified : \E woken \in SignalWakes(Sender, ok) :
           pc' = Moved(Receiver, "idle", woken)
    BY <1>3 DEF ReceiveTake
  <2>2. PICK woken \in SignalWakes(Sender, ok) : pc' = Moved(Receiver, "idle", woken)
    BY <2>1
  <2>3. QED
    BY <1>1, <2>2, WokenWait, MovedSettles
<1>4. \A okR, okW : BroadcastWakes({Receiver}, okR) \cup BroadcastWakes(Sender, okW)
                      \in SUBSET Waiters(Endpoint)
  BY <1>1, WokenWait
<1>5. ASSUME NEW s \in Sender, SenderClose(s)
      PROVE  Settled(s, "idle")
  <2>1. PICK okR \in Notified, okW \in Notified :
           pc' = Moved(s, "idle", BroadcastWakes({Receiver}, okR)
                                    \cup BroadcastWakes(Sender, okW))
    BY <1>5 DEF SenderClose
  <2>2. QED
    BY <1>1, <1>4, <2>1, MovedSettles
<1>6. ASSUME ReceiverClose
      PROVE  Settled(Receiver, "idle")
  <2>1. PICK okR \in Notified, okW \in Notified :
           pc' = Moved(Receiver, "idle", BroadcastWakes({Receiver}, okR)
                                           \cup BroadcastWakes(Sender, okW))
    BY <1>6 DEF ReceiverClose
  <2>2. QED
    BY <1>1, <1>4, <2>1, MovedSettles
<1>7. ASSUME NEW s \in Sender, FinalizeSender(s)
      PROVE  Settled(s, "releasing")
  <2>1. pc' = Moved(s, "releasing", IF senders = 1 THEN Waiters(Endpoint) ELSE {})
    BY <1>7 DEF FinalizeSender
  <2>2. QED
    BY <1>1, <2>1, MovedSettles, SMTT(20)
<1>8. ASSUME FinalizeReceiver
      PROVE  Settled(Receiver, "releasing")
  <2>1. pc' = Moved(Receiver, "releasing", IF receiverAlive THEN Waiters(Endpoint) ELSE {})
    BY <1>8 DEF FinalizeReceiver
  <2>2. QED
    BY <1>1, <2>1, MovedSettles, SMTT(20)
<1>9. QED
  BY <1>2, <1>3, <1>5, <1>6, <1>7, <1>8

(* The limits are numbers, and a message within the message limit fits into *)
(* an empty queue.                                                          *)
LEMMA Limits ==
    /\ MaxQueuedBytes \in Nat /\ MaxMessageBytes \in Nat
    /\ MaxMessageBytes <= MaxQueuedBytes
    /\ \A p \in Payload : Length[p] \in Nat
BY LimitAssumption, SMTT(20)

LEMMA EndpointFinite == IsFiniteSet(Endpoint)
BY NameAssumption, FS_AddElement DEF Endpoint

LEMMA InitIInv == Init => IInv
<1> SUFFICES ASSUME Init PROVE IInv
  OBVIOUS
<1>1. TypeOK
  <2>1. ring \in RingOf(Payload)
    BY EmptyWellFormed DEF Init
  <2>2. pc \in [Endpoint -> Location]
    BY DEF Init, Location
  <2>3. call \in [Sender -> Call]
    BY DEF Init, Call, NoCall
  <2>4. result \in [Endpoint -> Outcome \cup Payload]
    BY DEF Init, Outcome
  <2>5. receiverAlive \in BOOLEAN /\ closed \in BOOLEAN
    BY Zenon DEF Init
  <2>6. /\ core \in {"none", "live", "freed"} /\ queuedBytes \in 0 .. MaxQueuedBytes
        /\ senders \in Nat /\ refs \in Nat /\ copies \in Nat
    BY Limits, SMTT(20) DEF Init
  <2>7. QED
    BY <2>1, <2>2, <2>3, <2>4, <2>5, <2>6 DEF TypeOK
<1>2. RingIntegrity
  BY EmptyWellFormed DEF Init, RingIntegrity
<1>3. ring.count = 0 /\ queuedBytes = 0
  BY DEF Init, EmptyRing
<1>4. BytesAccounted
  <2> DEFINE sum == [k \in 0 .. 0 |-> 0]
  <2>1. /\ sum \in [0 .. ring.count -> 0 .. MaxQueuedBytes]
        /\ sum[0] = 0 /\ sum[ring.count] = queuedBytes
    BY <1>3, Limits, SMTT(20)
  <2>2. \A k \in 1 .. ring.count :
           sum[k] = sum[k - 1] + Length[ring.slots[Slot(ring, k - 1)]]
    BY <1>3, SMTT(20)
  <2>3. \A j, k \in 0 .. ring.count : j <= k => sum[j] <= sum[k]
    BY <1>3, SMTT(20)
  <2>4. QED
    BY <2>1, <2>2, <2>3 DEF BytesAccounted
<1>5. CopiesAccounted
  <2>1. {s \in Sender : call[s].copied} = {}
    BY DEF Init, NoCall
  <2>2. \A s \in Sender : ~call[s].copied
    BY DEF Init, NoCall
  <2>3. QED
    BY <1>3, <2>1, <2>2, FS_EmptySet, SMTT(20) DEF Init, CopiesAccounted
<1>6. HandlesAccounted
  <2>1. {t \in Endpoint : pc[t] # "absent"} = {}
    BY DEF Init
  <2>2. {s \in Sender : pc[s] \notin {"absent", "releasing"}} = {}
    BY DEF Init, Endpoint
  <2>3. QED
    BY <2>1, <2>2, FS_EmptySet, SMTT(20) DEF Init, HandlesAccounted
<1>7. CallsWellFormed
  BY SMTT(20) DEF Init, CallsWellFormed, InCall, NoCall, Endpoint
<1>8. QED
  BY <1>1, <1>2, <1>4, <1>5, <1>6, <1>7 DEF IInv

-----------------------------------------------------------------------------
(* The queue: its ring and its byte count.                                  *)

(* Only an enqueue, a take and the final release change the queue. *)
LEMMA QueueSteps ==
    ASSUME Next
    PROVE  \/ UNCHANGED <<ring, queuedBytes>>
           \/ \E s \in Sender : SubmitEnqueue(s)
           \/ \E b \in BOOLEAN : ReceiveTake(b)
           \/ ring' = EmptyRing /\ queuedBytes' = 0
BY ZenonT(20) DEF Next, SenderNext, SubmitStep, ReceiverNext, ReceiveStep, Finished, vars,
       coreVars, ChannelNew, ChannelReceiver, SenderShare, BeginSubmit, Abandon,
       SubmitLockFails, SubmitTooLarge, SubmitWait, SubmitWaitFails,
       SubmitRefused, SubmitCopy, SenderClose, FinalizeSender, ReceiveLockFails,
       ReceiveWait, ReceiveWaitFails, ReceiveNothing, ReceiverClose,
       FinalizeReceiver, CoreRelease, SpuriousWake

(* What an enqueue knows: there is room and the payload is a payload. *)
LEMMA EnqueueFacts ==
    ASSUME IInv, NEW s \in Sender, SubmitEnqueue(s)
    PROVE  /\ call[s].payload \in Payload
           /\ ring.count # Capacity
           /\ queuedBytes + Length[call[s].payload] <= MaxQueuedBytes
           /\ Open /\ InCall(s) /\ call[s].copied
<1>1. InCall(s) /\ call[s].copied
  BY DEF SubmitEnqueue, InSubmit, InCall
<1>2. call[s] \in Call
  BY DEF IInv, TypeOK
<1>3. call[s].payload \in Payload
  BY <1>1, <1>2 DEF IInv, CallsWellFormed, Call
<1>4. Open /\ ~Full /\ HasByteCapacity(call[s].payload)
  BY DEF SubmitEnqueue, Refused
<1>5. Length[call[s].payload] \in Nat /\ queuedBytes \in Nat
  BY <1>3, Limits, SMTT(20) DEF IInv, TypeOK
<1>6. QED
  BY <1>1, <1>3, <1>4, <1>5, Limits, SMTT(20) DEF Full, HasByteCapacity

(* Every step keeps the circular queue well formed. *)
LEMMA RingStep ==
    ASSUME IInv, Next
    PROVE  ring' \in RingOf(Payload) /\ RingIntegrity'
<1>1. ring \in RingOf(Payload) /\ WellFormed(ring)
  BY DEF IInv, TypeOK, RingIntegrity
<1>2. CASE UNCHANGED <<ring, queuedBytes>>
  BY <1>1, <1>2 DEF RingIntegrity, WellFormed, Slot
<1>3. ASSUME NEW s \in Sender, SubmitEnqueue(s)
      PROVE  ring' \in RingOf(Payload) /\ WellFormed(ring')
  <2>1. ring' = Put(ring, call[s].payload)
    BY <1>3 DEF SubmitEnqueue
  <2>2. QED
    BY <1>1, <1>3, <2>1, EnqueueFacts, PutWellFormed, NameAssumption
<1>4. ASSUME NEW b \in BOOLEAN, ReceiveTake(b)
      PROVE  ring' \in RingOf(Payload) /\ WellFormed(ring')
  <2>1. ring' = Take(ring) /\ ring.count > 0
    BY <1>4 DEF ReceiveTake
  <2>2. QED
    BY <1>1, <2>1, TakeWellFormed, NameAssumption
<1>5. CASE ring' = EmptyRing /\ queuedBytes' = 0
  BY <1>5, EmptyWellFormed DEF RingIntegrity
<1>6. QED
  BY <1>2, <1>3, <1>4, <1>5, QueueSteps DEF RingIntegrity

(* The prefix sums of the queued lengths survive each change of the queue:  *)
(* an enqueue appends its total, a take drops the first and shifts the rest *)
(* down by the length it removed.                                           *)
LEMMA BytesStep ==
    ASSUME IInv, Next
    PROVE  queuedBytes' \in 0 .. MaxQueuedBytes /\ BytesAccounted'
<1>1. /\ ring \in RingOf(Payload) /\ WellFormed(ring)
      /\ queuedBytes \in 0 .. MaxQueuedBytes /\ BytesAccounted
  BY DEF IInv, TypeOK, RingIntegrity
<1>2. CASE UNCHANGED <<ring, queuedBytes>>
  BY <1>1, <1>2 DEF BytesAccounted, Slot
<1> DEFINE Sums(r, total, sum) ==
             /\ sum \in [0 .. r.count -> 0 .. MaxQueuedBytes]
             /\ sum[0] = 0
             /\ sum[r.count] = total
             /\ \A k \in 1 .. r.count :
                   sum[k] = sum[k - 1] + Length[r.slots[Slot(r, k - 1)]]
             /\ \A j, k \in 0 .. r.count : j <= k => sum[j] <= sum[k]
<1>3. PICK sum : Sums(ring, queuedBytes, sum)
  BY <1>1 DEF BytesAccounted
<1>4. ring.count \in 0 .. Capacity
  BY <1>1, QueuedItems
<1>5. ASSUME NEW s \in Sender, SubmitEnqueue(s)
      PROVE  \E new : Sums(ring', queuedBytes', new)
  <2> DEFINE p == call[s].payload
             c == ring.count
             new == [k \in 0 .. c + 1 |-> IF k = c + 1 THEN queuedBytes + Length[p]
                                                      ELSE sum[k]]
  <2>1. ring' = Put(ring, p) /\ queuedBytes' = queuedBytes + Length[p]
    BY <1>5 DEF SubmitEnqueue
  <2>2. /\ p \in Payload /\ Length[p] \in Nat /\ c # Capacity
        /\ queuedBytes + Length[p] \in 0 .. MaxQueuedBytes
    BY <1>1, <1>5, EnqueueFacts, Limits, SMTT(20)
  <2>3. /\ ring'.count = c + 1 /\ ring'.slots[Slot(ring', c)] = p
        /\ \A k \in 0 .. c - 1 : ring'.slots[Slot(ring', k)] = ring.slots[Slot(ring, k)]
    BY <1>1, <2>1, <2>2, PutReads, NameAssumption, SMTT(20)
  <2>4. /\ new \in [0 .. ring'.count -> 0 .. MaxQueuedBytes]
        /\ new[0] = 0 /\ new[ring'.count] = queuedBytes'
    BY <1>3, <1>4, <2>1, <2>2, <2>3, SMTT(20)
  <2>5. ASSUME NEW k \in 1 .. ring'.count
        PROVE  new[k] = new[k - 1] + Length[ring'.slots[Slot(ring', k - 1)]]
    <3>1. CASE k = c + 1
      BY <1>3, <1>4, <2>3, <3>1, SMTT(20)
    <3>2. CASE k # c + 1
      <4>1. k \in 1 .. c /\ k - 1 \in 0 .. c - 1
        BY <1>4, <2>3, <3>2, SMTT(20)
      <4>2. new[k] = sum[k] /\ new[k - 1] = sum[k - 1]
        BY <1>4, <4>1, SMTT(20)
      <4>3. QED
        BY <1>3, <2>3, <4>1, <4>2
    <3>3. QED
      BY <3>1, <3>2
  <2>6. ASSUME NEW j \in 0 .. ring'.count, NEW k \in 0 .. ring'.count, j <= k
        PROVE  new[j] <= new[k]
    <3>1. \A i \in 0 .. c : sum[i] <= queuedBytes /\ sum[i] \in Nat
      <4>1. c \in Nat /\ c \in 0 .. c /\ \A i \in 0 .. c : i <= c
        BY <1>4, CapacityAssumption, SMTT(20)
      <4>2. \A i \in 0 .. c : sum[i] <= sum[c] /\ sum[i] \in 0 .. MaxQueuedBytes
        BY <1>3, <4>1
      <4>3. \A i \in 0 .. MaxQueuedBytes : i \in Nat
        BY Limits, SMTT(20)
      <4>4. QED
        BY <1>3, <4>2, <4>3
    <3>2. CASE k = c + 1
      BY <1>1, <1>4, <2>2, <2>3, <2>6, <3>1, <3>2, SMTT(20)
    <3>3. CASE k # c + 1
      BY <1>3, <1>4, <2>3, <2>6, <3>3, SMTT(20)
    <3>4. QED
      BY <3>2, <3>3
  <2>7. QED
    BY <2>4, <2>5, <2>6
<1>6. ASSUME NEW b \in BOOLEAN, ReceiveTake(b)
      PROVE  \E new : Sums(ring', queuedBytes', new)
  <2> DEFINE c == ring.count
             first == Length[Front(ring)]
             new == [k \in 0 .. c - 1 |-> sum[k + 1] - first]
  <2>1. ring' = Take(ring) /\ queuedBytes' = queuedBytes - first /\ c > 0
    BY <1>6 DEF ReceiveTake
  <2>2. /\ ring'.count = c - 1 /\ Front(ring) = ring.slots[Slot(ring, 0)]
        /\ \A k \in 0 .. c - 2 :
              ring'.slots[Slot(ring', k)] = ring.slots[Slot(ring, k + 1)]
    BY <1>1, <2>1, TakeReads
  <2>3. first \in Nat
    BY <1>1, <2>1, TakeWellFormed, NameAssumption, Limits
  <2>4. sum[1] = first
    BY <1>3, <1>4, <2>1, <2>2, <2>3, SMTT(20)
  <2>5. ASSUME NEW k \in 0 .. c - 1
        PROVE  /\ sum[k + 1] \in 0 .. MaxQueuedBytes
               /\ sum[k + 1] - first \in 0 .. MaxQueuedBytes
    <3>1. k + 1 \in 0 .. c /\ 1 \in 0 .. c /\ 1 <= k + 1
      BY <1>4, <2>1, SMTT(20)
    <3>2. sum[k + 1] \in 0 .. MaxQueuedBytes /\ sum[1] <= sum[k + 1]
      BY <1>3, <3>1
    <3>3. QED
      BY <2>3, <2>4, <3>2, Limits, SMTT(20)
  <2>6. /\ new \in [0 .. ring'.count -> 0 .. MaxQueuedBytes]
        /\ new[0] = 0 /\ new[ring'.count] = queuedBytes'
    <3>1. new \in [0 .. c - 1 -> 0 .. MaxQueuedBytes]
      BY <2>5
    <3>2. 0 \in 0 .. c - 1 /\ c - 1 \in 0 .. c - 1 /\ (c - 1) + 1 = c /\ 0 + 1 = 1
      BY <1>4, <2>1, SMTT(20)
    <3>3. new[0] = sum[1] - first /\ new[c - 1] = sum[c] - first
      BY <3>2
    <3>4. QED
      BY <1>3, <2>1, <2>2, <2>3, <2>4, <3>1, <3>3, SMTT(20)
  <2>7. ASSUME NEW k \in 1 .. ring'.count
        PROVE  new[k] = new[k - 1] + Length[ring'.slots[Slot(ring', k - 1)]]
    <3>1. k \in 1 .. c - 1 /\ k - 1 \in 0 .. c - 2 /\ (k - 1) + 1 = k /\ k + 1 \in 1 .. c
      BY <1>4, <2>1, <2>2, SMTT(20)
    <3>2. ring'.slots[Slot(ring', k - 1)] = ring.slots[Slot(ring, k)]
      BY <2>2, <3>1
    <3>3. sum[k + 1] = sum[(k + 1) - 1] + Length[ring.slots[Slot(ring, (k + 1) - 1)]]
      BY <1>3, <3>1
    <3>4. (k + 1) - 1 = k
      BY <3>1, SMTT(20)
    <3>5. ring.slots[Slot(ring, k)] \in Payload
      BY <1>1, <3>1, QueuedItems, SMTT(20)
    <3>6. new[k] = sum[k + 1] - first /\ new[k - 1] = sum[k] - first
      BY <1>4, <2>1, <3>1, SMTT(20)
    <3>7. sum[k] \in Nat /\ Length[ring.slots[Slot(ring, k)]] \in Nat
      <4>1. k \in 0 .. ring.count
        BY <1>4, <3>1, SMTT(20)
      <4>2. sum[k] \in 0 .. MaxQueuedBytes
        BY <1>3, <4>1
      <4>3. QED
        BY <3>5, <4>2, Limits, SMTT(20)
    <3>8. QED
      BY <2>3, <3>2, <3>3, <3>4, <3>6, <3>7, SMTT(20)
  <2>8. ASSUME NEW j \in 0 .. ring'.count, NEW k \in 0 .. ring'.count, j <= k
        PROVE  new[j] <= new[k]
    <3>1. sum[j + 1] <= sum[k + 1]
      BY <1>3, <1>4, <2>1, <2>2, <2>8, SMTT(20)
    <3>2. QED
      BY <1>4, <2>1, <2>2, <2>3, <2>5, <3>1, Limits, SMTT(20)
  <2>9. QED
    BY <2>6, <2>7, <2>8
<1>7. ASSUME \E new : Sums(ring', queuedBytes', new)
      PROVE  queuedBytes' \in 0 .. MaxQueuedBytes /\ BytesAccounted'
  <2>1. ring' \in RingOf(Payload)
    BY RingStep
  <2>2. ring'.count \in 0 .. ring'.count
    BY <2>1, CapacityAssumption, SMTT(20) DEF RingOf
  <2>3. QED
    BY <1>7, <2>2 DEF BytesAccounted
<1>8. CASE ring' = EmptyRing /\ queuedBytes' = 0
  <2> DEFINE new == [k \in 0 .. 0 |-> 0]
  <2>1. ring'.count = 0
    BY <1>8 DEF EmptyRing
  <2>2. Sums(ring', queuedBytes', new)
    BY <1>8, <2>1, Limits, SMTT(20)
  <2>3. QED
    BY <1>7, <2>2
<1>9. QED
  BY <1>2, <1>5, <1>6, <1>7, <1>8, QueueSteps

-----------------------------------------------------------------------------
(* The handles: reference count and sender count.                           *)

(* No handle appears or disappears, and the counts stay as they are. *)
Steady ==
    /\ \A u \in Endpoint :
          /\ pc'[u] = "absent" <=> pc[u] = "absent"
          /\ pc'[u] = "releasing" <=> pc[u] = "releasing"
    /\ UNCHANGED <<core, refs, senders>>

(* Sending, receiving and closing keep every handle. *)
LEMMA OperationsSteady ==
    ASSUME IInv,
           \/ \E s \in Sender : SubmitStep(s) \/ SenderClose(s)
           \/ \E s \in Sender, p \in Payload, b \in BOOLEAN : BeginSubmit(s, p, b)
           \/ ReceiveLockFails \/ ReceiveWait \/ ReceiveWaitFails \/ ReceiverClose
           \/ \E b \in BOOLEAN : ReceiveStep(b)
           \/ \E t \in Endpoint : SpuriousWake(t)
           \/ UNCHANGED vars
    PROVE  Steady
<1>1. /\ TypeOK /\ Sender \subseteq Endpoint /\ Receiver \in Endpoint
      /\ pc \in [Endpoint -> Location]
  BY DEF Endpoint, IInv, TypeOK
<1>2. ASSUME NEW s \in Sender, NEW p \in Payload, NEW b \in BOOLEAN, BeginSubmit(s, p, b)
      PROVE  Steady
  BY <1>1, <1>2 DEF BeginSubmit, Steady, coreVars
<1>3. ASSUME NEW t \in Endpoint, Settled(t, "idle"), pc[t] \in {"idle", "locking", "woken"},
             UNCHANGED <<core, refs, senders>>
      PROVE  Steady
  BY <1>3 DEF Settled, Steady
<1>4. ASSUME NEW s \in Sender, SubmitStep(s)
      PROVE  Steady
  <2>1. ASSUME NEW outcome, Abandon(s, outcome), pc[s] \in {"locking", "woken"}
        PROVE  Steady
    BY <1>1, <2>1 DEF Abandon, Steady, coreVars
  <2>2. InSubmit(s) => pc[s] \in {"locking", "woken"}
    BY DEF InSubmit
  <2>3. CASE \/ SubmitLockFails(s) \/ SubmitTooLarge(s)
             \/ SubmitWaitFails(s) \/ SubmitRefused(s)
    BY <2>1, <2>2, <2>3
       DEF SubmitLockFails, SubmitTooLarge, SubmitWaitFails, SubmitRefused
  <2>4. CASE SubmitWait(s) \/ SubmitCopy(s)
    BY <1>1, <2>2, <2>4, SMTT(20) DEF SubmitWait, SubmitCopy, Steady, coreVars
  <2>5. CASE SubmitEnqueue(s)
    BY <1>1, <1>3, <2>2, <2>5, Notifications DEF SubmitEnqueue
  <2>6. QED
    BY <1>4, <2>3, <2>4, <2>5 DEF SubmitStep
<1>5. ASSUME NEW s \in Sender, SenderClose(s)
      PROVE  Steady
  BY <1>1, <1>3, <1>5, Notifications DEF SenderClose
<1>6. CASE ReceiveLockFails
  BY <1>6 DEF ReceiveLockFails, Steady, coreVars
<1>7. CASE ReceiveWait \/ ReceiveWaitFails
  BY <1>1, <1>7 DEF ReceiveWait, ReceiveWaitFails, InReceive, Steady, coreVars
<1>8. CASE ReceiverClose
  BY <1>1, <1>3, <1>8, Notifications DEF ReceiverClose
<1>9. ASSUME NEW b \in BOOLEAN, ReceiveStep(b)
      PROVE  Steady
  <2>1. CASE ReceiveNothing(b)
    BY <1>1, <2>1 DEF ReceiveNothing, InReceive, Steady, coreVars
  <2>2. CASE ReceiveTake(b)
    BY <1>1, <1>3, <2>2, Notifications DEF ReceiveTake, InReceive
  <2>3. QED
    BY <1>9, <2>1, <2>2 DEF ReceiveStep
<1>10. ASSUME NEW t \in Endpoint, SpuriousWake(t)
       PROVE  Steady
  BY <1>1, <1>10 DEF SpuriousWake, Steady, coreVars
<1>11. CASE UNCHANGED vars
  BY <1>11 DEF vars, coreVars, Steady
<1>12. QED
  BY <1>2, <1>4, <1>5, <1>6, <1>7, <1>8, <1>9, <1>10, <1>11, SMTT(20)

Held == {t \in Endpoint : pc[t] # "absent"}

HeldSenders == {s \in Sender : pc[s] \notin {"absent", "releasing"}}

(* Every thread with a handle keeps the core alive. *)
LEMMA HeldFacts ==
    ASSUME IInv
    PROVE  /\ IsFiniteSet(Held) /\ Cardinality(Held) = refs
           /\ IsFiniteSet(HeldSenders) /\ Cardinality(HeldSenders) = senders
           /\ \A t \in Held : refs > 0 /\ core = "live"
           /\ core # "live" => Held = {} /\ HeldSenders = {}
<1>1. IsFiniteSet(Held)
  BY EndpointFinite, FS_Subset DEF Held
<1>2. IsFiniteSet(HeldSenders)
  BY NameAssumption, FS_Subset DEF HeldSenders
<1>3. Cardinality(Held) = refs /\ Cardinality(HeldSenders) = senders
  BY DEF IInv, HandlesAccounted, Held, HeldSenders
<1>4. refs \in Nat /\ (core = "live" <=> refs > 0)
  BY DEF IInv, TypeOK, HandlesAccounted
<1>5. \A t \in Held : refs > 0 /\ core = "live"
  BY <1>1, <1>3, <1>4, FS_EmptySet, SMTT(20)
<1>6. core # "live" => Held = {}
  BY <1>1, <1>3, <1>4, FS_EmptySet, SMTT(20)
<1>7. HeldSenders \subseteq Held
  BY DEF Held, HeldSenders, Endpoint
<1>8. QED
  BY <1>1, <1>2, <1>3, <1>5, <1>6, <1>7

LEMMA HandlesStep ==
    ASSUME IInv, Next
    PROVE  /\ HandlesAccounted'
           /\ refs' \in Nat /\ senders' \in Nat
           /\ core' \in {"none", "live", "freed"}
<1> DEFINE Goal == /\ refs' = Cardinality(Held') /\ refs' \in Nat
                   /\ senders' = Cardinality(HeldSenders') /\ senders' \in Nat
                   /\ core' = "live" <=> refs' > 0
                   /\ core' \in {"none", "live", "freed"}
<1>0. SUFFICES Goal
  BY DEF HandlesAccounted, Held, HeldSenders
<1>1. /\ IsFiniteSet(Held) /\ Cardinality(Held) = refs
      /\ IsFiniteSet(HeldSenders) /\ Cardinality(HeldSenders) = senders
      /\ \A t \in Held : refs > 0 /\ core = "live"
      /\ core # "live" => Held = {} /\ HeldSenders = {}
  BY HeldFacts
<1>2. /\ refs \in Nat /\ senders \in Nat /\ core \in {"none", "live", "freed"}
      /\ core = "live" <=> refs > 0
      /\ pc \in [Endpoint -> Location]
      /\ Sender \subseteq Endpoint /\ Receiver \in Endpoint /\ Receiver \notin Sender
  BY NameAssumption DEF IInv, TypeOK, HandlesAccounted, Endpoint
<1>3. CASE Steady
  <2>1. Held' = Held /\ HeldSenders' = HeldSenders
    BY <1>2, <1>3 DEF Steady, Held, HeldSenders
  <2>2. QED
    BY <1>1, <1>2, <1>3, <2>1 DEF Steady
<1>4. ASSUME NEW s \in Sender, ChannelNew(s)
      PROVE  Goal
  <2>1. /\ core = "none" /\ core' = "live" /\ refs' = 1 /\ senders' = 1
        /\ pc' = [pc EXCEPT ![s] = "constructing"]
    BY <1>4 DEF ChannelNew
  <2>2. \A t \in Endpoint : pc[t] = "absent"
    BY <1>1, <2>1 DEF Held
  <2>3. Held' = {s} /\ HeldSenders' = {s}
    BY <1>2, <2>1, <2>2 DEF Held, HeldSenders
  <2>4. QED
    BY <2>1, <2>3, FS_Singleton, SMTT(20)
<1>5. ASSUME NEW s \in Sender, ChannelReceiver(s)
      PROVE  Goal
  <2>1. /\ pc[s] = "constructing" /\ refs' = refs + 1 /\ UNCHANGED <<core, senders>>
        /\ pc' = [pc EXCEPT ![s] = "idle", ![Receiver] = "idle"]
    BY <1>5 DEF ChannelReceiver
  <2>2. pc[Receiver] = "absent"
    BY <1>2, <2>1 DEF IInv, CallsWellFormed
  <2>3. /\ Held' = Held \cup {Receiver} /\ Receiver \notin Held
        /\ HeldSenders' = HeldSenders /\ s \in Held
    BY <1>2, <2>1, <2>2 DEF Held, HeldSenders
  <2>4. Cardinality(Held \cup {Receiver}) = refs + 1
    BY <1>1, <2>3, FS_AddElement
  <2>5. refs > 0 /\ core = "live"
    BY <1>1, <2>3
  <2>6. QED
    BY <1>1, <1>2, <2>1, <2>3, <2>4, <2>5, SMTT(20)
<1>6. ASSUME NEW s \in Sender, NEW t \in Sender, SenderShare(s, t)
      PROVE  Goal
  <2>1. /\ pc[s] = "idle" /\ pc[t] = "absent" /\ refs' = refs + 1
        /\ senders' = senders + 1 /\ UNCHANGED core
        /\ pc' = [pc EXCEPT ![t] = "idle"]
    BY <1>6 DEF SenderShare
  <2>2. /\ Held' = Held \cup {t} /\ t \notin Held /\ s \in Held
        /\ HeldSenders' = HeldSenders \cup {t} /\ t \notin HeldSenders
    BY <1>2, <2>1 DEF Held, HeldSenders
  <2>3. Cardinality(Held \cup {t}) = refs + 1
    BY <1>1, <2>2, FS_AddElement
  <2>4. Cardinality(HeldSenders \cup {t}) = senders + 1
    BY <1>1, <2>2, FS_AddElement
  <2>5. refs > 0 /\ core = "live"
    BY <1>1, <2>2
  <2>6. QED
    BY <1>2, <2>1, <2>2, <2>3, <2>4, <2>5, SMTT(20)
<1>7. ASSUME NEW s \in Sender, FinalizeSender(s)
      PROVE  Goal
  <2>1. /\ pc[s] \in {"idle", "constructing"} /\ senders' = senders - 1
        /\ UNCHANGED <<core, refs>>
    BY <1>7 DEF FinalizeSender
  <2>2. Settled(s, "releasing")
    BY <1>7, Notifications DEF IInv
  <2>3. /\ Held' = Held /\ s \in HeldSenders
        /\ HeldSenders' = HeldSenders \ {s}
    BY <1>2, <2>1, <2>2 DEF Held, HeldSenders, Settled
  <2>4. senders > 0
    BY <1>1, <1>2, <2>3, FS_EmptySet, SMTT(20)
  <2>5. Cardinality(HeldSenders \ {s}) = senders - 1
    BY <1>1, <2>3, FS_RemoveElement
  <2>6. QED
    BY <1>1, <1>2, <2>1, <2>3, <2>4, <2>5, SMTT(20)
<1>8. CASE FinalizeReceiver
  <2>1. pc[Receiver] = "idle" /\ UNCHANGED <<core, refs, senders>>
    BY <1>8 DEF FinalizeReceiver
  <2>2. Settled(Receiver, "releasing")
    BY <1>8, Notifications DEF IInv
  <2>3. Held' = Held /\ HeldSenders' = HeldSenders
    BY <1>2, <2>1, <2>2 DEF Held, HeldSenders, Settled
  <2>4. QED
    BY <1>1, <1>2, <2>1, <2>3
<1>9. ASSUME NEW t \in Endpoint, CoreRelease(t)
      PROVE  Goal
  <2>1. /\ pc[t] = "releasing" /\ refs' = refs - 1 /\ UNCHANGED senders
        /\ pc' = [pc EXCEPT ![t] = "absent"]
        /\ \/ refs # 1 /\ core' = core
           \/ refs = 1 /\ core' = "freed"
    BY <1>9 DEF CoreRelease
  <2>2. /\ Held' = Held \ {t} /\ t \in Held
        /\ HeldSenders' = HeldSenders
    BY <1>2, <2>1 DEF Held, HeldSenders
  <2>3. refs > 0 /\ core = "live"
    BY <1>1, <2>2
  <2>4. Cardinality(Held \ {t}) = refs - 1
    BY <1>1, <2>2, FS_RemoveElement
  <2>5. QED
    BY <1>1, <1>2, <2>1, <2>2, <2>3, <2>4, SMTT(20)
<1>10. QED
  BY <1>3, <1>4, <1>5, <1>6, <1>7, <1>8, <1>9, OperationsSteady, SMTT(20)
     DEF Next, SenderNext, ReceiverNext, Finished

-----------------------------------------------------------------------------
(* The calls: arguments, locals and native copies.                          *)

(* Every step changes the calls in one of five ways.  Only the step of a    *)
(* submit touches that sender's call, and only ChannelNew makes a thread    *)
(* construct.                                                               *)
CallsUntouched ==
    /\ UNCHANGED call
    /\ \A s \in Sender : /\ InCall(s)' <=> InCall(s)
                         /\ pc'[s] = "locking" <=> pc[s] = "locking"
                         /\ pc'[s] = "constructing" => pc[s] = "constructing"

LEMMA CallSteps ==
    ASSUME IInv, Next
    PROVE  \/ CallsUntouched
           \/ \E s \in Sender : ChannelNew(s)
           \/ \E s \in Sender : SubmitStep(s)
           \/ \E s \in Sender, p \in Payload, b \in BOOLEAN : BeginSubmit(s, p, b)
<1>1. /\ TypeOK /\ Sender \subseteq Endpoint /\ Receiver \in Endpoint
      /\ Receiver \notin Sender /\ pc \in [Endpoint -> Location]
  BY NameAssumption DEF Endpoint, IInv, TypeOK
<1>2. ASSUME NEW t \in Endpoint, NEW where, Settled(t, where), ~InCall(t) \/ t = Receiver,
             where \in {"idle", "releasing"}, UNCHANGED call
      PROVE  CallsUntouched
  BY <1>1, <1>2 DEF Settled, CallsUntouched, InCall
<1>3. ASSUME NEW s \in Sender, ChannelReceiver(s) \/ \E t \in Sender : SenderShare(s, t)
      PROVE  CallsUntouched
  BY <1>1, <1>3 DEF ChannelReceiver, SenderShare, CallsUntouched, InCall
<1>4. ASSUME NEW s \in Sender, SenderClose(s) \/ FinalizeSender(s)
      PROVE  CallsUntouched
  <2>1. ~InCall(s) /\ UNCHANGED call
    BY <1>4 DEF SenderClose, FinalizeSender, InCall
  <2>2. QED
    BY <1>1, <1>2, <1>4, <2>1, Notifications
<1>5. CASE ReceiverClose \/ FinalizeReceiver
  <2>1. UNCHANGED call
    BY <1>5 DEF ReceiverClose, FinalizeReceiver
  <2>2. QED
    BY <1>1, <1>2, <1>5, <2>1, Notifications
<1>6. ASSUME NEW b \in BOOLEAN, ReceiveStep(b)
      PROVE  CallsUntouched
  <2>1. CASE ReceiveTake(b)
    <3>1. UNCHANGED call
      BY <2>1 DEF ReceiveTake
    <3>2. QED
      BY <1>1, <1>2, <2>1, <3>1, Notifications
  <2>2. CASE ReceiveNothing(b)
    BY <1>1, <2>2 DEF ReceiveNothing, CallsUntouched, InCall
  <2>3. QED
    BY <1>6, <2>1, <2>2 DEF ReceiveStep
<1>7. CASE ReceiveLockFails \/ ReceiveWait \/ ReceiveWaitFails \/ Finished
  BY <1>1, <1>7 DEF ReceiveLockFails, ReceiveWait, ReceiveWaitFails, Finished, vars,
                    coreVars, CallsUntouched, InCall
<1>8. ASSUME NEW t \in Endpoint, CoreRelease(t) \/ SpuriousWake(t)
      PROVE  CallsUntouched
  BY <1>1, <1>8 DEF CoreRelease, SpuriousWake, CallsUntouched, InCall
<1>9. QED
  BY <1>3, <1>4, <1>5, <1>6, <1>7, <1>8, SMTT(20) DEF Next, SenderNext, ReceiverNext

(* A step of submit gives up, waits, copies or enqueues; the other senders  *)
(* keep their calls.                                                        *)
LEMMA SubmitCases ==
    ASSUME IInv, NEW s \in Sender, SubmitStep(s)
    PROVE  /\ call[s].payload \in Payload /\ pc[s] \in {"locking", "woken"}
           /\ \/ \E outcome \in Outcome : Abandon(s, outcome)
              \/ SubmitWait(s) \/ SubmitCopy(s) \/ SubmitEnqueue(s)
           /\ \A t \in Sender : t # s =>
                 /\ call'[t] = call[t]
                 /\ InCall(t)' <=> InCall(t)
                 /\ pc'[t] = "locking" <=> pc[t] = "locking"
<1>1. pc[s] \in {"locking", "woken"}
  BY DEF SubmitStep, SubmitLockFails, SubmitTooLarge, SubmitWait, SubmitWaitFails,
         SubmitRefused, SubmitCopy, SubmitEnqueue, InSubmit
<1>2. call[s] \in Call /\ call[s].payload # NULL
  BY <1>1 DEF IInv, TypeOK, CallsWellFormed, InCall
<1>3. call[s].payload \in Payload
  BY <1>2 DEF Call
<1>4. \/ \E outcome \in Outcome : Abandon(s, outcome)
      \/ SubmitWait(s) \/ SubmitCopy(s) \/ SubmitEnqueue(s)
  <2>1. {"Failed", "MessageTooLarge"} \subseteq Outcome /\ Refusal \subseteq Outcome
    BY DEF Outcome
  <2>2. QED
    BY <2>1 DEF SubmitStep, SubmitLockFails, SubmitTooLarge, SubmitWaitFails, SubmitRefused
<1>5. /\ TypeOK /\ Sender \subseteq Endpoint /\ pc \in [Endpoint -> Location]
      /\ call \in [Sender -> Call]
  BY DEF IInv, TypeOK, Endpoint
<1>6. ASSUME NEW t \in Sender, t # s
      PROVE  /\ call'[t] = call[t]
             /\ InCall(t)' <=> InCall(t)
             /\ pc'[t] = "locking" <=> pc[t] = "locking"
  <2>1. CASE \E outcome \in Outcome : Abandon(s, outcome)
    BY <1>5, <1>6, <2>1 DEF Abandon, InCall
  <2>2. CASE SubmitWait(s)
    BY <1>5, <1>6, <2>2 DEF SubmitWait, InCall
  <2>3. CASE SubmitCopy(s)
    BY <1>5, <1>6, <2>3 DEF SubmitCopy, InCall
  <2>4. CASE SubmitEnqueue(s)
    <3>1. call'[t] = call[t]
      BY <1>5, <1>6, <2>4 DEF SubmitEnqueue
    <3>2. Settled(s, "idle")
      BY <1>5, <2>4, Notifications
    <3>3. QED
      BY <1>5, <1>6, <3>1, <3>2, SMTT(20) DEF Settled, InCall
  <2>5. QED
    BY <1>4, <2>1, <2>2, <2>3, <2>4
<1>7. QED
  BY <1>1, <1>3, <1>4, <1>6

(* Until the receiver exists nobody but the constructor has a handle. *)
LEMMA ConstructionStep ==
    ASSUME IInv, Next, NEW c \in Sender, pc'[c] = "constructing"
    PROVE  \A t \in Endpoint : t # c => pc'[t] = "absent"
<1>1. /\ TypeOK /\ Sender \subseteq Endpoint /\ Receiver \in Endpoint
      /\ Receiver \notin Sender /\ pc \in [Endpoint -> Location]
      /\ pc[c] = "constructing" => \A t \in Endpoint : t # c => pc[t] = "absent"
  BY NameAssumption DEF Endpoint, IInv, TypeOK, CallsWellFormed
<1>2. CASE \E s \in Sender : ChannelNew(s)
  <2>1. PICK s \in Sender : core = "none" /\ pc' = [pc EXCEPT ![s] = "constructing"]
    BY <1>2 DEF ChannelNew
  <2>2. \A t \in Endpoint : pc[t] = "absent"
    BY <2>1, HeldFacts DEF Held
  <2>3. QED
    BY <1>1, <2>1, <2>2
<1>3. CASE pc[c] = "constructing"
  <2>1. \A t \in Endpoint : t # c => pc[t] = "absent"
    BY <1>1, <1>3
  <2>2. CASE Steady
    BY <2>1, <2>2 DEF Steady
  <2>3. ASSUME NEW s \in Sender, ChannelReceiver(s) \/ FinalizeSender(s)
        PROVE  FALSE
    <3>1. s = c
      BY <1>1, <2>1, <2>3 DEF ChannelReceiver, FinalizeSender
    <3>2. CASE ChannelReceiver(s)
      BY <1>1, <3>1, <3>2 DEF ChannelReceiver
    <3>3. CASE FinalizeSender(s)
      BY <1>1, <3>1, <3>3, Notifications DEF Settled
    <3>4. QED
      BY <2>3, <3>2, <3>3
  <2>4. ~ \E s, t \in Sender : SenderShare(s, t)
    BY <1>1, <1>3, <2>1, SMTT(20) DEF SenderShare
  <2>5. ~FinalizeReceiver
    BY <1>1, <2>1 DEF FinalizeReceiver
  <2>6. ~ \E t \in Endpoint : CoreRelease(t)
    BY <1>3, <2>1 DEF CoreRelease
  <2>7. QED
    BY <1>2, <2>2, <2>3, <2>4, <2>5, <2>6, OperationsSteady, SMTT(20)
       DEF Next, SenderNext, ReceiverNext, Finished
<1>4. CASE CallsUntouched
  BY <1>3, <1>4 DEF CallsUntouched
<1>5. ASSUME NEW s \in Sender, SubmitStep(s) \/ \E p \in Payload, b \in BOOLEAN : BeginSubmit(s, p, b)
      PROVE  pc[c] = "constructing"
  <2>1. ASSUME NEW where \in {"idle", "locking", "waiting"},
               pc' = [pc EXCEPT ![s] = where] \/ Settled(s, where)
        PROVE  pc[c] = "constructing"
    BY <1>1, <2>1 DEF Settled
  <2>2. CASE \E p \in Payload, b \in BOOLEAN : BeginSubmit(s, p, b)
    BY <2>1, <2>2 DEF BeginSubmit
  <2>3. CASE SubmitStep(s)
    BY <1>1, <2>1, <2>3, SubmitCases, Notifications DEF Abandon, SubmitWait, SubmitCopy
  <2>4. QED
    BY <1>5, <2>2, <2>3
<1>6. QED
  BY <1>2, <1>3, <1>4, <1>5, CallSteps

(* Every step keeps CallsWellFormed: submit's arguments live exactly as long *)
(* as the call, and only a payload within max_message_bytes ever waits.     *)
LEMMA CallsStep ==
    ASSUME IInv, Next
    PROVE  CallsWellFormed'
<1>1. /\ TypeOK /\ Sender \subseteq Endpoint /\ Receiver \in Endpoint
      /\ Receiver \notin Sender /\ pc \in [Endpoint -> Location]
      /\ call \in [Sender -> Call] /\ NULL \notin Payload
      /\ CallsWellFormed
  BY NameAssumption DEF Endpoint, IInv, TypeOK
<1>2. pc'[Receiver] \notin {"constructing", "locking"}
  <2>1. pc[Receiver] \notin {"constructing", "locking"}
    BY <1>1 DEF CallsWellFormed
  <2>2. ASSUME NEW t \in Endpoint, NEW where, Settled(t, where),
               t = Receiver => where \in {"idle", "releasing"}
        PROVE  pc'[Receiver] \notin {"constructing", "locking"}
    BY <1>1, <2>1, <2>2 DEF Settled
  <2>3. ASSUME NEW s \in Sender, SenderNext(s)
        PROVE  pc'[Receiver] \notin {"constructing", "locking"}
    <3>1. CASE SubmitStep(s)
      BY <1>1, <2>1, <2>2, <3>1, SubmitCases, Notifications, SMTT(20)
         DEF Abandon, SubmitWait, SubmitCopy
    <3>2. CASE SenderClose(s) \/ FinalizeSender(s)
      BY <1>1, <2>2, <3>2, Notifications
    <3>3. CASE \/ ChannelNew(s) \/ ChannelReceiver(s)
               \/ \E t \in Sender : SenderShare(s, t)
               \/ \E p \in Payload, b \in BOOLEAN : BeginSubmit(s, p, b)
      BY <1>1, <2>1, <3>3 DEF ChannelNew, ChannelReceiver, SenderShare, BeginSubmit
    <3>4. QED
      BY <2>3, <3>1, <3>2, <3>3 DEF SenderNext
  <2>4. CASE ReceiverNext
    <3>1. CASE ReceiverClose \/ FinalizeReceiver \/ \E b \in BOOLEAN : ReceiveTake(b)
      BY <1>1, <2>2, <3>1, Notifications
    <3>2. CASE ReceiveLockFails \/ ReceiveWait \/ ReceiveWaitFails
               \/ \E b \in BOOLEAN : ReceiveNothing(b)
      BY <1>1, <2>1, <3>2, ZenonT(20) DEF ReceiveLockFails, ReceiveWait, ReceiveWaitFails, ReceiveNothing
    <3>3. QED
      BY <2>4, <3>1, <3>2 DEF ReceiverNext, ReceiveStep
  <2>5. CASE \E t \in Endpoint : CoreRelease(t) \/ SpuriousWake(t)
    BY <1>1, <2>1, <2>5 DEF CoreRelease, SpuriousWake
  <2>6. CASE Finished
    BY <2>1, <2>6 DEF Finished, vars
  <2>7. QED
    BY <2>3, <2>4, <2>5, <2>6 DEF Next
<1>3. ASSUME NEW s \in Sender
      PROVE  /\ InCall(s)' <=> call'[s].payload # NULL
             /\ pc'[s] \in {"waiting", "woken"} =>
                   Length[call'[s].payload] <= MaxMessageBytes
  <2>1. /\ InCall(s) <=> call[s].payload # NULL
        /\ pc[s] \in {"waiting", "woken"} =>
              Length[call[s].payload] <= MaxMessageBytes
    BY <1>1 DEF CallsWellFormed
  <2>2. ASSUME call'[s] = call[s], InCall(s)' <=> InCall(s),
               pc'[s] = "locking" <=> pc[s] = "locking"
        PROVE  /\ InCall(s)' <=> call'[s].payload # NULL
               /\ pc'[s] \in {"waiting", "woken"} =>
                     Length[call'[s].payload] <= MaxMessageBytes
    BY <2>1, <2>2 DEF InCall
  <2>3. CASE CallsUntouched
    BY <2>2, <2>3 DEF CallsUntouched
  <2>4. CASE \E t \in Sender : ChannelNew(t)
    <3>1. PICK t \in Sender : ChannelNew(t)
      BY <2>4
    <3>2. pc[t] = "absent"
      BY <1>1, <3>1, HeldFacts DEF ChannelNew, Held
    <3>3. QED
      BY <1>1, <2>2, <3>1, <3>2 DEF ChannelNew, InCall
  <2>5. CASE \E t \in Sender, p \in Payload, b \in BOOLEAN : BeginSubmit(t, p, b)
    <3>1. PICK t \in Sender, p \in Payload, b \in BOOLEAN : BeginSubmit(t, p, b)
      BY <2>5
    <3>2. CASE t = s
      BY <1>1, <3>1, <3>2 DEF BeginSubmit, InCall
    <3>3. CASE t # s
      BY <1>1, <2>2, <3>1, <3>3 DEF BeginSubmit, InCall
    <3>4. QED
      BY <3>2, <3>3
  <2>6. CASE \E t \in Sender : SubmitStep(t)
    <3>1. PICK t \in Sender : SubmitStep(t)
      BY <2>6
    <3>2. CASE t # s
      BY <2>2, <3>1, <3>2, SubmitCases
    <3>3. CASE t = s
      <4>1. /\ call[s].payload \in Payload
            /\ \/ \E outcome \in Outcome : Abandon(s, outcome)
               \/ SubmitWait(s) \/ SubmitCopy(s) \/ SubmitEnqueue(s)
        BY <3>1, <3>3, SubmitCases
      <4>2. CASE \E outcome \in Outcome : Abandon(s, outcome)
        BY <1>1, <4>2, SMTT(20) DEF Abandon, InCall, NoCall
      <4>3. CASE SubmitWait(s)
        BY <1>1, <2>1, <4>1, <4>3 DEF SubmitWait, InSubmit, InCall
      <4>4. CASE SubmitCopy(s)
        BY <1>1, <4>1, <4>4 DEF SubmitCopy, InCall
      <4>5. CASE SubmitEnqueue(s)
        <5>1. pc'[s] = "idle"
          BY <1>1, <4>5, Notifications, SMTT(20) DEF Settled
        <5>2. call'[s] = NoCall
          BY <1>1, <4>5 DEF SubmitEnqueue
        <5>3. QED
          BY <5>1, <5>2, SMTT(20) DEF InCall, NoCall
      <4>6. QED
        BY <4>1, <4>2, <4>3, <4>4, <4>5, SMTT(20)
    <3>4. QED
      BY <3>2, <3>3, SMTT(20)
  <2>7. QED
    BY <2>3, <2>4, <2>5, <2>6, CallSteps
<1>4. QED
  BY <1>2, <1>3, ConstructionStep DEF CallsWellFormed

(* Which steps change the number of copies or the queue, other than submit's.*)
LEMMA CopySteps ==
    ASSUME IInv, Next
    PROVE  \/ UNCHANGED <<copies, ring>>
           \/ \E s \in Sender : SubmitStep(s)
           \/ /\ ring.count > 0 /\ ring' = Take(ring)
              /\ copies' = copies - 1 /\ UNCHANGED call
           \/ /\ ring' = EmptyRing
              /\ copies' = copies - Cardinality(Occupied(ring)) /\ UNCHANGED call
<1>1. ASSUME NEW s \in Sender, SenderNext(s), ~SubmitStep(s)
      PROVE  UNCHANGED <<copies, ring>>
  BY <1>1 DEF SenderNext, ChannelNew, ChannelReceiver, SenderShare, BeginSubmit,
              SenderClose, FinalizeSender, coreVars
<1>2. ASSUME ReceiverNext
      PROVE  \/ UNCHANGED <<copies, ring>>
             \/ /\ ring.count > 0 /\ ring' = Take(ring)
                /\ copies' = copies - 1 /\ UNCHANGED call
  <2>1. CASE \E b \in BOOLEAN : ReceiveTake(b)
    BY <2>1 DEF ReceiveTake
  <2>2. CASE \/ ReceiveLockFails \/ ReceiveWait \/ ReceiveWaitFails
             \/ ReceiverClose \/ FinalizeReceiver
             \/ \E b \in BOOLEAN : ReceiveNothing(b)
    BY <2>2 DEF ReceiveLockFails, ReceiveWait, ReceiveWaitFails, ReceiveNothing,
                ReceiverClose, FinalizeReceiver, coreVars
  <2>3. QED
    BY <1>2, <2>1, <2>2 DEF ReceiverNext, ReceiveStep
<1>3. ASSUME NEW t \in Endpoint, CoreRelease(t) \/ SpuriousWake(t)
      PROVE  \/ UNCHANGED <<copies, ring>>
             \/ /\ ring' = EmptyRing
                /\ copies' = copies - Cardinality(Occupied(ring)) /\ UNCHANGED call
  BY <1>3 DEF CoreRelease, SpuriousWake, coreVars
<1>4. QED
  BY <1>1, <1>2, <1>3 DEF Next, Finished, vars, coreVars

(* The senders whose submit call owns a copy. *)
Owner == {s \in Sender : call[s].copied}

(* Every step keeps CopiesAccounted: no path of submit, receive or           *)
(* core_release leaks a native copy or frees one twice.                     *)
LEMMA CopiesStep ==
    ASSUME IInv, Next, CallsWellFormed'
    PROVE  CopiesAccounted' /\ copies' \in Nat
<1>1. /\ TypeOK /\ Sender \subseteq Endpoint /\ call \in [Sender -> Call]
      /\ ring \in RingOf(Payload) /\ WellFormed(ring) /\ copies \in Nat
      /\ IsFiniteSet(Sender) /\ Receiver \notin Sender /\ NULL \notin Payload
      /\ pc \in [Endpoint -> Location]
  BY NameAssumption DEF Endpoint, IInv, TypeOK, RingIntegrity
<1>2. /\ IsFiniteSet(Owner) /\ Cardinality(Owner) \in Nat
      /\ ring.count \in 0 .. Capacity /\ Capacity \in Nat
      /\ copies = Cardinality(Owner) + ring.count
      /\ \A s \in Sender : call[s].copied => InCall(s)
  <2>1. IsFiniteSet(Owner) /\ Cardinality(Owner) \in Nat
    <3>1. Owner \subseteq Sender
      BY DEF Owner
    <3>2. QED
      BY <1>1, <3>1, FS_Subset, FS_CardinalityType
  <2>2. /\ copies = Cardinality(Owner) + ring.count
        /\ \A s \in Sender : call[s].copied => InCall(s)
    BY DEF IInv, CopiesAccounted, Owner
  <2>3. QED
    BY <1>1, <2>1, <2>2, CapacityAssumption DEF RingOf
<1>total. ASSUME NEW n \in Nat, Cardinality(Owner') = n, ring'.count \in Nat,
              copies' = n + ring'.count,
              \A s \in Sender : call'[s].copied => InCall(s)'
       PROVE  CopiesAccounted' /\ copies' \in Nat
  <2>1. copies' = Cardinality(Owner') + ring'.count /\ copies' \in Nat
    BY <1>total, SMTT(20)
  <2>2. QED
    BY <1>total, <2>1 DEF CopiesAccounted, Owner
<1>3. CASE \E s \in Sender : SubmitStep(s)
  <2>1. PICK s \in Sender : SubmitStep(s)
    BY <1>3
  <2>2. \A t \in Sender : t # s => call'[t] = call[t] /\ (InCall(t)' <=> InCall(t))
    BY <2>1, SubmitCases, SMTT(20)
  <2>3. /\ call[s].payload \in Payload /\ InCall(s)
        /\ call[s].copied \in BOOLEAN
    <3>1. call[s] \in Call
      BY <1>1, SMTT(20)
    <3>2. QED
      BY <2>1, <3>1, SubmitCases DEF InCall, Call
  <2>4. ASSUME call'[s].copied = call[s].copied, UNCHANGED <<copies, ring>>, InCall(s)'
        PROVE  CopiesAccounted' /\ copies' \in Nat
    <3>1. Owner' = Owner
      BY <2>2, <2>4 DEF Owner
    <3>2. \A t \in Sender : call'[t].copied => InCall(t)'
      BY <1>2, <2>2, <2>4
    <3>3. QED
      BY <1>2, <1>total, <2>4, <3>1, <3>2, SMTT(20)
  <2>5. ASSUME ~call'[s].copied
        PROVE  /\ Owner' = Owner \ {s}
               /\ \A t \in Sender : call'[t].copied => InCall(t)'
    BY <1>2, <2>2, <2>5 DEF Owner
  <2>6. CASE \E outcome \in Outcome : Abandon(s, outcome)
    <3>1. /\ call'[s] = NoCall /\ UNCHANGED ring
          /\ copies' = IF call[s].copied THEN copies - 1 ELSE copies
      BY <1>1, <2>6 DEF Abandon, coreVars
    <3>2. ~call'[s].copied
      BY <3>1, SMTT(20) DEF NoCall
    <3>3. CASE call[s].copied
      <4>1. Cardinality(Owner \ {s}) = Cardinality(Owner) - 1
        BY <1>2, <3>3, FS_RemoveElement DEF Owner
      <4>2. Cardinality(Owner \ {s}) \in Nat
        BY <1>2, FS_RemoveElement, FS_CardinalityType
      <4>3. QED
        <5>1. copies' = Cardinality(Owner \ {s}) + ring'.count /\ ring'.count \in Nat
          BY <1>2, <3>1, <3>3, <4>1, <4>2, SMTT(20)
        <5>2. QED
          BY <1>total, <2>5, <3>2, <4>2, <5>1
    <3>4. CASE ~call[s].copied
      <4>1. Owner \ {s} = Owner
        BY <3>4 DEF Owner
      <4>2. QED
        <5>1. copies' = Cardinality(Owner) + ring'.count /\ ring'.count \in Nat
          BY <1>2, <3>1, <3>4, SMTT(20)
        <5>2. QED
          BY <1>2, <1>total, <2>5, <3>2, <4>1, <5>1, ZenonT(20)
    <3>5. QED
      BY <3>3, <3>4
  <2>7. CASE SubmitWait(s)
    BY <1>1, <2>4, <2>7 DEF SubmitWait, coreVars, InCall
  <2>8. CASE SubmitCopy(s)
    <3>1. /\ copies' = copies + 1 /\ UNCHANGED ring
          /\ call'[s].copied /\ ~call[s].copied /\ InCall(s)'
      BY <1>1, <2>8 DEF SubmitCopy, coreVars, InCall
    <3>2. Owner' = Owner \cup {s} /\ s \notin Owner
      BY <2>2, <3>1 DEF Owner
    <3>3. Cardinality(Owner') = Cardinality(Owner) + 1
      BY <1>2, <3>2, FS_AddElement, ZenonT(20)
    <3>4. \A t \in Sender : call'[t].copied => InCall(t)'
      BY <1>2, <2>2, <3>1
    <3>5. QED
      BY <1>2, <1>total, <3>1, <3>3, <3>4, SMTT(20)
  <2>9. CASE SubmitEnqueue(s)
    <3>1. /\ copies' = copies /\ ring' = Put(ring, call[s].payload)
          /\ call'[s] = NoCall /\ call[s].copied
      BY <1>1, <2>9, ZenonT(20) DEF SubmitEnqueue
    <3>2. ~call'[s].copied
      BY <3>1, SMTT(20) DEF NoCall
    <3>3. ring'.count = ring.count + 1
      BY <3>1, SMTT(20) DEF Put
    <3>4. Cardinality(Owner \ {s}) = Cardinality(Owner) - 1
      BY <1>2, <3>1, FS_RemoveElement, ZenonT(20) DEF Owner
    <3>5. Cardinality(Owner \ {s}) \in Nat
      BY <1>2, FS_RemoveElement, FS_CardinalityType
    <3>6. QED
      <4>1. copies' = Cardinality(Owner \ {s}) + ring'.count /\ ring'.count \in Nat
        BY <1>2, <3>1, <3>3, <3>4, <3>5, SMTT(20)
      <4>2. QED
        BY <1>total, <2>5, <3>2, <3>5, <4>1
  <2>10. QED
    BY <2>1, <2>6, <2>7, <2>8, <2>9, SubmitCases
<1>4. ASSUME UNCHANGED call, copies' - ring'.count = copies - ring.count,
             ring'.count \in Nat, copies' \in Nat
      PROVE  CopiesAccounted'
  <2>1. \A s \in Sender : call'[s].copied => InCall(s)'
    <3>1. \A s \in Sender : call[s].copied => call[s].payload # NULL
      BY <1>2 DEF IInv, CallsWellFormed
    <3>2. QED
      BY <1>4, <3>1 DEF CallsWellFormed
  <2>2. Owner' = Owner
    BY <1>4 DEF Owner
  <2>3. QED
    BY <1>1, <1>2, <1>4, <1>total, <2>1, <2>2, SMTT(20)
<1>5. CASE UNCHANGED <<copies, ring>> /\ UNCHANGED call
  BY <1>1, <1>2, <1>4, <1>5, SMTT(20)
<1>6. CASE UNCHANGED <<copies, ring>>
  <2>1. CASE \E s \in Sender, p \in Payload, b \in BOOLEAN : BeginSubmit(s, p, b)
    <3>1. PICK s \in Sender, p \in Payload, b \in BOOLEAN : BeginSubmit(s, p, b)
      BY <2>1
    <3>2. ~call[s].copied /\ ~call'[s].copied
      BY <1>1, <1>2, <3>1 DEF BeginSubmit, InCall
    <3>3. \A t \in Sender : t # s => call'[t] = call[t] /\ (InCall(t)' <=> InCall(t))
      BY <1>1, <3>1 DEF BeginSubmit, InCall
    <3>4. Owner' = Owner
      BY <3>2, <3>3 DEF Owner
    <3>5. \A t \in Sender : call'[t].copied => InCall(t)'
      BY <1>2, <3>2, <3>3
    <3>6. QED
      BY <1>1, <1>2, <1>6, <1>total, <3>4, <3>5, SMTT(20)
  <2>2. CASE (\E s \in Sender : ChannelNew(s)) \/ CallsUntouched
    BY <1>5, <1>6, <2>2 DEF ChannelNew, CallsUntouched
  <2>3. QED
    BY <1>3, <2>1, <2>2, CallSteps
<1>7. CASE ring.count > 0 /\ ring' = Take(ring) /\ copies' = copies - 1 /\ UNCHANGED call
  <2>1. ring'.count = ring.count - 1
    BY <1>7 DEF Take
  <2>2. QED
    BY <1>2, <1>4, <1>7, <2>1, SMTT(20)
<1>8. CASE /\ ring' = EmptyRing
           /\ copies' = copies - Cardinality(Occupied(ring)) /\ UNCHANGED call
  <2>1. Cardinality(Occupied(ring)) = ring.count
    BY <1>1, OccupiedCount
  <2>2. ring'.count = 0
    BY <1>8 DEF EmptyRing
  <2>3. QED
    BY <1>2, <1>4, <1>8, <2>1, <2>2, SMTT(20)
<1>9. QED
  BY <1>3, <1>6, <1>7, <1>8, CopySteps

(* What the threads hold keeps its type. *)
LEMMA LocalsStep ==
    ASSUME IInv, Next
    PROVE  /\ receiverAlive' \in BOOLEAN /\ closed' \in BOOLEAN
           /\ pc' \in [Endpoint -> Location]
           /\ call' \in [Sender -> Call]
           /\ result' \in [Endpoint -> Outcome \cup Payload]
<1>1. /\ TypeOK /\ Sender \subseteq Endpoint /\ Receiver \in Endpoint
      /\ pc \in [Endpoint -> Location] /\ call \in [Sender -> Call]
      /\ result \in [Endpoint -> Outcome \cup Payload]
      /\ receiverAlive \in BOOLEAN /\ closed \in BOOLEAN
  BY SMTT(20) DEF Endpoint, IInv, TypeOK
<1>2. receiverAlive' \in BOOLEAN /\ closed' \in BOOLEAN
  BY <1>1, ZenonT(20) DEF Next, SenderNext, SubmitStep, ReceiverNext, ReceiveStep, Finished, vars,
       coreVars, ChannelNew, ChannelReceiver, SenderShare, BeginSubmit, Abandon,
       SubmitLockFails, SubmitTooLarge, SubmitWait, SubmitWaitFails, SubmitRefused,
       SubmitCopy, SubmitEnqueue, SenderClose, FinalizeSender, ReceiveLockFails,
       ReceiveWait, ReceiveWaitFails, ReceiveNothing, ReceiveTake, ReceiverClose,
       FinalizeReceiver, CoreRelease, SpuriousWake
<1>3. call' \in [Sender -> Call]
  <2>1. NoCall \in Call
    BY DEF NoCall, Call
  <2>2. ASSUME NEW s \in Sender, SubmitStep(s)
        PROVE  call' \in [Sender -> Call]
    <3>1. CASE SubmitCopy(s)
      <4>1. call[s] \in Call
        BY <1>1
      <4>2. [payload |-> call[s].payload, block |-> call[s].block, copied |-> TRUE] \in Call
        BY <4>1, SMTT(20) DEF Call
      <4>3. QED
        BY <1>1, <3>1, <4>2 DEF SubmitCopy
    <3>2. CASE (\E outcome \in Outcome : Abandon(s, outcome)) \/ SubmitEnqueue(s) \/ SubmitWait(s)
      BY <1>1, <2>1, <3>2 DEF Abandon, SubmitEnqueue, SubmitWait
    <3>3. QED
      BY <2>2, <3>1, <3>2, SubmitCases
  <2>3. ASSUME NEW s \in Sender, NEW p \in Payload, NEW b \in BOOLEAN, BeginSubmit(s, p, b)
        PROVE  call' \in [Sender -> Call]
    <3>1. [payload |-> p, block |-> b, copied |-> FALSE] \in Call
      BY DEF Call
    <3>2. QED
      BY <1>1, <2>3, <3>1 DEF BeginSubmit
  <2>4. CASE CallsUntouched \/ \E s \in Sender : ChannelNew(s)
    BY <1>1, <2>4 DEF CallsUntouched, ChannelNew
  <2>5. QED
    BY <2>2, <2>3, <2>4, CallSteps
<1>4. /\ pc' \in [Endpoint -> Location]
      /\ result' \in [Endpoint -> Outcome \cup Payload]
  <2> DEFINE Typed == /\ pc' \in [Endpoint -> Location]
                      /\ result' \in [Endpoint -> Outcome \cup Payload]
  <2>1. ASSUME NEW t \in Endpoint, NEW where \in Location, Settled(t, where)
        PROVE  pc' \in [Endpoint -> Location]
    BY <1>1, <2>1 DEF Settled, Location
  <2>2. ASSUME NEW t \in Endpoint, NEW outcome \in Outcome \cup Payload,
               Return(t, outcome)
        PROVE  result' \in [Endpoint -> Outcome \cup Payload]
    BY <1>1, <2>2 DEF Return
  <2>3. /\ {"absent", "constructing", "idle", "locking", "waiting", "woken", "releasing"}
              \subseteq Location
        /\ {"None", "Sent", "Empty", "Failed", "Closed"} \subseteq Outcome
    BY SMTT(20) DEF Location, Outcome, Refusal
  <2>4. ASSUME NEW s \in Sender, SenderNext(s)
        PROVE  Typed
    <3>1. CASE SubmitEnqueue(s)
      BY <1>1, <2>1, <2>2, <2>3, <3>1, Notifications, ZenonT(20) DEF SubmitEnqueue
    <3>2. CASE (\E outcome \in Outcome : Abandon(s, outcome)) \/ SubmitWait(s) \/ SubmitCopy(s)
      BY <1>1, <2>2, <2>3, <3>2, SMTT(20) DEF Abandon, SubmitWait, SubmitCopy
    <3>3. CASE SenderClose(s) \/ FinalizeSender(s)
      <4>1. pc' \in [Endpoint -> Location]
        BY <1>1, <2>1, <2>3, <3>3, Notifications, SMTT(20)
      <4>2. QED
        BY <1>1, <3>3, <4>1, SMTT(20) DEF SenderClose, FinalizeSender
    <3>4. CASE \/ ChannelNew(s) \/ ChannelReceiver(s)
               \/ \E t \in Sender : SenderShare(s, t)
               \/ \E p \in Payload, b \in BOOLEAN : BeginSubmit(s, p, b)
      BY <1>1, <2>2, <2>3, <3>4 DEF ChannelNew, ChannelReceiver, SenderShare, BeginSubmit
    <3>5. QED
      BY <2>4, <3>1, <3>2, <3>3, <3>4, SubmitCases, ZenonT(20) DEF SenderNext
  <2>5. CASE ReceiverNext
    <3>1. ASSUME NEW b \in BOOLEAN, ReceiveTake(b)
          PROVE  Typed
      <4>1. Front(ring) \in Payload
        <5>1. /\ ring \in RingOf(Payload) /\ WellFormed(ring)
              /\ ring.count > 0
          BY <3>1 DEF IInv, TypeOK, RingIntegrity, ReceiveTake
        <5>2. /\ ring.count \in 0 .. Capacity
              /\ \A k \in 0 .. ring.count - 1 : ring.slots[Slot(ring, k)] \in Payload
          BY <5>1, QueuedItems
        <5>3. Front(ring) = ring.slots[Slot(ring, 0)] /\ 0 \in 0 .. ring.count - 1
          BY <5>1, <5>2, TakeReads, CapacityAssumption, SMTT(20)
        <5>4. QED
          BY <5>2, <5>3
      <4>2. pc' \in [Endpoint -> Location]
        BY <1>1, <2>1, <2>3, <3>1, Notifications, SMTT(20)
      <4>3. QED
        BY <1>1, <2>2, <2>3, <3>1, <4>1, <4>2, SMTT(20) DEF ReceiveTake
    <3>2. CASE ReceiverClose \/ FinalizeReceiver
      <4>1. pc' \in [Endpoint -> Location]
        BY <1>1, <2>1, <2>3, <3>2, Notifications, SMTT(20)
      <4>2. QED
        BY <1>1, <3>2, <4>1, SMTT(20) DEF ReceiverClose, FinalizeReceiver
    <3>3. CASE ReceiveLockFails \/ ReceiveWait \/ ReceiveWaitFails
               \/ \E b \in BOOLEAN : ReceiveNothing(b)
      BY <1>1, <2>2, <2>3, <3>3, ZenonT(20) DEF ReceiveLockFails, ReceiveWait, ReceiveWaitFails,
                                    ReceiveNothing
    <3>4. QED
      BY <2>5, <3>1, <3>2, <3>3, SMTT(20) DEF ReceiverNext, ReceiveStep
  <2>6. CASE \E t \in Endpoint : CoreRelease(t) \/ SpuriousWake(t)
    BY <1>1, <2>3, <2>6 DEF CoreRelease, SpuriousWake
  <2>7. CASE Finished
    BY <1>1, <2>7 DEF Finished, vars
  <2>8. QED
    BY <2>4, <2>5, <2>6, <2>7 DEF Next
<1>5. QED
  BY <1>2, <1>3, <1>4

(* Every step of the channel, and every step of the rest of the program,    *)
(* keeps IInv.                                                              *)
LEMMA NextIInv == IInv /\ [Next]_vars => IInv'
<1>1. ASSUME IInv, Next PROVE IInv'
  <2>1. TypeOK'
    BY <1>1, RingStep, BytesStep, HandlesStep, CallsStep, CopiesStep, LocalsStep, SMTT(20) DEF TypeOK
  <2>2. QED
    BY <1>1, <2>1, RingStep, BytesStep, HandlesStep, CallsStep, CopiesStep, SMTT(20) DEF IInv
<1>2. ASSUME IInv, UNCHANGED vars PROVE IInv'
  BY <1>2 DEF IInv, TypeOK, RingIntegrity, BytesAccounted, CopiesAccounted,
              HandlesAccounted, CallsWellFormed, InCall, vars, coreVars
<1>3. QED
  BY <1>1, <1>2

(* IInv holds in every reachable state: whatever the number of senders, the *)
(* capacity, the limits and the system calls that fail.                     *)
THEOREM Invariance == Spec => []IInv
<1>1. QED
  BY InitIInv, NextIInv, PTL DEF Spec

(* The variables of the channel keep their types; queued_bytes in           *)
(* particular stays between 0 and max_queued_bytes.                         *)
THEOREM TypeCorrect == Spec => []TypeOK
<1>1. IInv => TypeOK
  BY DEF IInv
<1>2. QED
  BY <1>1, Invariance, PTL

(* The slots in use are the count slots from head on: receive never takes a *)
(* null slot and submit never overwrites a queued message.                  *)
THEOREM RingCorrect == Spec => []RingIntegrity
<1>1. IInv => RingIntegrity
  BY DEF IInv
<1>2. QED
  BY <1>1, Invariance, PTL

(* queued_bytes is always the total length of the queued messages, within   *)
(* max_queued_bytes: the int32 arithmetic of submit and receive is exact.   *)
THEOREM BytesCorrect == Spec => []BytesAccounted
<1>1. IInv => BytesAccounted
  BY DEF IInv
<1>2. QED
  BY <1>1, Invariance, PTL

(* Native copies are neither leaked nor freed twice on any path of submit,  *)
(* receive and core_release.                                                *)
THEOREM CopiesCorrect == Spec => []CopiesAccounted
<1>1. IInv => CopiesAccounted
  BY DEF IInv
<1>2. QED
  BY <1>1, Invariance, PTL

(* The core lives exactly as long as some handle does.                      *)
THEOREM HandlesCorrect == Spec => []HandlesAccounted
<1>1. IInv => HandlesAccounted
  BY DEF IInv
<1>2. QED
  BY <1>1, Invariance, PTL

-----------------------------------------------------------------------------
(* Wake-ups *)

(* NoSleeperMissesEvent when every signal and broadcast works.              *)
Awake ==
    /\ pc[Receiver] = "waiting" => ring.count = 0 /\ ~closed
    /\ \A s \in Sender : pc[s] = "waiting" => Open

(* A step that puts nobody to sleep, closes nothing and enqueues nothing.   *)
Quiet ==
    /\ \A t \in Endpoint : pc'[t] = "waiting" => pc[t] = "waiting"
    /\ closed' = closed
    /\ receiverAlive => receiverAlive'
    /\ ring' = ring \/ ring' = EmptyRing

LEMMA QuietAwake ==
    ASSUME IInv, Awake, Quiet
    PROVE  Awake'
<1>1. ring'.count = ring.count \/ ring'.count = 0
  BY SMTT(20) DEF Quiet, EmptyRing
<1>2. closed \in BOOLEAN /\ receiverAlive \in BOOLEAN
  BY DEF IInv, TypeOK
<1>3. QED
  BY <1>1, <1>2 DEF Awake, Quiet, Open, Endpoint

(* The steps of submit: it sleeps only while the channel is open, and its   *)
(* message wakes the receiver.                                              *)
LEMMA SubmitAwake ==
    ASSUME IInv, Awake, "signal" \notin Fault, NEW s \in Sender, SubmitStep(s)
    PROVE  Awake'
<1>1. /\ Sender \subseteq Endpoint /\ Receiver \in Endpoint /\ Receiver # s
      /\ pc \in [Endpoint -> Location]
  BY NameAssumption DEF Endpoint, IInv, TypeOK
<1>2. CASE \E outcome \in Outcome : Abandon(s, outcome)
  BY <1>1, <1>2, SMTT(20) DEF Abandon, coreVars, Awake, Open
<1>3. CASE SubmitWait(s)
  BY <1>1, <1>3 DEF SubmitWait, MustWait, coreVars, Awake, Open
<1>4. CASE SubmitCopy(s)
  BY <1>1, <1>4 DEF SubmitCopy, coreVars, Awake, Open
<1>5. CASE SubmitEnqueue(s)
  <2>1. PICK woken \in SignalWakes({Receiver}, TRUE) : pc' = Moved(s, "idle", woken)
    BY <1>5 DEF SubmitEnqueue, Notified
  <2>2. pc[Receiver] = "waiting" => woken = {Receiver}
    BY <2>1 DEF SignalWakes, Waiters
  <2>3. pc'[Receiver] # "waiting"
    BY <1>1, <2>1, <2>2 DEF Moved
  <2>4. \A t \in Sender : pc'[t] = "waiting" => pc[t] = "waiting"
    BY <1>1, <2>1 DEF Moved
  <2>5. UNCHANGED <<receiverAlive, closed>>
    BY <1>5 DEF SubmitEnqueue
  <2>6. QED
    BY <2>3, <2>4, <2>5 DEF Awake, Open
<1>6. QED
  BY <1>2, <1>3, <1>4, <1>5, SubmitCases, SMTT(20)

(* The steps of the receiver that do not close.                             *)
LEMMA ReceiveAwake ==
    ASSUME IInv, Awake,
           \/ ReceiveLockFails \/ ReceiveWait \/ ReceiveWaitFails
           \/ \E b \in BOOLEAN : ReceiveStep(b)
    PROVE  Awake'
<1>1. /\ Sender \subseteq Endpoint /\ Receiver \in Endpoint /\ Receiver \notin Sender
      /\ pc \in [Endpoint -> Location] /\ TypeOK
  BY NameAssumption DEF Endpoint, IInv, TypeOK
<1>2. CASE ReceiveLockFails
  BY <1>2 DEF ReceiveLockFails, coreVars, Awake, Open
<1>3. CASE ReceiveWait
  BY <1>1, <1>3 DEF ReceiveWait, coreVars, Awake, Open
<1>4. CASE ReceiveWaitFails \/ \E b \in BOOLEAN : ReceiveNothing(b)
  <2>1. pc' = [pc EXCEPT ![Receiver] = "idle"] /\ UNCHANGED coreVars
    BY <1>4 DEF ReceiveWaitFails, ReceiveNothing
  <2>2. \A t \in Endpoint : pc'[t] = "waiting" => pc[t] = "waiting"
    BY <1>1, <2>1
  <2>3. UNCHANGED <<ring, closed, receiverAlive>>
    BY <2>1 DEF coreVars
  <2>4. QED
    BY <2>2, <2>3, QuietAwake DEF Quiet
<1>5. ASSUME NEW b \in BOOLEAN, ReceiveTake(b) PROVE Awake'
  <2>1. Settled(Receiver, "idle")
    BY <1>1, <1>5, Notifications
  <2>2. UNCHANGED <<receiverAlive, closed>>
    BY <1>5 DEF ReceiveTake
  <2>3. QED
    BY <1>1, <2>1, <2>2 DEF Settled, Awake, Open
<1>6. QED
  BY <1>2, <1>3, <1>4, <1>5 DEF ReceiveStep

(* Closing wakes every waiter, on both condition variables; a finalizer     *)
(* that is not the one that closes changes nothing a waiter waits for.      *)
LEMMA CloseAwake ==
    ASSUME IInv, Awake, "signal" \notin Fault,
           \/ \E s \in Sender : SenderClose(s) \/ FinalizeSender(s)
           \/ ReceiverClose \/ FinalizeReceiver
    PROVE  Awake'
<1>1. /\ Sender \subseteq Endpoint /\ Receiver \in Endpoint /\ Receiver \notin Sender
      /\ pc \in [Endpoint -> Location] /\ TypeOK
  BY NameAssumption DEF Endpoint, IInv, TypeOK
<1>2. ASSUME NEW t \in Endpoint, NEW where \in {"idle", "releasing"},
             pc' = Moved(t, where, Waiters(Endpoint))
      PROVE  Awake'
  <2>1. \A u \in Endpoint : pc'[u] # "waiting"
    BY <1>2 DEF Moved, Waiters
  <2>2. QED
    BY <1>1, <2>1 DEF Awake
<1>3. BroadcastWakes({Receiver}, TRUE) \cup BroadcastWakes(Sender, TRUE) = Waiters(Endpoint)
  BY DEF BroadcastWakes, Waiters, Endpoint
<1>4. Notified = {TRUE}
  BY DEF Notified
<1>5. ASSUME NEW s \in Sender, SenderClose(s) PROVE Awake'
  <2>1. pc' = Moved(s, "idle", Waiters(Endpoint))
    BY <1>3, <1>4, <1>5 DEF SenderClose
  <2>2. QED
    BY <1>1, <1>2, <2>1
<1>6. CASE ReceiverClose
  <2>1. pc' = Moved(Receiver, "idle", Waiters(Endpoint))
    BY <1>3, <1>4, <1>6 DEF ReceiverClose
  <2>2. QED
    BY <1>1, <1>2, <2>1
<1>7. ASSUME NEW s \in Sender, FinalizeSender(s) PROVE Awake'
  <2>1. CASE senders = 1
    <3>1. pc' = Moved(s, "releasing", Waiters(Endpoint))
      BY <1>7, <2>1 DEF FinalizeSender
    <3>2. QED
      BY <1>1, <1>2, <3>1
  <2>2. CASE senders # 1
    <3>1. Settled(s, "releasing")
      BY <1>1, <1>7, Notifications
    <3>2. closed' = closed
      <4>1. closed \in BOOLEAN /\ closed' = (closed \/ senders = 1)
        BY <1>1, <1>7 DEF TypeOK, FinalizeSender
      <4>2. QED
        BY <2>2, <4>1
    <3>3. UNCHANGED <<ring, receiverAlive>>
      BY <1>7 DEF FinalizeSender
    <3>4. QED
      BY <1>1, <3>1, <3>2, <3>3 DEF Settled, Awake, Open
  <2>3. QED
    BY <2>1, <2>2
<1>8. CASE FinalizeReceiver
  <2>1. CASE receiverAlive
    <3>1. pc' = Moved(Receiver, "releasing", Waiters(Endpoint))
      BY <1>8, <2>1 DEF FinalizeReceiver
    <3>2. QED
      BY <1>1, <1>2, <3>1
  <2>2. CASE ~receiverAlive
    <3>1. Settled(Receiver, "releasing")
      BY <1>1, <1>8, Notifications
    <3>2. \A s \in Sender : pc[s] # "waiting"
      BY <2>2 DEF Awake, Open
    <3>3. QED
      BY <1>1, <3>1, <3>2 DEF Settled, Awake
  <2>3. QED
    BY <2>1, <2>2
<1>9. QED
  BY <1>5, <1>6, <1>7, <1>8

(* Every step keeps Awake.                                                  *)
LEMMA AwakeStep ==
    ASSUME IInv, Awake, "signal" \notin Fault, Next
    PROVE  Awake'
<1>1. /\ Sender \subseteq Endpoint /\ Receiver \in Endpoint
      /\ pc \in [Endpoint -> Location]
  BY DEF Endpoint, IInv, TypeOK
<1>2. ASSUME NEW s \in Sender,
             \/ ChannelNew(s) \/ ChannelReceiver(s)
             \/ \E t \in Sender : SenderShare(s, t)
             \/ \E p \in Payload, b \in BOOLEAN : BeginSubmit(s, p, b)
      PROVE  Quiet
  BY <1>1, <1>2, SMTT(20) DEF ChannelNew, ChannelReceiver, SenderShare, BeginSubmit, coreVars, Quiet
<1>3. ASSUME NEW t \in Endpoint, CoreRelease(t) \/ SpuriousWake(t)
      PROVE  Quiet
  BY <1>1, <1>3, SMTT(20) DEF CoreRelease, SpuriousWake, coreVars, Quiet
<1>4. CASE Finished
  BY <1>4 DEF Finished, vars, coreVars, Awake, Open
<1>5. QED
  BY <1>2, <1>3, <1>4, QuietAwake, SubmitAwake, ReceiveAwake, CloseAwake, SMTT(20)
     DEF Next, SenderNext, ReceiverNext

(* submit, receive, close and the finalizers: while signals work nobody     *)
(* sleeps through the event it waits for, for any number of senders and     *)
(* every mix of message lengths.                                            *)
THEOREM WakeupsCorrect == Spec => []NoSleeperMissesEvent
<1>1. CASE "signal" \in Fault
  <2>1. NoSleeperMissesEvent
    BY <1>1 DEF NoSleeperMissesEvent
  <2>2. QED
    BY <2>1, PTL
<1>2. CASE "signal" \notin Fault
  <2>1. Init => Awake
    BY DEF Init, Awake, Endpoint
  <2>2. IInv /\ Awake /\ [Next]_vars => Awake'
    <3>1. ASSUME IInv, Awake, UNCHANGED vars PROVE Awake'
      BY <3>1 DEF vars, coreVars, Awake, Open
    <3>2. QED
      BY <1>2, <3>1, AwakeStep
  <2>3. Awake => NoSleeperMissesEvent
    BY DEF Awake, NoSleeperMissesEvent
  <2>4. QED
    BY <2>1, <2>2, <2>3, Invariance, PTL DEF Spec
<1>3. QED
  BY <1>1, <1>2

-----------------------------------------------------------------------------
(* The refinement of FifoChannel.                                           *)

(* Nobody is past the constructor, or every handle is on its way out.       *)
NobodyInside == \A t \in Endpoint : pc[t] \in {"absent", "constructing", "releasing"}

(* What the mapping needs beyond IInv.  A live handle without a receiver    *)
(* means a closed channel, so submit's test of receiver_alive tells callers *)
(* nothing that closed does not; and a core without senders was closed by   *)
(* the finalizer of the last one, so what core_release frees is discarded   *)
(* from a closed channel.                                                   *)
LifeCycle ==
    /\ receiverAlive \/ closed \/ NobodyInside
    /\ senders = 0 => closed \/ core = "none"

(* A step of a thread inside that neither closes nor counts handles.        *)
LEMMA InsideLife ==
    ASSUME LifeCycle, NEW t \in Endpoint,
           pc[t] \in {"idle", "locking", "waiting", "woken"},
           UNCHANGED <<core, senders, receiverAlive, closed>>
    PROVE  LifeCycle'
<1>1. ~NobodyInside
  BY DEF NobodyInside
<1>2. QED
  BY <1>1 DEF LifeCycle

(* A step that closes. *)
LEMMA ClosedLife ==
    ASSUME closed'
    PROVE  LifeCycle'
BY Zenon DEF LifeCycle

(* Every step keeps LifeCycle. *)
LEMMA LifeCycleStep ==
    ASSUME IInv, LifeCycle, Next
    PROVE  LifeCycle'
<1>1. /\ Sender \subseteq Endpoint /\ Receiver \in Endpoint
      /\ pc \in [Endpoint -> Location] /\ senders \in Nat /\ TypeOK
      /\ closed \in BOOLEAN /\ receiverAlive \in BOOLEAN
  BY DEF Endpoint, IInv, TypeOK
<1>2. ASSUME NEW s \in Sender, ChannelNew(s) PROVE LifeCycle'
  <2>1. \A t \in Endpoint : pc[t] = "absent"
    BY <1>2, HeldFacts DEF ChannelNew, Held
  <2>2. pc' = [pc EXCEPT ![s] = "constructing"] /\ senders' = 1
    BY <1>2 DEF ChannelNew
  <2>3. NobodyInside'
    BY <1>1, <2>1, <2>2 DEF NobodyInside
  <2>4. senders' # 0
    BY <2>2, SMTT(20)
  <2>5. QED
    BY <2>3, <2>4 DEF LifeCycle
<1>3. ASSUME NEW s \in Sender, ChannelReceiver(s) PROVE LifeCycle'
  <2>1. receiverAlive' /\ UNCHANGED <<core, senders, closed>>
    BY <1>3 DEF ChannelReceiver
  <2>2. QED
    BY <2>1 DEF LifeCycle
<1>4. ASSUME NEW s \in Sender, NEW t \in Sender, SenderShare(s, t) PROVE LifeCycle'
  <2>1. pc[s] = "idle" /\ senders' = senders + 1 /\ UNCHANGED <<receiverAlive, closed>>
    BY <1>4 DEF SenderShare
  <2>2. ~NobodyInside /\ senders' # 0
    BY <1>1, <2>1, SMTT(20) DEF NobodyInside
  <2>3. QED
    BY <2>1, <2>2 DEF LifeCycle
<1>5. ASSUME NEW s \in Sender, NEW p \in Payload, NEW b \in BOOLEAN, BeginSubmit(s, p, b)
      PROVE  LifeCycle'
  BY <1>1, <1>5, InsideLife DEF BeginSubmit, coreVars
<1>6. ASSUME NEW s \in Sender, SubmitStep(s) PROVE LifeCycle'
  <2>1. pc[s] \in {"locking", "woken"}
    BY <1>6, SubmitCases
  <2>2. UNCHANGED <<core, senders, receiverAlive, closed>>
    BY <1>6 DEF SubmitStep, SubmitLockFails, SubmitTooLarge, SubmitWait, SubmitWaitFails,
                SubmitRefused, SubmitCopy, SubmitEnqueue, Abandon, coreVars
  <2>3. QED
    BY <1>1, <2>1, <2>2, InsideLife
<1>7. ASSUME \/ ReceiveLockFails \/ ReceiveWait \/ ReceiveWaitFails
             \/ \E b \in BOOLEAN : ReceiveStep(b)
      PROVE  LifeCycle'
  BY <1>1, <1>7, InsideLife DEF ReceiveLockFails, ReceiveWait, ReceiveWaitFails, ReceiveStep,
     ReceiveNothing, ReceiveTake, InReceive, coreVars
<1>8. ASSUME ReceiverClose \/ \E s \in Sender : SenderClose(s) PROVE LifeCycle'
  BY <1>8, ClosedLife DEF ReceiverClose, SenderClose
<1>9. ASSUME NEW s \in Sender, FinalizeSender(s) PROVE LifeCycle'
  <2>1. /\ pc[s] \in {"idle", "constructing"} /\ senders' = senders - 1
        /\ UNCHANGED <<core, receiverAlive>> /\ Settled(s, "releasing")
    BY <1>1, <1>9, Notifications DEF FinalizeSender
  <2>2. closed' = (closed \/ senders = 1)
    BY <1>9 DEF FinalizeSender
  <2>3. CASE senders = 1
    <3>1. closed'
      BY <2>2, <2>3
    <3>2. QED
      BY <3>1, ClosedLife
  <2>4. CASE senders # 1
    <3>1. closed' = closed
      BY <1>1, <2>2, <2>4
    <3>2. senders' # 0
      BY <1>1, <2>1, <2>4, SMTT(20)
    <3>3. NobodyInside => NobodyInside'
      BY <1>1, <2>1 DEF NobodyInside, Settled
    <3>4. QED
      BY <2>1, <3>1, <3>2, <3>3 DEF LifeCycle
  <2>5. QED
    BY <2>3, <2>4
<1>10. ASSUME FinalizeReceiver PROVE LifeCycle'
  <2>1. ~NobodyInside
    BY <1>1, <1>10 DEF FinalizeReceiver, NobodyInside
  <2>2. closed' = (closed \/ receiverAlive)
    BY <1>10 DEF FinalizeReceiver
  <2>3. closed'
    BY <2>1, <2>2 DEF LifeCycle
  <2>4. QED
    BY <2>3, ClosedLife
<1>11. ASSUME NEW t \in Endpoint, CoreRelease(t) PROVE LifeCycle'
  <2>1. /\ pc' = [pc EXCEPT ![t] = "absent"] /\ core' \in {core, "freed"}
        /\ UNCHANGED <<senders, receiverAlive, closed>>
    BY <1>11 DEF CoreRelease
  <2>2. NobodyInside => NobodyInside'
    BY <1>1, <2>1 DEF NobodyInside
  <2>3. core # "none"
    BY <1>11, HeldFacts DEF CoreRelease, Held
  <2>4. QED
    BY <2>1, <2>2, <2>3 DEF LifeCycle
<1>12. ASSUME NEW t \in Endpoint, SpuriousWake(t) PROVE LifeCycle'
  BY <1>12, InsideLife DEF SpuriousWake, coreVars
<1>13. ASSUME Finished PROVE LifeCycle'
  BY <1>13 DEF Finished, vars, coreVars, LifeCycle, NobodyInside
<1>14. QED
  BY <1>2, <1>3, <1>4, <1>5, <1>6, <1>7, <1>8, <1>9, <1>10, <1>11, <1>12, <1>13, SMTT(20)
     DEF Next, SenderNext, ReceiverNext

(* The queue the users see, as a sequence. *)
LEMMA QueueSeen ==
    ASSUME IInv
    PROVE  /\ Len(Contents(ring)) = ring.count
           /\ Contents(ring) = <<>> <=> ring.count = 0
           /\ ring.count \in 0 .. Capacity /\ Capacity \in Nat
<1>1. ring \in RingOf(Payload) /\ WellFormed(ring)
  BY DEF IInv, TypeOK, RingIntegrity
<1>2. QED
  BY <1>1, ContentsSequence, QueuedItems, CapacityAssumption, SMTT(20)

(* A step that leaves ring, bytes, closed and the results alone is not seen *)
(* by the users.                                                            *)
LEMMA Unseen ==
    ASSUME UNCHANGED <<ring, queuedBytes, closed, result>>
    PROVE  UNCHANGED Fifo!vars
BY DEF Fifo!vars, Contents, Slot

(* Every way out of submit that enqueues nothing reports something that is  *)
(* true of the queue at that moment.                                        *)
LEMMA AbandonRefuses ==
    ASSUME IInv, LifeCycle, NEW s \in Sender,
           \/ SubmitLockFails(s) \/ SubmitTooLarge(s) \/ SubmitWaitFails(s)
           \/ SubmitRefused(s)
    PROVE  Fifo!Next
<1> DEFINE p == call[s].payload
<1>1. p \in Payload /\ pc[s] \in {"locking", "woken"} /\ s \in Endpoint
  BY SubmitCases DEF SubmitStep, Endpoint
<1>2. /\ Length[p] \in Nat /\ MaxQueuedBytes \in Nat /\ queuedBytes \in Nat
  BY <1>1, Limits, SMTT(20) DEF IInv, TypeOK
<1>3. SUFFICES Fifo!Refuse(s, p)
  BY <1>1 DEF Fifo!Next
<1>4. ASSUME NEW outcome, Abandon(s, outcome)
      PROVE  /\ Fifo!Return(s, outcome)
             /\ UNCHANGED <<Contents(ring), queuedBytes, closed>>
  BY <1>4 DEF Abandon, Return, Fifo!Return, coreVars, Contents, Slot
<1>5. ASSUME Abandon(s, "Failed") PROVE Fifo!Refuse(s, p)
  BY <1>4, <1>5 DEF Fifo!Refuse
<1>6. CASE SubmitLockFails(s) \/ SubmitWaitFails(s)
  BY <1>5, <1>6 DEF SubmitLockFails, SubmitWaitFails
<1>7. CASE SubmitTooLarge(s)
  BY <1>4, <1>7 DEF SubmitTooLarge, Fifo!Refuse
<1>8. CASE SubmitRefused(s)
  <2>1. Abandon(s, Refused(s)) /\ Refused(s) \in Refusal
    BY <1>8 DEF SubmitRefused
  <2>2. ~NobodyInside
    BY <1>1 DEF NobodyInside
  <2>3. ~Open <=> closed
    BY <2>2 DEF Open, LifeCycle
  <2>4. CASE ~Open
    BY <1>4, <2>1, <2>3, <2>4, SMTT(20) DEF Refused, Fifo!Refuse
  <2>5. CASE Open /\ Full
    BY <1>4, <2>1, <2>3, <2>5, QueueSeen, SMTT(20) DEF Refused, Full, Fifo!Refuse
  <2>6. CASE Open /\ ~Full /\ ~HasByteCapacity(p)
    <3>1. Len(Contents(ring)) < Capacity /\ ~Fifo!Room(p)
      BY <1>2, <2>6, QueueSeen, SMTT(20) DEF Full, HasByteCapacity, Fifo!Room
    <3>2. Refused(s) = "QueueByteLimitReached"
      BY <2>6 DEF Refused
    <3>3. QED
      BY <1>4, <2>1, <2>3, <2>6, <3>1, <3>2, SMTT(20) DEF Fifo!Refuse
  <2>7. CASE Open /\ ~Full /\ HasByteCapacity(p)
    BY <2>1, <2>7 DEF Refused, Refusal
  <2>8. QED
    BY <2>4, <2>5, <2>6, <2>7
<1>9. QED
  BY <1>6, <1>7, <1>8

(* Enqueueing is the instant at which a send takes effect. *)
LEMMA EnqueueSends ==
    ASSUME IInv, NEW s \in Sender, SubmitEnqueue(s)
    PROVE  Fifo!Next
<1> DEFINE p == call[s].payload
<1>1. /\ p \in Payload /\ ring.count # Capacity
      /\ queuedBytes + Length[p] <= MaxQueuedBytes
  BY EnqueueFacts
<1>2. Length[p] <= MaxMessageBytes
  BY DEF SubmitEnqueue, InSubmit, IInv, CallsWellFormed
<1>3. ring \in RingOf(Payload) /\ WellFormed(ring) /\ NULL \notin Payload
  BY NameAssumption DEF IInv, TypeOK, RingIntegrity
<1>4. Contents(ring') = Append(Contents(ring), p)
  BY <1>1, <1>3, PutAppends DEF SubmitEnqueue
<1>5. ~closed /\ closed' = closed
  BY DEF SubmitEnqueue, Refused, Open
<1>6. Fifo!Room(p)
  BY <1>1, QueueSeen, SMTT(20) DEF Fifo!Room
<1>7. Fifo!Return(s, "Sent") \/ Fifo!Return(s, "Failed")
  <2>1. PICK ok \in Notified : Return(s, IF ok THEN "Sent" ELSE "Failed")
    BY Zenon DEF SubmitEnqueue
  <2>2. CASE ok
    BY <2>1, <2>2 DEF Return, Fifo!Return
  <2>3. CASE ~ok
    BY <2>1, <2>3 DEF Return, Fifo!Return
  <2>4. QED
    BY <2>2, <2>3
<1>8. queuedBytes' = queuedBytes + Length[p]
  BY DEF SubmitEnqueue
<1>9. Contents(ring)' = Contents(ring')
  BY DEF Contents, Slot
<1>10. Fifo!Send(s, p)
  BY <1>2, <1>4, <1>5, <1>6, <1>7, <1>8, <1>9, SMTT(20) DEF Fifo!Send
<1>11. QED
  BY <1>1, <1>10 DEF Fifo!Next

(* receive: what it takes is the oldest message, and it reports that there  *)
(* is none only when there is none.                                         *)
LEMMA ReceiveReceives ==
    ASSUME IInv, NEW b \in BOOLEAN, ReceiveStep(b)
    PROVE  Fifo!Next
<1>1. ring \in RingOf(Payload) /\ WellFormed(ring) /\ NULL \notin Payload
  BY NameAssumption DEF IInv, TypeOK, RingIntegrity
<1>2. CASE ReceiveTake(b)
  <2>1. ring.count > 0 /\ ring' = Take(ring) /\ closed' = closed
        /\ queuedBytes' = queuedBytes - Length[Front(ring)]
    BY <1>2 DEF ReceiveTake
  <2>2. /\ Contents(ring) # <<>> /\ Front(ring) = Head(Contents(ring))
        /\ Contents(ring') = Tail(Contents(ring))
    BY <1>1, <2>1, TakeRemovesHead
  <2>3. Fifo!Return(Receiver, Front(ring)) \/ Fifo!Return(Receiver, "Failed")
    <3>1. PICK ok \in Notified : Return(Receiver, IF ok THEN Front(ring) ELSE "Failed")
      BY <1>2 DEF ReceiveTake
    <3>2. CASE ok
      BY <3>1, <3>2 DEF Return, Fifo!Return
    <3>3. CASE ~ok
      BY <3>1, <3>3 DEF Return, Fifo!Return
    <3>4. QED
      BY <3>2, <3>3
  <2>4. Contents(ring)' = Contents(ring')
    BY DEF Contents, Slot
  <2>5. Fifo!Receive
    BY <2>1, <2>2, <2>3, <2>4 DEF Fifo!Receive
  <2>6. QED
    BY <2>5 DEF Fifo!Next
<1>3. CASE ReceiveNothing(b)
  <2>1. /\ ring.count = 0 /\ UNCHANGED <<ring, queuedBytes, closed>>
        /\ Return(Receiver, IF closed THEN "Closed" ELSE "Empty")
    BY <1>3 DEF ReceiveNothing, coreVars
  <2>2. Contents(ring) = <<>> /\ UNCHANGED Contents(ring)
    BY <2>1, QueueSeen DEF Contents, Slot
  <2>3. Fifo!ReceiveNothing
    <3>1. UNCHANGED <<Contents(ring), queuedBytes, closed>>
      BY <2>1, <2>2
    <3>2. CASE closed
      BY <2>1, <2>2, <3>1, <3>2 DEF Fifo!ReceiveNothing, Fifo!Return, Return
    <3>3. CASE ~closed
      BY <2>1, <2>2, <3>1, <3>3 DEF Fifo!ReceiveNothing, Fifo!Return, Return
    <3>4. QED
      BY <3>2, <3>3
  <2>4. QED
    BY <2>3 DEF Fifo!Next
<1>4. QED
  BY <1>2, <1>3 DEF ReceiveStep

(* A step that leaves the queue alone and sets closed, or not, is Close or  *)
(* is not seen.                                                             *)
LEMMA Closing ==
    ASSUME closed' = TRUE \/ closed' = closed, UNCHANGED <<ring, queuedBytes, result>>
    PROVE  Fifo!Next \/ UNCHANGED Fifo!vars
<1>1. UNCHANGED Contents(ring)
  BY DEF Contents, Slot
<1>2. CASE closed' = TRUE
  BY <1>1, <1>2 DEF Fifo!Next, Fifo!Close
<1>3. CASE closed' = closed
  BY <1>3, Unseen
<1>4. QED
  BY <1>2, <1>3

(* The last core_release discards the queue of a closed channel. *)
LEMMA ReleaseDiscards ==
    ASSUME IInv, LifeCycle, NEW t \in Endpoint, CoreRelease(t)
    PROVE  Fifo!Next \/ UNCHANGED Fifo!vars
<1>1. pc[t] = "releasing" /\ UNCHANGED <<closed, result>>
  BY DEF CoreRelease
<1>2. CASE refs # 1
  <2>1. UNCHANGED <<ring, queuedBytes>>
    BY <1>2 DEF CoreRelease
  <2>2. QED
    BY <1>1, <2>1, Unseen
<1>3. CASE refs = 1
  <2>1. t \in Held /\ IsFiniteSet(Held) /\ Cardinality(Held) = 1 /\ core = "live"
    BY <1>1, <1>3, HeldFacts DEF Held
  <2>2. Cardinality(Held \ {t}) = 0 /\ IsFiniteSet(Held \ {t})
    BY <2>1, FS_RemoveElement, SMTT(20)
  <2>3. Held \ {t} = {}
    BY <2>2, FS_EmptySet
  <2>4. HeldSenders = {}
    BY <1>1, <2>3 DEF Held, HeldSenders, Endpoint
  <2>5. senders = 0
    BY <2>4, HeldFacts, FS_EmptySet
  <2>6. closed
    <3>1. core # "none"
      BY <2>1
    <3>2. QED
      BY <2>5, <3>1 DEF LifeCycle
  <2>7. ring' = EmptyRing /\ queuedBytes' = 0
    BY <1>3 DEF CoreRelease
  <2>8. Contents(ring)' = Contents(ring')
    BY DEF Contents, Slot
  <2>9. Contents(ring)' = <<>>
    BY <2>7, <2>8, EmptyContents
  <2>10. Fifo!Discard
    BY <1>1, <2>6, <2>7, <2>9 DEF Fifo!Discard
  <2>11. QED
    BY <2>10 DEF Fifo!Next
<1>4. QED
  BY <1>2, <1>3

(* Every step of the channel is a step of FifoChannel or is not seen. *)
LEMMA FifoStep ==
    ASSUME IInv, LifeCycle, Next
    PROVE  Fifo!Next \/ UNCHANGED Fifo!vars
<1>1. ASSUME NEW s \in Sender,
             ChannelNew(s) \/ ChannelReceiver(s) \/ \E t \in Sender : SenderShare(s, t)
      PROVE  UNCHANGED Fifo!vars
  BY <1>1, Unseen DEF ChannelNew, ChannelReceiver, SenderShare
<1>2. ASSUME NEW s \in Sender, NEW p \in Payload, NEW b \in BOOLEAN, BeginSubmit(s, p, b)
      PROVE  Fifo!Next
  <2>1. Fifo!Begin(s)
    BY <1>2 DEF BeginSubmit, Return, coreVars, Fifo!Begin, Fifo!Return, Contents, Slot
  <2>2. QED
    BY <2>1 DEF Fifo!Next
<1>3. ASSUME NEW s \in Sender, SubmitStep(s)
      PROVE  Fifo!Next \/ UNCHANGED Fifo!vars
  <2>1. CASE SubmitWait(s) \/ SubmitCopy(s)
    BY <2>1, Unseen DEF SubmitWait, SubmitCopy, coreVars
  <2>2. QED
    BY <1>3, <2>1, AbandonRefuses, EnqueueSends, SMTT(20) DEF SubmitStep
<1>4. ASSUME ReceiveLockFails \/ ReceiveWaitFails PROVE Fifo!Next
  <2>1. Fifo!ReceiveNothing
    <3>1. Return(Receiver, "Failed") /\ UNCHANGED coreVars
      BY <1>4 DEF ReceiveLockFails, ReceiveWaitFails
    <3>2. UNCHANGED <<Contents(ring), queuedBytes, closed>>
      BY <3>1 DEF coreVars, Contents, Slot
    <3>3. QED
      BY <3>1, <3>2 DEF Fifo!ReceiveNothing, Fifo!Return, Return
  <2>2. QED
    BY <2>1 DEF Fifo!Next
<1>5. ASSUME ReceiveWait PROVE UNCHANGED Fifo!vars
  BY <1>5, Unseen, SMTT(20) DEF ReceiveWait, coreVars
<1>6. ASSUME ReceiverClose \/ \E s \in Sender : SenderClose(s)
      PROVE  Fifo!Next \/ UNCHANGED Fifo!vars
  <2>1. UNCHANGED <<ring, queuedBytes, result>>
    BY <1>6 DEF ReceiverClose, SenderClose
  <2>2. closed' = TRUE
    BY <1>6 DEF ReceiverClose, SenderClose
  <2>3. QED
    BY <2>1, <2>2, Closing
<1>7. ASSUME FinalizeReceiver \/ \E s \in Sender : FinalizeSender(s)
      PROVE  Fifo!Next \/ UNCHANGED Fifo!vars
  <2>1. closed \in BOOLEAN /\ closed' \in BOOLEAN
    BY LocalsStep DEF IInv, TypeOK
  <2>2. UNCHANGED <<ring, queuedBytes, result>>
    BY <1>7 DEF FinalizeReceiver, FinalizeSender
  <2>3. closed => closed'
    BY <1>7 DEF FinalizeReceiver, FinalizeSender
  <2>4. closed' = TRUE \/ closed' = closed
    BY <2>1, <2>3
  <2>5. QED
    BY <2>2, <2>4, Closing
<1>8. ASSUME NEW t \in Endpoint, SpuriousWake(t) PROVE UNCHANGED Fifo!vars
  BY <1>8, Unseen DEF SpuriousWake, coreVars
<1>9. ASSUME Finished PROVE UNCHANGED Fifo!vars
  BY <1>9, Unseen DEF Finished, vars, coreVars
<1>10. QED
  BY <1>1, <1>2, <1>3, <1>4, <1>5, <1>6, <1>7, <1>8, <1>9, ReceiveReceives, ReleaseDiscards, SMTT(20)
     DEF Next, SenderNext, ReceiverNext

(* The channel is a linearizable bounded FIFO: every critical section of    *)
(* submit, receive, close and the finalizers is one step of FifoChannel or  *)
(* is not seen, for any number of senders, any capacity, any lengths and    *)
(* limits and any set of faults.                                            *)
THEOREM FifoCorrect == Spec => RefinesFifo
<1>1. Init => LifeCycle /\ Fifo!Init
  <2>1. Init => LifeCycle
    BY DEF Init, LifeCycle, NobodyInside
  <2>2. Init => Fifo!Init
    BY EmptyContents DEF Init, Endpoint, Fifo!Init
  <2>3. QED
    BY <2>1, <2>2
<1>2. IInv /\ LifeCycle /\ [Next]_vars => LifeCycle'
  <2>1. ASSUME LifeCycle, UNCHANGED vars PROVE LifeCycle'
    BY <2>1 DEF vars, coreVars, LifeCycle, NobodyInside
  <2>2. QED
    BY <2>1, LifeCycleStep
<1>3. IInv /\ LifeCycle /\ [Next]_vars => [Fifo!Next]_Fifo!vars
  <2>1. ASSUME UNCHANGED vars PROVE UNCHANGED Fifo!vars
    BY <2>1, Unseen DEF vars, coreVars
  <2>2. QED
    BY <2>1, FifoStep
<1>4. QED
  BY <1>1, <1>2, <1>3, Invariance, PTL DEF Spec, RefinesFifo, Fifo!Spec

=============================================================================
