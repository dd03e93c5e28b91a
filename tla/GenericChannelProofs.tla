------------------------ MODULE GenericChannelProofs ------------------------
(***************************************************************************)
(* The safety of the generic channel, for any number of senders and        *)
(* messages, every capacity and every set of faults, and its refinement of *)
(* FifoChannel.                                                            *)
(*                                                                         *)
(* MessagesOwnedOnce is not inductive: that a message is not queued twice  *)
(* needs the slots to hold different messages (Messages), and that a send  *)
(* never releases a message it does not have needs arg to be set exactly   *)
(* while its sender is blocked.  HandlesAccounted needs Beginning: while   *)
(* the constructor runs nobody else has a handle.                          *)
(***************************************************************************)
EXTENDS GenericChannel, RingProofs, Counting

(* Most leaves are first-order; those that are not name their prover.       *)
USE Zenon

Queued == {ring.slots[i] : i \in Occupied(ring)}

Sending == {arg[s] : s \in Sender} \ {NULL}

Blocked(s) == pc[s] \in {"waiting", "woken"}

(* Who has which message. *)
Messages ==
    /\ WellFormed(ring)
    /\ IsFiniteSet(Queued) /\ Cardinality(Queued) = ring.count
    /\ \A i, j \in Occupied(ring) : ring.slots[i] = ring.slots[j] => i = j
    /\ Queued \cap kept = {} /\ Queued \cap Sending = {} /\ kept \cap Sending = {}
    /\ \A s, t \in Sender : arg[s] = arg[t] => s = t \/ arg[s] = NULL
    /\ \A s \in Sender : arg[s] # NULL <=> Blocked(s)

(* Until the constructor has returned nobody else has a handle. *)
Beginning ==
    /\ core = "none" => \A t \in Endpoint : pc[t] = "absent"
    /\ \A s \in Sender : pc[s] = "constructing" =>
          \A t \in Endpoint : t # s => pc[t] = "absent"

IInv ==
    /\ TypeOK
    /\ Messages
    /\ Beginning
    /\ HandlesAccounted

LEMMA Names ==
    /\ Sender \subseteq Endpoint /\ Receiver \in Endpoint /\ Receiver \notin Sender
    /\ \A t \in Endpoint : t = Receiver \/ t \in Sender
    /\ NULL \notin Message
BY GenericAssumption DEF Endpoint

-----------------------------------------------------------------------------
(* Threads.                                                                 *)

(* t has got to where, and the others moved at most from waiting to woken. *)
Settled(t, where) ==
    /\ pc' \in [Endpoint -> Location]
    /\ pc'[t] = where
    /\ \A u \in Endpoint : u # t =>
          pc'[u] = pc[u] \/ (pc[u] = "waiting" /\ pc'[u] = "woken")

(* Waking waiters and moving one thread on settles that thread. *)
LEMMA MovedSettles ==
    ASSUME TypeOK, NEW t \in Endpoint, NEW where \in Location,
           NEW woken \in SUBSET Waiters(Endpoint), pc' = Moved(t, where, woken)
    PROVE  Settled(t, where)
BY DEF TypeOK, Settled, Moved, Waiters, Location

(* So does moving it without waking anybody. *)
LEMMA AloneSettles ==
    ASSUME TypeOK, NEW t \in Endpoint, NEW where \in Location, pc' = [pc EXCEPT ![t] = where]
    PROVE  Settled(t, where)
BY DEF TypeOK, Settled

(* signal and broadcast only wake waiters. *)
LEMMA WokenWait ==
    ASSUME NEW threads \in SUBSET Endpoint, NEW ok
    PROVE  /\ \A woken \in SignalWakes(threads, ok) : woken \in SUBSET Waiters(Endpoint)
           /\ BroadcastWakes(threads, ok) \in SUBSET Waiters(Endpoint)
BY DEF SignalWakes, BroadcastWakes, Waiters

Inside == {"idle", "waiting", "woken"}

(* A step of a call that t is in, or of its notifications. *)
Calls(t) ==
    /\ pc[t] \in Inside
    /\ \E where \in Inside : Settled(t, where)
    /\ UNCHANGED <<core, senders, refs>>

(* The outcomes of a call. *)
LEMMA Returned ==
    ASSUME TypeOK, NEW t \in Endpoint, NEW outcome \in Outcome \cup Message, Return(t, outcome)
    PROVE  result' \in [Endpoint -> Outcome \cup Message]
BY DEF TypeOK, Return

(* try_send and send. *)
LEMMA SendReturnCalls ==
    ASSUME TypeOK, NEW s \in Sender, NEW m, NEW b, NEW outcome \in Outcome,
           InSend(s, m, b), SendReturns(s, m, outcome)
    PROVE  /\ Settled(s, "idle") /\ Calls(s) /\ UNCHANGED <<receiverAlive, closed>>
           /\ result' \in [Endpoint -> Outcome \cup Message]
<1>1. s \in Endpoint /\ "idle" \in Location
  BY Names DEF Location
<1>2. Settled(s, "idle")
  BY <1>1, AloneSettles DEF SendReturns
<1>3. result' \in [Endpoint -> Outcome \cup Message]
  BY <1>1, Returned DEF SendReturns
<1>4. QED
  BY <1>2, <1>3 DEF Calls, Inside, InSend, SendReturns, coreVars

LEMMA SendWaitCalls ==
    ASSUME TypeOK, NEW s \in Sender, NEW m, SendWait(s, m)
    PROVE  Settled(s, "waiting") /\ Calls(s) /\ UNCHANGED <<receiverAlive, closed, result>>
<1>1. s \in Endpoint /\ "waiting" \in Location
  BY Names DEF Location
<1>2. Settled(s, "waiting")
  BY <1>1, AloneSettles DEF SendWait
<1>3. QED
  BY <1>2 DEF Calls, Inside, InSend, SendWait, coreVars

LEMMA EnqueueCalls ==
    ASSUME TypeOK, NEW s \in Sender, NEW m, NEW b, SendEnqueue(s, m, b)
    PROVE  /\ Settled(s, "idle") /\ Calls(s) /\ UNCHANGED <<receiverAlive, closed>>
           /\ result' \in [Endpoint -> Outcome \cup Message]
<1>1. s \in Endpoint /\ {Receiver} \in SUBSET Endpoint /\ "idle" \in Location
  BY Names DEF Location
<1>2. PICK ok \in Notified : \E woken \in SignalWakes({Receiver}, ok) :
         pc' = Moved(s, "idle", woken) /\ Return(s, IF ok THEN "Sent" ELSE "Failed")
  BY DEF SendEnqueue
<1>3. PICK woken \in SignalWakes({Receiver}, ok) : pc' = Moved(s, "idle", woken)
  BY <1>2
<1>4. Settled(s, "idle")
  BY <1>1, <1>3, WokenWait, MovedSettles
<1>5. result' \in [Endpoint -> Outcome \cup Message]
  <2>1. (IF ok THEN "Sent" ELSE "Failed") \in Outcome \cup Message
    BY DEF Outcome
  <2>2. QED
    BY <1>1, <1>2, <2>1, Returned
<1>6. QED
  BY <1>4, <1>5 DEF Calls, Inside, InSend, SendEnqueue

(* try_recv and recv. *)
LEMMA TakeCalls ==
    ASSUME TypeOK, Front(ring) \in Message, NEW b, ReceiveTake(b)
    PROVE  /\ Settled(Receiver, "idle") /\ Calls(Receiver) /\ UNCHANGED <<receiverAlive, closed>>
           /\ result' \in [Endpoint -> Outcome \cup Message]
<1>1. Receiver \in Endpoint /\ Sender \in SUBSET Endpoint /\ "idle" \in Location
  BY Names DEF Location
<1>2. PICK ok \in Notified : \E woken \in SignalWakes(Sender, ok) :
         /\ pc' = Moved(Receiver, "idle", woken)
         /\ Return(Receiver, IF ok THEN Front(ring) ELSE "Failed")
  BY DEF ReceiveTake
<1>3. PICK woken \in SignalWakes(Sender, ok) : pc' = Moved(Receiver, "idle", woken)
  BY <1>2
<1>4. Settled(Receiver, "idle")
  BY <1>1, <1>3, WokenWait, MovedSettles
<1>5. result' \in [Endpoint -> Outcome \cup Message]
  <2>1. (IF ok THEN Front(ring) ELSE "Failed") \in Outcome \cup Message
    BY DEF Outcome
  <2>2. QED
    BY <1>1, <1>2, <2>1, Returned
<1>6. QED
  BY <1>4, <1>5 DEF Calls, Inside, InReceive, ReceiveTake

(* Every step of a call that neither sends nor takes a message. *)
Quiet ==
    /\ UNCHANGED <<ring, kept, arg>>
    /\ \A s \in Sender : Blocked(s)' <=> Blocked(s)

LEMMA OtherCalls ==
    ASSUME TypeOK, NEW t \in Endpoint,
           \/ t = Receiver /\ (ReceiveFails \/ ReceiveWait \/ \E b \in BOOLEAN : ReceiveNothing(b))
           \/ SpuriousWake(t)
    PROVE  /\ Calls(t) /\ Quiet /\ UNCHANGED <<receiverAlive, closed>>
           /\ result' \in [Endpoint -> Outcome \cup Message]
<1>1. {"idle", "waiting", "woken"} \subseteq Location
  BY DEF Location
<1>2. /\ pc[t] \in Inside /\ UNCHANGED <<coreVars, kept, arg>>
      /\ \E where \in Inside : pc' = [pc EXCEPT ![t] = where]
      /\ t = Receiver \/ (pc[t] = "waiting" /\ pc' = [pc EXCEPT ![t] = "woken"])
      /\ \/ result' = result
         \/ \E outcome \in Outcome : t = Receiver /\ Return(Receiver, outcome)
  BY DEF ReceiveFails, ReceiveWait, ReceiveNothing, SpuriousWake, InReceive, Inside, Outcome
<1>3. PICK where \in Inside : pc' = [pc EXCEPT ![t] = where]
  BY <1>2
<1>4. Settled(t, where)
  BY <1>1, <1>3, AloneSettles DEF Inside
<1>5. result' \in [Endpoint -> Outcome \cup Message]
  BY <1>2, Returned DEF TypeOK
<1>6. \A s \in Sender : Blocked(s)' <=> Blocked(s)
  BY <1>2, <1>4, Names DEF Settled, Blocked, TypeOK
<1>7. QED
  BY <1>2, <1>4, <1>5, <1>6 DEF Calls, Quiet, coreVars

(* close. *)
LEMMA CloseCalls ==
    ASSUME TypeOK, NEW t \in Endpoint,
           (t = Receiver /\ ReceiverClose) \/ (t \in Sender /\ SenderClose(t))
    PROVE  /\ Calls(t) /\ Quiet /\ UNCHANGED result
           /\ closed' = TRUE /\ receiverAlive' \in BOOLEAN
<1>1. /\ Sender \in SUBSET Endpoint /\ {Receiver} \in SUBSET Endpoint
      /\ "idle" \in Location /\ "idle" \in Inside
  BY Names DEF Location, Inside
<1>2. /\ pc[t] = "idle" /\ UNCHANGED <<core, ring, senders, refs, kept, arg, result>>
      /\ Broadcast(t)
  BY Zenon DEF ReceiverClose, SenderClose
<1>3. closed' = TRUE /\ receiverAlive' \in BOOLEAN
  BY Zenon DEF ReceiverClose, SenderClose, TypeOK
<1>4. PICK okR \in Notified, okW \in Notified :
         pc' = Moved(t, "idle", BroadcastWakes({Receiver}, okR) \cup BroadcastWakes(Sender, okW))
  BY <1>2 DEF Broadcast
<1>5. BroadcastWakes({Receiver}, okR) \cup BroadcastWakes(Sender, okW) \in SUBSET Waiters(Endpoint)
  BY <1>1, WokenWait
<1>6. Settled(t, "idle")
  BY <1>1, <1>4, <1>5, MovedSettles
<1>7. \A s \in Sender : Blocked(s)' <=> Blocked(s)
  BY <1>1, <1>2, <1>6 DEF Settled, Blocked
<1>8. QED
  BY <1>1, <1>2, <1>3, <1>6, <1>7 DEF Calls, Quiet, Inside

(* The finalizers. *)
LEMMA FinalizeSettles ==
    ASSUME TypeOK, NEW t \in Endpoint,
           (t = Receiver /\ FinalizeReceiver) \/ (t \in Sender /\ FinalizeSender(t))
    PROVE  /\ Settled(t, "releasing") /\ Quiet /\ UNCHANGED <<core, refs, result>>
           /\ closed' \in BOOLEAN /\ receiverAlive' \in BOOLEAN
<1>1. closed' \in BOOLEAN /\ receiverAlive' \in BOOLEAN
  BY Zenon DEF FinalizeReceiver, FinalizeSender, TypeOK
<1>2. PICK woken \in SUBSET Waiters(Endpoint) : pc' = Moved(t, "releasing", woken)
  BY DEF FinalizeReceiver, FinalizeSender
<1>3. Settled(t, "releasing")
  BY <1>2, MovedSettles DEF Location
<1>4. \A s \in Sender : Blocked(s)' <=> Blocked(s)
  BY <1>3, Names DEF Settled, Blocked, FinalizeReceiver, FinalizeSender
<1>5. QED
  BY <1>1, <1>3, <1>4 DEF Quiet, FinalizeReceiver, FinalizeSender

-----------------------------------------------------------------------------
(* Handles.                                                                 *)

Held == {t \in Endpoint : pc[t] # "absent"}

HeldSenders == {s \in Sender : pc[s] \notin {"absent", "releasing"}}

(* The counts, in terms of the handles. *)
LEMMA HeldFacts ==
    ASSUME FiniteSetFacts
    PROVE  /\ IsFiniteSet(Endpoint) /\ IsFiniteSet(Held) /\ IsFiniteSet(HeldSenders)
           /\ IsFiniteSet(Held') /\ IsFiniteSet(HeldSenders')
           /\ HandlesAccounted <=> /\ refs = Cardinality(Held)
                                   /\ senders = Cardinality(HeldSenders)
                                   /\ core = "live" <=> refs > 0
           /\ HandlesAccounted' <=> /\ refs' = Cardinality(Held')
                                    /\ senders' = Cardinality(HeldSenders')
                                    /\ core' = "live" <=> refs' > 0
<1>1. IsFiniteSet(Endpoint)
  <2>1. IsFiniteSet({Receiver})
    BY DEF FiniteSetFacts
  <2>2. QED
    BY <2>1, GenericAssumption DEF FiniteSetFacts, Endpoint
<1>2. /\ Held \subseteq Endpoint /\ HeldSenders \subseteq Sender
      /\ Held' \subseteq Endpoint /\ HeldSenders' \subseteq Sender
  BY DEF Held, HeldSenders
<1>3. /\ IsFiniteSet(Held) /\ IsFiniteSet(HeldSenders)
      /\ IsFiniteSet(Held') /\ IsFiniteSet(HeldSenders')
  BY <1>1, <1>2, GenericAssumption DEF FiniteSetFacts
<1>4. QED
  BY <1>1, <1>3 DEF HandlesAccounted, Held, HeldSenders

(* A call keeps its thread's handle and changes nobody else's. *)
LEMMA CallsKeepHandles ==
    ASSUME FiniteSetFacts, IInv, NEW t \in Endpoint, Calls(t)
    PROVE  HandlesAccounted' /\ Beginning'
<1>1. PICK where \in Inside : Settled(t, where)
  BY DEF Calls
<1>2. Held' = Held /\ HeldSenders' = HeldSenders
  BY <1>1, Names DEF Held, HeldSenders, Calls, Settled, Inside
<1>3. UNCHANGED <<core, senders, refs>> /\ pc[t] \in Inside
  BY DEF Calls
<1>4. HandlesAccounted'
  BY <1>2, <1>3, HeldFacts DEF IInv
<1>5. core' # "none" /\ \A s \in Sender : pc[s] # "constructing"
  BY <1>3 DEF IInv, Beginning, Inside
<1>6. \A s \in Sender : pc'[s] # "constructing"
  BY <1>1, <1>5, Names DEF Settled, Inside
<1>7. QED
  BY <1>4, <1>5, <1>6 DEF Beginning

(* bounded: the handle of the sender first. *)
LEMMA NewKeepsHandles ==
    ASSUME FiniteSetFacts, IInv, NEW s \in Sender, ChannelNew(s)
    PROVE  HandlesAccounted' /\ Beginning'
<1>1. /\ core' = "live" /\ refs' = 1 /\ senders' = 1 /\ s \in Endpoint
      /\ pc' = [pc EXCEPT ![s] = "constructing"]
      /\ pc \in [Endpoint -> Location] /\ \A t \in Endpoint : pc[t] = "absent"
  BY Names DEF ChannelNew, IInv, TypeOK, Beginning
<1>2. pc'[s] = "constructing" /\ \A t \in Endpoint : t # s => pc'[t] = "absent"
  BY <1>1
<1>3. Held' = {s} /\ HeldSenders' = {s}
  BY <1>1, <1>2, Names DEF Held, HeldSenders
<1>4. Cardinality({s}) = 1
  BY DEF FiniteSetFacts
<1>5. HandlesAccounted'
  BY <1>1, <1>3, <1>4, HeldFacts, SMT
<1>6. QED
  BY <1>1, <1>2, <1>5, Names DEF Beginning

(* A handle comes: the receiver's at the end of bounded, or that of share. *)
LEMMA HandleComes ==
    ASSUME FiniteSetFacts, IInv, NEW t \in Endpoint, pc[t] = "absent",
           refs > 0, refs' = refs + 1, UNCHANGED core, Held' = Held \cup {t},
           t \in Sender => senders' = senders + 1 /\ HeldSenders' = HeldSenders \cup {t},
           t \notin Sender => senders' = senders /\ HeldSenders' = HeldSenders,
           \A s \in Sender : pc'[s] # "constructing"
    PROVE  HandlesAccounted' /\ Beginning'
<1>1. /\ refs = Cardinality(Held) /\ senders = Cardinality(HeldSenders) /\ core = "live"
      /\ refs \in Nat /\ senders \in Nat
  BY HeldFacts DEF IInv, TypeOK
<1>2. t \notin Held /\ t \notin HeldSenders
  BY DEF Held, HeldSenders
<1>3. Cardinality(Held \cup {t}) = refs + 1 /\ Cardinality(HeldSenders \cup {t}) = senders + 1
  BY <1>1, <1>2, HeldFacts DEF FiniteSetFacts
<1>4. refs' > 0
  BY <1>1, SMT
<1>5. HandlesAccounted'
  BY <1>1, <1>3, <1>4, HeldFacts
<1>6. QED
  BY <1>1, <1>5 DEF Beginning

LEMMA ComingKeepsHandles ==
    ASSUME FiniteSetFacts, IInv, NEW s \in Sender,
           ChannelReceiver(s) \/ \E u \in Sender : SenderShare(s, u)
    PROVE  HandlesAccounted' /\ Beginning'
<1>1. pc \in [Endpoint -> Location] /\ s \in Endpoint /\ Receiver \in Endpoint /\ refs \in Nat
  BY Names DEF IInv, TypeOK
<1>2. s \in Held /\ Held # {}
  BY <1>1 DEF Held, ChannelReceiver, SenderShare
<1>3. refs > 0
  <2>1. Cardinality(Held) # 0
    BY <1>2, HeldFacts DEF FiniteSetFacts
  <2>2. QED
    BY <1>1, <2>1, HeldFacts, SMT DEF IInv
<1>4. CASE ChannelReceiver(s)
  <2>1. /\ pc[s] = "constructing" /\ pc' = [pc EXCEPT ![s] = "idle", ![Receiver] = "idle"]
        /\ refs' = refs + 1 /\ UNCHANGED <<core, senders>>
    BY <1>4 DEF ChannelReceiver
  <2>2. \A t \in Endpoint : t # s => pc[t] = "absent"
    BY <2>1 DEF IInv, Beginning
  <2>3. /\ pc'[s] = "idle" /\ pc'[Receiver] = "idle"
        /\ \A t \in Endpoint : t # s /\ t # Receiver => pc'[t] = "absent"
    BY <1>1, <2>1, <2>2, Names
  <2>4. Held' = Held \cup {Receiver} /\ HeldSenders' = HeldSenders
    BY <1>1, <2>1, <2>2, <2>3, Names DEF Held, HeldSenders
  <2>5. pc[Receiver] = "absent" /\ Receiver \notin Sender /\ \A t \in Sender : pc'[t] # "constructing"
    BY <2>2, <2>3, Names
  <2>6. QED
    BY <1>1, <1>3, <2>1, <2>4, <2>5, HandleComes
<1>5. ASSUME NEW u \in Sender, SenderShare(s, u)
      PROVE  HandlesAccounted' /\ Beginning'
  <2>1. /\ pc[s] = "idle" /\ pc[u] = "absent" /\ pc' = [pc EXCEPT ![u] = "idle"] /\ u \in Endpoint
        /\ refs' = refs + 1 /\ senders' = senders + 1 /\ UNCHANGED core
    BY <1>5, Names DEF SenderShare
  <2>2. \A t \in Sender : pc'[t] # "constructing"
    BY <1>1, <2>1, Names DEF IInv, Beginning
  <2>3. Held' = Held \cup {u} /\ HeldSenders' = HeldSenders \cup {u}
    BY <1>1, <2>1, Names DEF Held, HeldSenders
  <2>4. QED
    BY <1>3, <2>1, <2>2, <2>3, HandleComes
<1>6. QED
  BY <1>4, <1>5

(* A finalizer gives up its role and keeps its reference. *)
LEMMA FinalizeKeepsHandles ==
    ASSUME FiniteSetFacts, IInv, NEW t \in Endpoint,
           (t = Receiver /\ FinalizeReceiver) \/ (t \in Sender /\ FinalizeSender(t))
    PROVE  HandlesAccounted' /\ Beginning' /\ senders' \in Nat
<1>1. /\ Settled(t, "releasing") /\ UNCHANGED <<core, refs>>
      /\ pc[t] \in {"idle", "constructing"}
      /\ t = Receiver => senders' = senders
      /\ t # Receiver => senders' = senders - 1 /\ t \in Sender
  BY FinalizeSettles, Names DEF IInv, FinalizeReceiver, FinalizeSender
<1>2. Held' = Held /\ t \in Held
  BY <1>1 DEF Settled, Held
<1>3. /\ t = Receiver => HeldSenders' = HeldSenders
      /\ t # Receiver => HeldSenders' = HeldSenders \ {t} /\ t \in HeldSenders
  BY <1>1, Names DEF Settled, HeldSenders
<1>4. senders = Cardinality(HeldSenders) /\ senders \in Nat
  BY HeldFacts DEF IInv, TypeOK
<1>5. senders' = Cardinality(HeldSenders') /\ senders' \in Nat
  <2>1. CASE t = Receiver
    BY <1>1, <1>3, <1>4, <2>1
  <2>2. CASE t # Receiver
    <3>1. senders # 0 /\ Cardinality(HeldSenders \ {t}) = senders - 1
      BY <1>3, <1>4, <2>2, HeldFacts DEF FiniteSetFacts
    <3>2. senders - 1 \in Nat
      BY <1>4, <3>1, SMT
    <3>3. senders' = senders - 1 /\ HeldSenders' = HeldSenders \ {t}
      BY <1>1, <1>3, <2>2
    <3>4. QED
      BY <3>1, <3>2, <3>3
  <2>3. QED
    BY <2>1, <2>2
<1>6. HandlesAccounted'
  BY <1>1, <1>2, <1>5, HeldFacts DEF IInv
<1>7. core' # "none"
  BY <1>1 DEF IInv, Beginning
<1>8. \A s \in Sender : pc'[s] = "constructing" => \A u \in Endpoint : u # s => pc'[u] = "absent"
  BY <1>1, Names DEF Settled, IInv, Beginning
<1>9. QED
  BY <1>5, <1>6, <1>7, <1>8 DEF Beginning

(* The last reference goes with the last handle. *)
LEMMA ReleaseKeepsHandles ==
    ASSUME FiniteSetFacts, IInv, NEW t \in Endpoint, CoreRelease(t)
    PROVE  HandlesAccounted' /\ Beginning' /\ refs' \in Nat
<1>1. /\ pc[t] = "releasing" /\ refs' = refs - 1 /\ senders' = senders
      /\ pc' = [pc EXCEPT ![t] = "absent"]
      /\ refs # 1 => core' = core
      /\ refs = 1 => core' = "freed"
      /\ pc \in [Endpoint -> Location] /\ refs \in Nat
  BY DEF CoreRelease, IInv, TypeOK
<1>2. pc'[t] = "absent" /\ \A u \in Endpoint : u # t => pc'[u] = pc[u]
  BY <1>1
<1>3. Held' = Held \ {t} /\ t \in Held /\ HeldSenders' = HeldSenders
  BY <1>1, <1>2, Names DEF Held, HeldSenders
<1>4. refs # 0 /\ Cardinality(Held \ {t}) = refs - 1
  BY <1>3, HeldFacts, ZenonT(30) DEF IInv, FiniteSetFacts
<1>5. core = "live" /\ refs > 0
  BY <1>1, <1>4, HeldFacts, SMT DEF IInv
<1>6. core' = "live" <=> refs' > 0
  BY <1>1, <1>5, SMT
<1>7. senders' = Cardinality(HeldSenders') /\ refs' = Cardinality(Held') /\ refs' \in Nat
  BY <1>1, <1>3, <1>4, HeldFacts, SMT DEF IInv
<1>8. HandlesAccounted'
  BY <1>6, <1>7, HeldFacts
<1>9. core' # "none"
  BY <1>1, <1>5
<1>10. \A s \in Sender : pc'[s] = "constructing" => \A u \in Endpoint : u # s => pc'[u] = "absent"
  BY <1>1, <1>2, Names DEF IInv, Beginning
<1>11. QED
  BY <1>7, <1>8, <1>9, <1>10 DEF Beginning

-----------------------------------------------------------------------------
(* Messages.                                                                *)

(* What Put and Take do to the occupied slots. *)
LEMMA PutOccupies ==
    ASSUME IInv, ring.count # Capacity, NEW m \in Message, ring' = Put(ring, m)
    PROVE  /\ ring' \in RingOf(Message) /\ WellFormed(ring)' /\ ring'.count = ring.count + 1
           /\ Occupied(ring') = Occupied(ring) \cup {ring.tail} /\ ring.tail \notin Occupied(ring)
           /\ ring'.slots[ring.tail] = m
           /\ \A i \in Occupied(ring) : ring'.slots[i] = ring.slots[i]
<1>1. ring \in RingOf(Message) /\ WellFormed(ring) /\ NULL \notin Message
  BY Names DEF IInv, TypeOK, Messages
<1>2. /\ ring' \in RingOf(Message) /\ WellFormed(ring') /\ ring'.count = ring.count + 1
      /\ ring.tail \in Index /\ ring.slots[ring.tail] = NULL
  BY <1>1, PutWellFormed, PutReads
<1>3. WellFormed(ring)'
  BY <1>2 DEF WellFormed, Slot
<1>4. ring'.slots = [ring.slots EXCEPT ![ring.tail] = m] /\ ring.slots \in [Index -> Message \cup {NULL}]
  BY <1>1 DEF Put, RingOf
<1>5. QED
  BY <1>1, <1>2, <1>3, <1>4, SMT DEF Occupied

LEMMA TakeFrees ==
    ASSUME IInv, ring.count > 0, ring' = Take(ring)
    PROVE  /\ ring' \in RingOf(Message) /\ WellFormed(ring)' /\ ring'.count = ring.count - 1
           /\ Occupied(ring') = Occupied(ring) \ {ring.head} /\ ring.head \in Occupied(ring)
           /\ Front(ring) = ring.slots[ring.head] /\ Front(ring) \in Message
           /\ \A i \in Occupied(ring') : ring'.slots[i] = ring.slots[i]
<1>1. ring \in RingOf(Message) /\ WellFormed(ring) /\ NULL \notin Message
  BY Names DEF IInv, TypeOK, Messages
<1>2. /\ ring' \in RingOf(Message) /\ WellFormed(ring') /\ ring'.count = ring.count - 1
      /\ Front(ring) \in Message /\ Front(ring) = ring.slots[ring.head]
  BY <1>1, TakeWellFormed, TakeReads DEF Front
<1>3. WellFormed(ring)'
  BY <1>2 DEF WellFormed, Slot
<1>4. /\ ring'.slots = [ring.slots EXCEPT ![ring.head] = NULL] /\ ring.head \in Index
      /\ ring.slots \in [Index -> Message \cup {NULL}]
  BY <1>1 DEF Take, RingOf
<1>5. QED
  BY <1>1, <1>2, <1>3, <1>4 DEF Occupied

(* A step that moves no message. *)
LEMMA QuietKeepsMessages ==
    ASSUME IInv, Quiet
    PROVE  Messages'
<1>1. Queued' = Queued /\ Sending' = Sending
  BY DEF Quiet, Queued, Sending, Occupied
<1>2. WellFormed(ring)' /\ Occupied(ring)' = Occupied(ring) /\ Messages
  BY DEF Quiet, WellFormed, Slot, Occupied, IInv, Messages
<1>3. QED
  BY <1>1, <1>2 DEF Messages, Quiet

(* The sender s of m has it, and nobody else does. *)
LEMMA SenderOwns ==
    ASSUME IInv, NEW s \in Sender, NEW m \in Message, NEW b, InSend(s, m, b)
    PROVE  /\ m \notin Queued
           /\ \A t \in Sender : t # s => arg[t] # m
           /\ arg[s] = m \/ (arg[s] = NULL /\ m \in kept)
<1>1. CASE pc[s] = "idle" /\ m \in kept
  <2>1. arg[s] = NULL /\ m \notin Queued /\ m \notin Sending
    BY <1>1 DEF IInv, Messages, Blocked
  <2>2. QED
    BY <1>1, <2>1, Names DEF Sending
<1>2. CASE pc[s] = "woken" /\ m = arg[s]
  <2>1. m \in Sending
    BY <1>2, Names DEF Sending
  <2>2. QED
    BY <1>2, <2>1, Names DEF IInv, Messages
<1>3. QED
  BY <1>1, <1>2 DEF InSend

(* It leaves the call: m is no longer being sent. *)
LEMMA SenderLeaves ==
    ASSUME IInv, NEW s \in Sender, NEW m \in Message, NEW b, InSend(s, m, b),
           arg' = [arg EXCEPT ![s] = NULL], Settled(s, "idle")
    PROVE  /\ Sending' \subseteq Sending /\ m \notin Sending'
           /\ \A t, u \in Sender : arg'[t] = arg'[u] => t = u \/ arg'[t] = NULL
           /\ \A t \in Sender : arg'[t] # NULL <=> Blocked(t)'
           /\ arg' \in [Sender -> Message \cup {NULL}]
<1>1. arg \in [Sender -> Message \cup {NULL}] /\ Messages
  BY DEF IInv, TypeOK
<1>2. arg'[s] = NULL /\ \A t \in Sender : t # s => arg'[t] = arg[t] /\ arg[t] # m
  BY <1>1, SenderOwns
<1>3. Sending' \subseteq Sending /\ m \notin Sending'
  BY <1>2, Names DEF Sending
<1>4. \A t \in Sender : arg'[t] # NULL <=> Blocked(t)'
  BY <1>1, <1>2, Names DEF Messages, Blocked, Settled
<1>5. \A t, u \in Sender : arg'[t] = arg'[u] => t = u \/ arg'[t] = NULL
  BY <1>1, <1>2 DEF Messages
<1>6. QED
  BY <1>1, <1>3, <1>4, <1>5

(* A send that ends without queueing: m goes back to the caller or away. *)
LEMMA SendReturnKeepsMessages ==
    ASSUME IInv, NEW s \in Sender, NEW m \in Message, NEW b, NEW outcome,
           InSend(s, m, b), SendReturns(s, m, outcome), Settled(s, "idle")
    PROVE  Messages' /\ kept' \subseteq Message /\ arg' \in [Sender -> Message \cup {NULL}]
<1>1. /\ kept' \subseteq kept \cup {m} /\ ring' = ring /\ arg' = [arg EXCEPT ![s] = NULL]
      /\ kept \subseteq Message /\ Messages
  BY DEF SendReturns, coreVars, IInv, TypeOK
<1>2. Queued' = Queued /\ WellFormed(ring)' /\ Occupied(ring)' = Occupied(ring)
  BY <1>1, SMT DEF Queued, Occupied, WellFormed, Slot, Messages
<1>3. /\ m \notin Queued
      /\ Sending' \subseteq Sending /\ m \notin Sending'
      /\ \A t, u \in Sender : arg'[t] = arg'[u] => t = u \/ arg'[t] = NULL
      /\ \A t \in Sender : arg'[t] # NULL <=> Blocked(t)'
      /\ arg' \in [Sender -> Message \cup {NULL}]
  BY <1>1, SenderOwns, SenderLeaves
<1>4. Queued' \cap kept' = {} /\ Queued' \cap Sending' = {} /\ kept' \cap Sending' = {}
  BY <1>1, <1>2, <1>3 DEF Messages
<1>5. QED
  BY <1>1, <1>2, <1>3, <1>4 DEF Messages

(* A send that blocks keeps m. *)
LEMMA SendWaitKeepsMessages ==
    ASSUME IInv, NEW s \in Sender, NEW m \in Message, SendWait(s, m), Settled(s, "waiting")
    PROVE  Messages' /\ kept' \subseteq Message /\ arg' \in [Sender -> Message \cup {NULL}]
<1>1. /\ kept' = kept \ {m} /\ ring' = ring /\ arg' = [arg EXCEPT ![s] = m]
      /\ InSend(s, m, TRUE) /\ kept \subseteq Message /\ Messages
      /\ arg \in [Sender -> Message \cup {NULL}]
  BY DEF SendWait, coreVars, IInv, TypeOK
<1>2. Queued' = Queued /\ WellFormed(ring)' /\ Occupied(ring)' = Occupied(ring)
  BY <1>1, SMT DEF Queued, Occupied, WellFormed, Slot, Messages
<1>3. m \notin Queued /\ \A t \in Sender : t # s => arg[t] # m
  BY <1>1, SenderOwns
<1>4. arg'[s] = m /\ m # NULL /\ \A t \in Sender : t # s => arg'[t] = arg[t]
  BY <1>1, Names
<1>5. Sending' \subseteq Sending \cup {m}
  BY <1>4 DEF Sending
<1>6. \A t \in Sender : arg'[t] # NULL <=> Blocked(t)'
  BY <1>1, <1>4, Names DEF Messages, Blocked, Settled
<1>7. \A t, u \in Sender : arg'[t] = arg'[u] => t = u \/ arg'[t] = NULL
  BY <1>1, <1>3, <1>4 DEF Messages
<1>8. Queued' \cap kept' = {} /\ Queued' \cap Sending' = {} /\ kept' \cap Sending' = {}
  BY <1>1, <1>2, <1>3, <1>5, SMT DEF Messages
<1>9. QED
  BY <1>1, <1>2, <1>6, <1>7, <1>8 DEF Messages

(* A send that queues m. *)
LEMMA EnqueueKeepsMessages ==
    ASSUME FiniteSetFacts, IInv, NEW s \in Sender, NEW m \in Message, NEW b, SendEnqueue(s, m, b),
           Settled(s, "idle")
    PROVE  /\ Messages' /\ kept' \subseteq Message /\ arg' \in [Sender -> Message \cup {NULL}]
           /\ ring' \in RingOf(Message)
<1>1. /\ kept' = kept \ {m} /\ ring' = Put(ring, m) /\ arg' = [arg EXCEPT ![s] = NULL]
      /\ InSend(s, m, b) /\ kept \subseteq Message /\ Messages /\ ring.count # Capacity
  BY DEF SendEnqueue, Full, IInv, TypeOK
<1>2. /\ ring' \in RingOf(Message) /\ WellFormed(ring)' /\ ring'.count = ring.count + 1
      /\ Occupied(ring') = Occupied(ring) \cup {ring.tail} /\ ring.tail \notin Occupied(ring)
      /\ ring'.slots[ring.tail] = m
      /\ \A i \in Occupied(ring) : ring'.slots[i] = ring.slots[i]
  BY <1>1, PutOccupies
<1>3. /\ m \notin Queued
      /\ Sending' \subseteq Sending /\ m \notin Sending'
      /\ \A t, u \in Sender : arg'[t] = arg'[u] => t = u \/ arg'[t] = NULL
      /\ \A t \in Sender : arg'[t] # NULL <=> Blocked(t)'
      /\ arg' \in [Sender -> Message \cup {NULL}]
  BY <1>1, SenderOwns, SenderLeaves
<1>4. Occupied(ring)' = Occupied(ring')
  BY DEF Occupied
<1>5. Queued' = Queued \cup {m}
  BY <1>2, <1>4, SMT DEF Queued
<1>6. \A i \in Occupied(ring) : ring.slots[i] # m
  BY <1>3 DEF Queued
<1>7. \A i, j \in Occupied(ring') : ring'.slots[i] = ring'.slots[j] => i = j
  BY <1>1, <1>2, <1>6, SMT DEF Messages
<1>8. IsFiniteSet(Queued') /\ Cardinality(Queued') = ring'.count
  <2>1. IsFiniteSet(Queued) /\ Cardinality(Queued) = ring.count /\ IsFiniteSet({m})
    BY <1>1 DEF Messages, FiniteSetFacts
  <2>2. IsFiniteSet(Queued \cup {m}) /\ Cardinality(Queued \cup {m}) = ring.count + 1
    BY <1>3, <2>1 DEF FiniteSetFacts
  <2>3. QED
    BY <1>2, <1>5, <2>2
<1>9. Queued' \cap kept' = {} /\ Queued' \cap Sending' = {} /\ kept' \cap Sending' = {}
  BY <1>1, <1>3, <1>5, SMT DEF Messages
<1>10. QED
  BY <1>1, <1>2, <1>3, <1>4, <1>7, <1>8, <1>9 DEF Messages

(* A receive that takes the oldest message. *)
LEMMA TakeKeepsMessages ==
    ASSUME FiniteSetFacts, IInv, NEW b, ReceiveTake(b), Settled(Receiver, "idle")
    PROVE  /\ Messages' /\ kept' \subseteq Message /\ arg' = arg
           /\ ring' \in RingOf(Message)
<1> DEFINE m == Front(ring)
<1>1. /\ kept' \subseteq kept \cup {m} /\ ring' = Take(ring) /\ arg' = arg
      /\ kept \subseteq Message /\ Messages /\ ring.count > 0
  BY DEF ReceiveTake, IInv, TypeOK
<1>2. /\ ring' \in RingOf(Message) /\ WellFormed(ring)' /\ ring'.count = ring.count - 1
      /\ Occupied(ring') = Occupied(ring) \ {ring.head} /\ ring.head \in Occupied(ring)
      /\ m = ring.slots[ring.head] /\ m \in Message
      /\ \A i \in Occupied(ring') : ring'.slots[i] = ring.slots[i]
  BY <1>1, TakeFrees
<1> HIDE DEF m
<1>3. Occupied(ring)' = Occupied(ring') /\ Sending' = Sending /\ m \in Queued
  BY <1>1, <1>2, SMT DEF Occupied, Sending, Queued
<1>4. \A i \in Occupied(ring) : ring.slots[i] = m <=> i = ring.head
  BY <1>1, <1>2 DEF Messages
<1>5. Queued' = Queued \ {m}
  BY <1>2, <1>3, <1>4, SMT DEF Queued
<1>6. \A i, j \in Occupied(ring') : ring'.slots[i] = ring'.slots[j] => i = j
  BY <1>1, <1>2 DEF Messages
<1>7. IsFiniteSet(Queued') /\ Cardinality(Queued') = ring'.count
  <2>1. IsFiniteSet(Queued) /\ Cardinality(Queued) = ring.count
    BY <1>1 DEF Messages
  <2>2. IsFiniteSet(Queued \ {m}) /\ Cardinality(Queued \ {m}) = ring.count - 1
    BY <1>3, <2>1, SMT DEF FiniteSetFacts
  <2>3. QED
    BY <1>2, <1>5, <2>2
<1>8. Queued' \cap kept' = {} /\ Queued' \cap Sending' = {} /\ kept' \cap Sending' = {}
  BY <1>1, <1>3, <1>5, SMT DEF Messages
<1>9. \A s \in Sender : Blocked(s)' <=> Blocked(s)
  BY Names DEF Settled, Blocked
<1>10. QED
  BY <1>1, <1>2, <1>3, <1>6, <1>7, <1>8, <1>9, SMT DEF Messages

(* The last core_release empties the queue. *)
LEMMA ReleaseKeepsMessages ==
    ASSUME FiniteSetFacts, IInv, NEW t \in Endpoint, CoreRelease(t)
    PROVE  Messages' /\ ring' \in RingOf(Message)
<1>1. /\ UNCHANGED <<kept, arg>> /\ Messages /\ ring \in RingOf(Message)
      /\ pc' = [pc EXCEPT ![t] = "absent"] /\ pc[t] = "releasing" /\ pc \in [Endpoint -> Location]
  BY DEF CoreRelease, IInv, TypeOK
<1>2. \A s \in Sender : Blocked(s)' <=> Blocked(s)
  BY <1>1, Names DEF Blocked
<1>3. CASE ring' = ring
  BY <1>1, <1>2, <1>3, QuietKeepsMessages DEF Quiet
<1>4. CASE ring' = EmptyRing
  <2>1. ring' \in RingOf(Message) /\ WellFormed(ring') /\ ring'.count = 0
    BY <1>4, EmptyWellFormed DEF EmptyRing
  <2>2. Occupied(ring)' = {} /\ Queued' = {} /\ WellFormed(ring)'
    BY <1>4, <2>1 DEF Occupied, Queued, EmptyRing, WellFormed, Slot
  <2>3. IsFiniteSet(Queued') /\ Cardinality(Queued') = ring'.count
    BY <2>1, <2>2 DEF FiniteSetFacts
  <2>4. Sending' = Sending
    BY <1>1 DEF Sending
  <2>5. QED
    BY <1>1, <1>2, <2>1, <2>2, <2>3, <2>4 DEF Messages
<1>5. QED
  BY <1>3, <1>4 DEF CoreRelease

-----------------------------------------------------------------------------
(* The invariant.                                                           *)

LEMMA InitIInv ==
    ASSUME FiniteSetFacts, Init
    PROVE  IInv
<1>1. ring \in RingOf(Message) /\ WellFormed(ring) /\ ring.count = 0 /\ Occupied(ring) = {}
  BY EmptyWellFormed DEF Init, EmptyRing, Occupied
<1>2. TypeOK
  BY <1>1 DEF Init, TypeOK, Location, Outcome
<1>3. Queued = {} /\ Sending = {}
  BY <1>1 DEF Queued, Sending, Init
<1>4. IsFiniteSet(Queued) /\ Cardinality(Queued) = ring.count
  BY <1>1, <1>3 DEF FiniteSetFacts
<1>5. \A s \in Sender : arg[s] = NULL /\ ~Blocked(s)
  BY Names DEF Init, Blocked
<1>6. Messages
  BY <1>1, <1>3, <1>4, <1>5 DEF Messages
<1>7. Held = {} /\ HeldSenders = {}
  BY Names DEF Init, Held, HeldSenders
<1>8. Cardinality(Held) = 0 /\ Cardinality(HeldSenders) = 0
  BY <1>7 DEF FiniteSetFacts
<1>9. HandlesAccounted
  BY <1>8, HeldFacts, SMT DEF Init
<1>10. Beginning
  BY Names DEF Init, Beginning
<1>11. QED
  BY <1>2, <1>6, <1>9, <1>10 DEF IInv

(* What the calls leave to be shown. *)
LEMMA CallIInv ==
    ASSUME FiniteSetFacts, IInv, NEW t \in Endpoint, Calls(t), Messages',
           ring' \in RingOf(Message), kept' \subseteq Message, arg' \in [Sender -> Message \cup {NULL}],
           closed' \in BOOLEAN, receiverAlive' \in BOOLEAN,
           result' \in [Endpoint -> Outcome \cup Message]
    PROVE  IInv'
<1>1. HandlesAccounted' /\ Beginning'
  BY CallsKeepHandles
<1>2. TypeOK'
  BY DEF IInv, TypeOK, Calls, Settled
<1>3. QED
  BY <1>1, <1>2 DEF IInv

(* try_send and send. *)
LEMMA SendIInv ==
    ASSUME FiniteSetFacts, IInv, NEW s \in Sender, NEW m \in Message,
           \/ SendWait(s, m) \/ SendLockFails(s, m) \/ SendWaitFails(s, m)
           \/ \E b \in BOOLEAN : SendRefused(s, m, b) \/ SendEnqueue(s, m, b)
    PROVE  IInv'
<1>1. /\ s \in Endpoint /\ TypeOK /\ ring \in RingOf(Message)
      /\ closed \in BOOLEAN /\ receiverAlive \in BOOLEAN
      /\ result \in [Endpoint -> Outcome \cup Message]
  BY Names DEF IInv, TypeOK
<1>2. CASE SendWait(s, m)
  <2>1. Settled(s, "waiting") /\ Calls(s) /\ UNCHANGED <<ring, receiverAlive, closed, result>>
    BY <1>1, <1>2, SendWaitCalls DEF SendWait, coreVars
  <2>2. QED
    BY <1>1, <1>2, <2>1, SendWaitKeepsMessages, CallIInv
<1>3. ASSUME NEW b \in BOOLEAN, SendEnqueue(s, m, b)
      PROVE  IInv'
  <2>1. /\ Settled(s, "idle") /\ Calls(s) /\ UNCHANGED <<receiverAlive, closed>>
        /\ result' \in [Endpoint -> Outcome \cup Message]
    BY <1>1, <1>3, EnqueueCalls
  <2>2. QED
    BY <1>1, <1>3, <2>1, EnqueueKeepsMessages, CallIInv
<1>4. ASSUME NEW b \in BOOLEAN, NEW outcome \in Outcome, InSend(s, m, b), SendReturns(s, m, outcome)
      PROVE  IInv'
  <2>1. /\ Settled(s, "idle") /\ Calls(s) /\ UNCHANGED <<ring, receiverAlive, closed>>
        /\ result' \in [Endpoint -> Outcome \cup Message]
    BY <1>1, <1>4, SendReturnCalls DEF SendReturns, coreVars
  <2>2. QED
    BY <1>1, <1>4, <2>1, SendReturnKeepsMessages, CallIInv
<1>5. CASE SendLockFails(s, m)
  BY <1>4, <1>5 DEF SendLockFails, InSend, Outcome
<1>6. CASE SendWaitFails(s, m)
  BY <1>4, <1>6 DEF SendWaitFails, Outcome
<1>7. ASSUME NEW b \in BOOLEAN, SendRefused(s, m, b)
      PROVE  IInv'
  BY <1>4, <1>7 DEF SendRefused, Outcome
<1>8. QED
  BY <1>2, <1>3, <1>5, <1>6, <1>7

(* try_recv and recv. *)
LEMMA TakeIInv ==
    ASSUME FiniteSetFacts, IInv, NEW b, ReceiveTake(b)
    PROVE  IInv'
<1>1. /\ TypeOK /\ Receiver \in Endpoint /\ closed \in BOOLEAN /\ receiverAlive \in BOOLEAN
      /\ arg \in [Sender -> Message \cup {NULL}]
  BY Names DEF IInv, TypeOK
<1>2. Front(ring) \in Message
  BY TakeFrees DEF ReceiveTake
<1>3. /\ Settled(Receiver, "idle") /\ Calls(Receiver) /\ UNCHANGED <<receiverAlive, closed>>
      /\ result' \in [Endpoint -> Outcome \cup Message]
  BY <1>1, <1>2, TakeCalls
<1>4. QED
  BY <1>1, <1>3, TakeKeepsMessages, CallIInv

(* The other calls, the wake-ups and close. *)
LEMMA QuietIInv ==
    ASSUME FiniteSetFacts, IInv, NEW t \in Endpoint,
           \/ t = Receiver /\ (ReceiveFails \/ ReceiveWait \/ \E b \in BOOLEAN : ReceiveNothing(b))
           \/ SpuriousWake(t)
           \/ t = Receiver /\ ReceiverClose
           \/ t \in Sender /\ SenderClose(t)
    PROVE  IInv'
<1>1. /\ TypeOK /\ ring \in RingOf(Message) /\ kept \subseteq Message
      /\ arg \in [Sender -> Message \cup {NULL}] /\ closed \in BOOLEAN /\ receiverAlive \in BOOLEAN
      /\ result \in [Endpoint -> Outcome \cup Message]
  BY DEF IInv, TypeOK
<1>2. /\ Calls(t) /\ Quiet /\ closed' \in BOOLEAN /\ receiverAlive' \in BOOLEAN
      /\ result' \in [Endpoint -> Outcome \cup Message]
  BY <1>1, OtherCalls, CloseCalls
<1>3. UNCHANGED <<ring, kept, arg>> /\ Messages'
  BY <1>2, QuietKeepsMessages DEF Quiet
<1>4. QED
  BY <1>1, <1>2, <1>3, CallIInv

(* bounded and share. *)
LEMMA ComingIInv ==
    ASSUME FiniteSetFacts, IInv, NEW s \in Sender,
           ChannelNew(s) \/ ChannelReceiver(s) \/ \E u \in Sender : SenderShare(s, u)
    PROVE  IInv'
<1>1. HandlesAccounted' /\ Beginning'
  BY NewKeepsHandles, ComingKeepsHandles
<1>2. TypeOK'
  <2>1. TypeOK /\ s \in Endpoint /\ Receiver \in Endpoint /\ Sender \subseteq Endpoint
    BY Names DEF IInv
  <2>2. CASE ChannelNew(s)
    BY <2>1, <2>2 DEF TypeOK, ChannelNew, Location
  <2>3. CASE ChannelReceiver(s)
    BY <2>1, <2>3, SMT DEF TypeOK, ChannelReceiver, Location
  <2>4. CASE \E u \in Sender : SenderShare(s, u)
    BY <2>1, <2>4, SMT DEF TypeOK, SenderShare, Location
  <2>5. QED
    BY <2>2, <2>3, <2>4
<1>3. \A t \in Sender : Blocked(t)' <=> Blocked(t)
  <2>1. pc \in [Endpoint -> Location] /\ s \in Endpoint
    BY Names DEF IInv, TypeOK
  <2>2. CASE ChannelNew(s)
    BY <2>1, <2>2, Names DEF IInv, Beginning, ChannelNew, Blocked
  <2>3. CASE ChannelReceiver(s)
    BY <2>1, <2>3, Names DEF ChannelReceiver, Blocked
  <2>4. CASE \E u \in Sender : SenderShare(s, u)
    BY <2>1, <2>4, Names DEF SenderShare, Blocked
  <2>5. QED
    BY <2>2, <2>3, <2>4
<1>4. Messages'
  BY <1>3, QuietKeepsMessages DEF Quiet, ChannelNew, ChannelReceiver, SenderShare
<1>5. QED
  BY <1>1, <1>2, <1>4 DEF IInv

(* The finalizers and core_release. *)
LEMMA GoingIInv ==
    ASSUME FiniteSetFacts, IInv, NEW t \in Endpoint,
           \/ t = Receiver /\ FinalizeReceiver
           \/ t \in Sender /\ FinalizeSender(t)
           \/ CoreRelease(t)
    PROVE  IInv'
<1>1. CASE CoreRelease(t)
  <2>1. HandlesAccounted' /\ Beginning' /\ refs' \in Nat /\ Messages' /\ ring' \in RingOf(Message)
    BY <1>1, ReleaseKeepsHandles, ReleaseKeepsMessages
  <2>2. TypeOK'
    BY <1>1, <2>1 DEF IInv, TypeOK, CoreRelease, Location
  <2>3. QED
    BY <2>1, <2>2 DEF IInv
<1>2. CASE (t = Receiver /\ FinalizeReceiver) \/ (t \in Sender /\ FinalizeSender(t))
  <2>1. HandlesAccounted' /\ Beginning' /\ senders' \in Nat
    BY <1>2, FinalizeKeepsHandles
  <2>2. /\ Settled(t, "releasing") /\ Quiet /\ UNCHANGED <<core, refs, result>>
        /\ closed' \in BOOLEAN /\ receiverAlive' \in BOOLEAN
    BY <1>2, FinalizeSettles DEF IInv
  <2>3. TypeOK'
    BY <2>1, <2>2 DEF IInv, TypeOK, Settled, Quiet
  <2>4. QED
    BY <2>1, <2>2, <2>3, QuietKeepsMessages DEF IInv
<1>3. QED
  BY <1>1, <1>2

LEMMA NextIInv ==
    ASSUME FiniteSetFacts, IInv, [Next]_vars
    PROVE  IInv'
<1>1. ASSUME NEW s \in Sender, SenderNext(s)
      PROVE  IInv'
  <2>1. s \in Endpoint
    BY Names
  <2>2. QED
    BY <1>1, <2>1, SendIInv, ComingIInv, QuietIInv, GoingIInv DEF SenderNext, Sends
<1>2. CASE ReceiverNext
  <2>1. Receiver \in Endpoint
    BY Names
  <2>2. QED
    BY <1>2, <2>1, TakeIInv, QuietIInv, GoingIInv DEF ReceiverNext, Receives
<1>3. ASSUME NEW t \in Endpoint, CoreRelease(t) \/ SpuriousWake(t)
      PROVE  IInv'
  BY <1>3, QuietIInv, GoingIInv
<1>4. CASE UNCHANGED vars
  <2>1. Quiet /\ UNCHANGED vars
    BY <1>4 DEF Quiet, vars, coreVars, Blocked
  <2>2. TypeOK' /\ Beginning' /\ HandlesAccounted'
    BY <2>1 DEF IInv, TypeOK, Beginning, HandlesAccounted, vars, coreVars
  <2>3. QED
    BY <2>1, <2>2, QuietKeepsMessages DEF IInv
<1>5. QED
  BY <1>1, <1>2, <1>3, <1>4 DEF Next, Finished

-----------------------------------------------------------------------------
(* The refinement of FifoChannel.                                           *)

(* Nobody is past the constructor, or every handle is on its way out. *)
NobodyInside == \A t \in Endpoint : pc[t] \in {"absent", "constructing", "releasing"}

(* What the mapping needs beyond IInv: a handle in use without a receiver   *)
(* means a closed channel, so the test of receiver_alive tells senders      *)
(* nothing that closed does not, and the queue that core_release frees is   *)
(* that of a closed channel.                                                *)
LifeCycle ==
    /\ receiverAlive \/ closed \/ NobodyInside
    /\ senders = 0 => closed \/ core = "none"

(* A step of a thread inside that neither closes nor counts handles. *)
LEMMA InsideLife ==
    ASSUME LifeCycle, NEW t \in Endpoint, Calls(t), UNCHANGED <<receiverAlive, closed>>
    PROVE  LifeCycle'
<1>1. ~NobodyInside /\ UNCHANGED <<core, senders>>
  BY DEF NobodyInside, Calls, Inside
<1>2. QED
  BY <1>1 DEF LifeCycle

(* A step that closes. *)
LEMMA ClosedLife ==
    ASSUME closed'
    PROVE  LifeCycle'
BY Zenon DEF LifeCycle

(* bounded and share. *)
LEMMA ComingLife ==
    ASSUME IInv, LifeCycle, NEW s \in Sender,
           ChannelNew(s) \/ ChannelReceiver(s) \/ \E u \in Sender : SenderShare(s, u)
    PROVE  LifeCycle'
<1>1. s \in Endpoint /\ pc \in [Endpoint -> Location] /\ senders \in Nat
  BY Names DEF IInv, TypeOK
<1>2. CASE ChannelNew(s)
  <2>1. pc' = [pc EXCEPT ![s] = "constructing"] /\ senders' = 1 /\ \A t \in Endpoint : pc[t] = "absent"
    BY <1>2 DEF ChannelNew, IInv, Beginning
  <2>2. NobodyInside' /\ senders' # 0
    BY <1>1, <2>1, SMT DEF NobodyInside
  <2>3. QED
    BY <2>2 DEF LifeCycle
<1>3. CASE ChannelReceiver(s)
  <2>1. receiverAlive' /\ UNCHANGED <<core, senders, closed>>
    BY <1>3 DEF ChannelReceiver
  <2>2. QED
    BY <2>1 DEF LifeCycle
<1>4. CASE \E u \in Sender : SenderShare(s, u)
  <2>1. pc[s] = "idle" /\ senders' = senders + 1 /\ UNCHANGED <<receiverAlive, closed>>
    BY <1>4 DEF SenderShare
  <2>2. ~NobodyInside /\ senders' # 0
    BY <1>1, <2>1, SMT DEF NobodyInside
  <2>3. QED
    BY <2>1, <2>2 DEF LifeCycle
<1>5. QED
  BY <1>2, <1>3, <1>4

(* The finalizers and core_release. *)
LEMMA GoingLife ==
    ASSUME IInv, LifeCycle, NEW t \in Endpoint,
           \/ t = Receiver /\ FinalizeReceiver
           \/ t \in Sender /\ FinalizeSender(t)
           \/ CoreRelease(t)
    PROVE  LifeCycle'
<1>1. /\ TypeOK /\ pc \in [Endpoint -> Location] /\ senders \in Nat
      /\ closed \in BOOLEAN /\ receiverAlive \in BOOLEAN
  BY DEF IInv, TypeOK
<1>2. CASE CoreRelease(t)
  <2>1. /\ pc' = [pc EXCEPT ![t] = "absent"] /\ core' \in {core, "freed"} /\ pc[t] = "releasing"
        /\ UNCHANGED <<senders, receiverAlive, closed>>
    BY <1>2 DEF CoreRelease
  <2>2. NobodyInside => NobodyInside'
    BY <1>1, <2>1 DEF NobodyInside
  <2>3. core # "none"
    BY <2>1 DEF IInv, Beginning
  <2>4. QED
    BY <2>1, <2>2, <2>3 DEF LifeCycle
<1>3. CASE t = Receiver /\ FinalizeReceiver
  <2>1. ~NobodyInside
    BY <1>3 DEF FinalizeReceiver, NobodyInside
  <2>2. closed' = (closed \/ receiverAlive)
    BY <1>3 DEF FinalizeReceiver
  <2>3. closed'
    BY <2>1, <2>2 DEF LifeCycle
  <2>4. QED
    BY <2>3, ClosedLife
<1>4. CASE t \in Sender /\ FinalizeSender(t)
  <2>1. senders' = senders - 1 /\ UNCHANGED <<core, receiverAlive>> /\ Settled(t, "releasing")
    BY <1>1, <1>4, FinalizeSettles DEF FinalizeSender
  <2>2. closed' = (closed \/ senders = 1)
    BY <1>4 DEF FinalizeSender
  <2>3. CASE senders = 1
    <3>1. closed'
      BY <2>2, <2>3
    <3>2. QED
      BY <3>1, ClosedLife
  <2>4. CASE senders # 1
    <3>1. closed' = closed
      BY <1>1, <2>2, <2>4
    <3>2. senders' # 0
      BY <1>1, <2>1, <2>4, SMT
    <3>3. NobodyInside => NobodyInside'
      BY <2>1 DEF NobodyInside, Settled
    <3>4. QED
      BY <2>1, <3>1, <3>2, <3>3 DEF LifeCycle
  <2>5. QED
    BY <2>3, <2>4
<1>5. QED
  BY <1>2, <1>3, <1>4

(* The calls. *)
LEMMA CallLife ==
    ASSUME IInv, LifeCycle,
           \/ \E s \in Sender, m \in Message :
                 \/ SendWait(s, m) \/ SendLockFails(s, m) \/ SendWaitFails(s, m)
                 \/ \E b \in BOOLEAN : SendRefused(s, m, b) \/ SendEnqueue(s, m, b)
           \/ Receives \/ ReceiveFails
           \/ \E t \in Endpoint : SpuriousWake(t)
    PROVE  LifeCycle'
<1>1. TypeOK /\ Sender \subseteq Endpoint /\ Receiver \in Endpoint
  BY Names DEF IInv
<1>2. ASSUME NEW s \in Sender, NEW m \in Message, NEW b \in BOOLEAN, NEW outcome \in Outcome,
             InSend(s, m, b), SendReturns(s, m, outcome)
      PROVE  LifeCycle'
  BY <1>1, <1>2, SendReturnCalls, InsideLife
<1>3. ASSUME NEW s \in Sender, NEW m \in Message,
             \/ SendWait(s, m) \/ SendLockFails(s, m) \/ SendWaitFails(s, m)
             \/ \E b \in BOOLEAN : SendRefused(s, m, b) \/ SendEnqueue(s, m, b)
      PROVE  LifeCycle'
  <2>1. CASE SendWait(s, m)
    BY <1>1, <2>1, SendWaitCalls, InsideLife
  <2>2. CASE \E b \in BOOLEAN : SendEnqueue(s, m, b)
    BY <1>1, <2>2, EnqueueCalls, InsideLife
  <2>3. CASE SendLockFails(s, m)
    BY <1>2, <2>3 DEF SendLockFails, InSend, Outcome
  <2>4. CASE SendWaitFails(s, m)
    BY <1>2, <2>4 DEF SendWaitFails, Outcome
  <2>5. CASE \E b \in BOOLEAN : SendRefused(s, m, b)
    BY <1>2, <2>5 DEF SendRefused, Outcome
  <2>6. QED
    BY <1>3, <2>1, <2>2, <2>3, <2>4, <2>5
<1>4. ASSUME NEW b \in BOOLEAN, ReceiveTake(b) PROVE LifeCycle'
  <2>1. Front(ring) \in Message
    BY <1>4, TakeFrees DEF ReceiveTake
  <2>2. QED
    BY <1>1, <1>4, <2>1, TakeCalls, InsideLife
<1>5. ASSUME ReceiveFails \/ ReceiveWait \/ \E b \in BOOLEAN : ReceiveNothing(b) PROVE LifeCycle'
  BY <1>1, <1>5, OtherCalls, InsideLife
<1>6. ASSUME NEW t \in Endpoint, SpuriousWake(t) PROVE LifeCycle'
  BY <1>1, <1>6, OtherCalls, InsideLife
<1>7. QED
  BY <1>3, <1>4, <1>5, <1>6 DEF Receives

(* Every step keeps LifeCycle. *)
LEMMA LifeCycleStep ==
    ASSUME IInv, LifeCycle, [Next]_vars
    PROVE  LifeCycle'
<1>1. Sender \subseteq Endpoint /\ Receiver \in Endpoint
  BY Names
<1>2. ASSUME ReceiverClose \/ \E s \in Sender : SenderClose(s) PROVE LifeCycle'
  BY <1>2, ClosedLife DEF ReceiverClose, SenderClose
<1>3. CASE UNCHANGED vars
  BY <1>3 DEF vars, coreVars, LifeCycle, NobodyInside
<1>4. ASSUME NEW s \in Sender, SenderNext(s) PROVE LifeCycle'
  BY <1>1, <1>2, <1>4, ComingLife, CallLife, GoingLife DEF SenderNext, Sends
<1>5. CASE ReceiverNext
  BY <1>1, <1>2, <1>5, CallLife, GoingLife DEF ReceiverNext
<1>6. QED
  BY <1>3, <1>4, <1>5, CallLife, GoingLife DEF Next, Finished

(* The queue the users see, as a sequence. *)
LEMMA QueueSeen ==
    ASSUME IInv
    PROVE  /\ Len(Contents(ring)) = ring.count
           /\ Contents(ring) = <<>> <=> ring.count = 0
           /\ ring.count \in 0 .. Capacity /\ Capacity \in Nat
<1>1. ring \in RingOf(Message) /\ WellFormed(ring)
  BY DEF IInv, TypeOK, Messages
<1>2. QED
  BY <1>1, ContentsSequence, QueuedItems, CapacityAssumption

(* A step that leaves ring, closed and the results alone is not seen by the *)
(* users.                                                                   *)
LEMMA Unseen ==
    ASSUME UNCHANGED <<ring, closed, result>>
    PROVE  UNCHANGED Fifo!vars
BY DEF Fifo!vars, Contents, Slot

(* Every send that queues nothing reports something that is true of the     *)
(* queue at that moment.                                                    *)
LEMMA SendRefuses ==
    ASSUME IInv, LifeCycle, NEW s \in Sender, NEW m \in Message,
           \/ SendLockFails(s, m) \/ SendWaitFails(s, m)
           \/ \E b \in BOOLEAN : SendRefused(s, m, b)
    PROVE  Fifo!Next
<1>1. SUFFICES Fifo!Refuse(s, m)
  BY DEF Fifo!Next
<1>2. ASSUME NEW outcome, SendReturns(s, m, outcome)
      PROVE  Fifo!Return(s, outcome) /\ UNCHANGED <<Contents(ring), 0, closed>>
  BY <1>2 DEF SendReturns, Return, Fifo!Return, coreVars, Contents, Slot
<1>3. CASE SendLockFails(s, m) \/ SendWaitFails(s, m)
  BY <1>2, <1>3 DEF SendLockFails, SendWaitFails, Fifo!Refuse
<1>4. ASSUME NEW b \in BOOLEAN, SendRefused(s, m, b) PROVE Fifo!Refuse(s, m)
  <2>1. ~NobodyInside
    BY <1>4, Names DEF SendRefused, InSend, NobodyInside
  <2>2. ~Open <=> closed
    BY <2>1 DEF Open, LifeCycle
  <2>3. CASE ~Open /\ SendReturns(s, m, "Closed")
    BY <1>2, <2>2, <2>3 DEF Fifo!Refuse
  <2>4. CASE Open /\ Full /\ SendReturns(s, m, "Full")
    BY <1>2, <2>2, <2>4, QueueSeen DEF Full, Fifo!Refuse
  <2>5. QED
    BY <1>4, <2>3, <2>4 DEF SendRefused
<1>5. QED
  BY <1>3, <1>4

(* Queueing is the instant at which a send takes effect. *)
LEMMA EnqueueSends ==
    ASSUME IInv, NEW s \in Sender, NEW m \in Message, NEW b, SendEnqueue(s, m, b)
    PROVE  Fifo!Next
<1>1. /\ ring \in RingOf(Message) /\ WellFormed(ring) /\ NULL \notin Message
      /\ ring.count # Capacity /\ ring' = Put(ring, m)
  BY Names DEF IInv, TypeOK, Messages, SendEnqueue, Full
<1>2. Contents(ring') = Append(Contents(ring), m)
  BY <1>1, PutAppends
<1>3. Contents(ring)' = Contents(ring')
  BY DEF Contents, Slot
<1>4. ~closed /\ closed' = closed
  BY DEF SendEnqueue, Open
<1>5. [k \in Message |-> 0][m] = 0 /\ Len(Contents(ring)) < Capacity
  BY <1>1, QueueSeen, SMT
<1>6. Fifo!Room(m)
  BY <1>5, SMT DEF Fifo!Room
<1>7. Fifo!Return(s, "Sent") \/ Fifo!Return(s, "Failed")
  <2>1. PICK ok \in Notified : Return(s, IF ok THEN "Sent" ELSE "Failed")
    BY Zenon DEF SendEnqueue
  <2>2. CASE ok
    BY <2>1, <2>2 DEF Return, Fifo!Return
  <2>3. CASE ~ok
    BY <2>1, <2>3 DEF Return, Fifo!Return
  <2>4. QED
    BY <2>2, <2>3
<1>8. Fifo!Send(s, m)
  BY <1>2, <1>3, <1>4, <1>5, <1>6, <1>7, SMT DEF Fifo!Send
<1>9. QED
  BY <1>8 DEF Fifo!Next

(* What a receive takes is the oldest message. *)
LEMMA TakeReceives ==
    ASSUME IInv, NEW b, ReceiveTake(b)
    PROVE  Fifo!Next
<1>1. /\ ring \in RingOf(Message) /\ WellFormed(ring) /\ NULL \notin Message
      /\ ring.count > 0 /\ ring' = Take(ring) /\ closed' = closed
  BY Names DEF IInv, TypeOK, Messages, ReceiveTake
<1>2. /\ Contents(ring) # <<>> /\ Front(ring) = Head(Contents(ring))
      /\ Contents(ring') = Tail(Contents(ring)) /\ Front(ring) \in Message
  BY <1>1, TakeRemovesHead, TakeFrees
<1>3. Fifo!Return(Receiver, Front(ring)) \/ Fifo!Return(Receiver, "Failed")
  <2>1. PICK ok \in Notified : Return(Receiver, IF ok THEN Front(ring) ELSE "Failed")
    BY Zenon DEF ReceiveTake
  <2>2. CASE ok
    BY <2>1, <2>2 DEF Return, Fifo!Return
  <2>3. CASE ~ok
    BY <2>1, <2>3 DEF Return, Fifo!Return
  <2>4. QED
    BY <2>2, <2>3
<1>4. Contents(ring)' = Contents(ring')
  BY DEF Contents, Slot
<1>5. 0 - [m \in Message |-> 0][Head(Contents(ring))] = 0
  BY <1>2, SMT
<1>6. Fifo!Receive
  BY <1>1, <1>2, <1>3, <1>4, <1>5 DEF Fifo!Receive
<1>7. QED
  BY <1>6 DEF Fifo!Next

(* A receive reports that there is no message only when there is none. *)
LEMMA NothingReceives ==
    ASSUME IInv, ReceiveFails \/ \E b \in BOOLEAN : ReceiveNothing(b)
    PROVE  Fifo!Next
<1>1. UNCHANGED <<Contents(ring), 0, closed>>
  BY DEF ReceiveFails, ReceiveNothing, coreVars, Contents, Slot
<1>2. CASE ReceiveFails
  BY <1>1, <1>2 DEF ReceiveFails, Return, Fifo!ReceiveNothing, Fifo!Return, Fifo!Next
<1>3. CASE \E b \in BOOLEAN : ReceiveNothing(b)
  <2>1. ring.count = 0 /\ Return(Receiver, IF closed THEN "Closed" ELSE "Empty")
    BY <1>3 DEF ReceiveNothing
  <2>2. Contents(ring) = <<>>
    BY <2>1, QueueSeen
  <2>3. Fifo!ReceiveNothing
    <3>1. CASE closed
      BY <1>1, <2>1, <2>2, <3>1 DEF Fifo!ReceiveNothing, Fifo!Return, Return
    <3>2. CASE ~closed
      BY <1>1, <2>1, <2>2, <3>2 DEF Fifo!ReceiveNothing, Fifo!Return, Return
    <3>3. QED
      BY <3>1, <3>2
  <2>4. QED
    BY <2>3 DEF Fifo!Next
<1>4. QED
  BY <1>2, <1>3

(* A step that leaves the queue alone and sets closed, or not, is Close or  *)
(* is not seen.                                                             *)
LEMMA Closing ==
    ASSUME IInv,
           \/ ReceiverClose \/ FinalizeReceiver
           \/ \E s \in Sender : SenderClose(s) \/ FinalizeSender(s)
    PROVE  Fifo!Next \/ UNCHANGED Fifo!vars
<1>1. UNCHANGED <<ring, result>> /\ closed \in BOOLEAN
  BY DEF ReceiverClose, FinalizeReceiver, SenderClose, FinalizeSender, IInv, TypeOK
<1>2. closed' = TRUE \/ closed' = closed
  <2>1. closed' \in BOOLEAN /\ (closed => closed')
    BY <1>1 DEF ReceiverClose, FinalizeReceiver, SenderClose, FinalizeSender
  <2>2. QED
    BY <1>1, <2>1
<1>3. UNCHANGED Contents(ring)
  BY <1>1 DEF Contents, Slot
<1>4. CASE closed' = TRUE
  BY <1>1, <1>3, <1>4 DEF Fifo!Next, Fifo!Close
<1>5. CASE closed' = closed
  BY <1>1, <1>5, Unseen
<1>6. QED
  BY <1>2, <1>4, <1>5

(* The last core_release discards the queue of a closed channel. *)
LEMMA ReleaseDiscards ==
    ASSUME FiniteSetFacts, IInv, LifeCycle, NEW t \in Endpoint, CoreRelease(t)
    PROVE  Fifo!Next \/ UNCHANGED Fifo!vars
<1>1. pc[t] = "releasing" /\ UNCHANGED <<closed, result>>
  BY DEF CoreRelease
<1>2. CASE refs # 1
  BY <1>1, <1>2, Unseen DEF CoreRelease
<1>3. CASE refs = 1
  <2>1. t \in Held /\ IsFiniteSet(Held) /\ Cardinality(Held) = 1 /\ core # "none"
    BY <1>1, <1>3, HeldFacts DEF Held, IInv, Beginning
  <2>2. IsFiniteSet(Held \ {t}) /\ Cardinality(Held \ {t}) = 0
    BY <2>1, SMT DEF FiniteSetFacts
  <2>3. Held \ {t} = {}
    BY <2>2 DEF FiniteSetFacts
  <2>4. HeldSenders = {}
    BY <1>1, <2>3, Names DEF Held, HeldSenders
  <2>5. senders = 0
    <3>1. senders = Cardinality(HeldSenders)
      BY HeldFacts DEF IInv
    <3>2. QED
      BY <2>4, <3>1 DEF FiniteSetFacts
  <2>6. closed
    BY <2>1, <2>5 DEF LifeCycle
  <2>7. Contents(ring)' = Contents(ring') /\ ring' = EmptyRing
    BY <1>3 DEF CoreRelease, Contents, Slot
  <2>8. Contents(ring)' = <<>>
    BY <2>7, EmptyContents
  <2>9. Fifo!Discard
    BY <1>1, <2>6, <2>8 DEF Fifo!Discard
  <2>10. QED
    BY <2>9 DEF Fifo!Next
<1>4. QED
  BY <1>2, <1>3

(* Every step of the channel is a step of FifoChannel or is not seen. *)
LEMMA FifoStep ==
    ASSUME FiniteSetFacts, IInv, LifeCycle, [Next]_vars
    PROVE  [Fifo!Next]_Fifo!vars
<1>1. ASSUME NEW s \in Sender,
             \/ ChannelNew(s) \/ ChannelReceiver(s) \/ \E t \in Sender : SenderShare(s, t)
             \/ \E m \in Message : SendWait(s, m)
      PROVE  UNCHANGED Fifo!vars
  BY <1>1, Unseen DEF ChannelNew, ChannelReceiver, SenderShare, SendWait, coreVars
<1>2. ASSUME ReceiveWait \/ (\E t \in Endpoint : SpuriousWake(t)) \/ UNCHANGED vars
      PROVE  UNCHANGED Fifo!vars
  BY <1>2, Unseen DEF ReceiveWait, SpuriousWake, vars, coreVars
<1>3. ASSUME NEW s \in Sender, SenderNext(s) PROVE [Fifo!Next]_Fifo!vars
  BY <1>1, <1>3, SendRefuses, EnqueueSends, Closing DEF SenderNext, Sends
<1>4. CASE ReceiverNext
  BY <1>2, <1>4, TakeReceives, NothingReceives, Closing DEF ReceiverNext, Receives
<1>5. QED
  BY <1>2, <1>3, <1>4, ReleaseDiscards DEF Next, Finished

-----------------------------------------------------------------------------
(* The theorems.                                                            *)

INSTANCE FiniteSetTheorems

LEMMA FiniteSetFactsHold == FiniteSetFacts
<1>1. /\ IsFiniteSet({}) /\ Cardinality({}) = 0
      /\ \A x : IsFiniteSet({x}) /\ Cardinality({x}) = 1
  BY FS_EmptySet, FS_Singleton
<1>2. ASSUME NEW S, IsFiniteSet(S)
      PROVE  Cardinality(S) \in Nat /\ (S # {} => Cardinality(S) # 0)
  BY <1>2, FS_CardinalityType, FS_EmptySet
<1>3. ASSUME NEW S, NEW R, IsFiniteSet(S), R \subseteq S
      PROVE  IsFiniteSet(R)
  BY <1>3, FS_Subset
<1>4. ASSUME NEW S, NEW R, IsFiniteSet(S), IsFiniteSet(R)
      PROVE  IsFiniteSet(S \cup R)
  BY <1>4, FS_Union
<1>5. ASSUME NEW S, NEW x, IsFiniteSet(S)
      PROVE  /\ x \notin S => Cardinality(S \cup {x}) = Cardinality(S) + 1
             /\ x \in S => Cardinality(S \ {x}) = Cardinality(S) - 1
  BY <1>5, FS_AddElement, FS_RemoveElement
<1>6. QED
  BY <1>1, <1>2, <1>3, <1>4, <1>5 DEF FiniteSetFacts

(* IInv holds in every reachable state. *)
THEOREM Invariance == Spec => []IInv
<1>1. Init => IInv
  BY InitIInv, FiniteSetFactsHold
<1>2. IInv /\ [Next]_vars => IInv'
  BY NextIInv, FiniteSetFactsHold
<1>3. QED
  BY <1>1, <1>2, PTL DEF Spec

(* try_send, send, try_recv, recv and core_release: a message always has    *)
(* one owner, whatever fails.                                               *)
THEOREM MessagesCorrect == Spec => []MessagesOwnedOnce
<1>1. IInv => MessagesOwnedOnce
  BY DEF IInv, Messages, MessagesOwnedOnce, Queued, Sending
<1>2. QED
  BY Invariance, <1>1, PTL

(* bounded, share, the finalizers and core_release: the counts are those of *)
(* the handles, so the core is freed with the last handle.                  *)
THEOREM HandlesCorrect == Spec => []HandlesAccounted
<1>1. IInv => HandlesAccounted
  BY DEF IInv
<1>2. QED
  BY Invariance, <1>1, PTL

(* The generic channel is a linearizable bounded FIFO, for any number of    *)
(* senders, any messages, every capacity and any set of faults.             *)
THEOREM FifoCorrect == Spec => RefinesFifo
<1>1. Init => LifeCycle /\ Fifo!Init
  <2>1. Init => LifeCycle
    BY DEF Init, LifeCycle, NobodyInside
  <2>2. Init => Fifo!Init
    BY EmptyContents DEF Init, Endpoint, Fifo!Init
  <2>3. QED
    BY <2>1, <2>2
<1>2. IInv /\ LifeCycle /\ [Next]_vars => LifeCycle'
  BY LifeCycleStep
<1>3. IInv /\ LifeCycle /\ [Next]_vars => [Fifo!Next]_Fifo!vars
  BY FifoStep, FiniteSetFactsHold
<1>4. QED
  BY <1>1, <1>2, <1>3, Invariance, PTL DEF Spec, RefinesFifo, Fifo!Spec

=============================================================================
