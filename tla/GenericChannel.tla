--------------------------- MODULE GenericChannel ---------------------------
(***************************************************************************)
(* The bounded MPSC channel of src/unsafe/channel.  It differs from the    *)
(* OwnedBytes channel in what it stores: the pointer that the caller gave  *)
(* away, which it must hand on, hand back or release exactly once.         *)
(*                                                                         *)
(* An action is one critical section; a call starts with its first one.    *)
(***************************************************************************)
EXTENDS Ring

CONSTANTS
    Sender,     \* places a sender handle can live in, one thread each
    Receiver,   \* the thread that owns the receiver handle
    Message,    \* boxed values; box_value gives each send its own
    Fault       \* which system calls may fail or misbehave

ASSUME GenericAssumption ==
    /\ IsFiniteSet(Sender)
    /\ Receiver \notin Sender
    /\ NULL \notin Message
    /\ Fault \subseteq {"lock", "wait", "signal", "spurious"}

VARIABLES
    core,           \* "none" before construction, "live", "freed"
    ring,           \* slots, head, tail and count
    senders,        \* number of sender handles
    receiverAlive,
    closed,
    refs,           \* reference count of the core
    kept,           \* messages in the hands of the callers
    pc,             \* where each thread is
    arg,            \* the message of a sender that is blocked in send
    result          \* what each thread's last operation returned

coreVars == <<core, ring, senders, receiverAlive, closed, refs>>
vars == <<coreVars, kept, pc, arg, result>>

Endpoint == Sender \cup {Receiver}

Outcome == {"None", "Sent", "Full", "Empty", "Closed", "Failed"}

Location == {"absent", "constructing", "idle", "waiting", "woken", "releasing"}

TypeOK ==
    /\ core \in {"none", "live", "freed"}
    /\ ring \in RingOf(Message)
    /\ senders \in Nat
    /\ receiverAlive \in BOOLEAN
    /\ closed \in BOOLEAN
    /\ refs \in Nat
    /\ kept \subseteq Message
    /\ pc \in [Endpoint -> Location]
    /\ arg \in [Sender -> Message \cup {NULL}]
    /\ result \in [Endpoint -> Outcome \cup Message]

Init ==
    /\ core = "none"
    /\ ring = EmptyRing
    /\ senders = 0
    /\ receiverAlive = FALSE
    /\ closed = FALSE
    /\ refs = 0
    /\ kept = Message
    /\ pc = [t \in Endpoint |-> "absent"]
    /\ arg = [s \in Sender |-> NULL]
    /\ result = [t \in Endpoint |-> "None"]

-----------------------------------------------------------------------------
(* Condition variables: only the receiver waits on readable and only the    *)
(* senders on writable.                                                     *)

Waiters(threads) == {t \in threads : pc[t] = "waiting"}

Notified == IF "signal" \in Fault THEN BOOLEAN ELSE {TRUE}

SignalWakes(threads, ok) ==
    IF ok /\ Waiters(threads) # {} THEN {{t} : t \in Waiters(threads)} ELSE {{}}

BroadcastWakes(threads, ok) == IF ok THEN Waiters(threads) ELSE {}

Moved(t, where, woken) ==
    [u \in Endpoint |->
        IF u = t THEN where ELSE IF u \in woken THEN "woken" ELSE pc[u]]

Return(t, outcome) == result' = [result EXCEPT ![t] = outcome]

SpuriousWake(t) ==
    /\ "spurious" \in Fault
    /\ pc[t] = "waiting"
    /\ pc' = [pc EXCEPT ![t] = "woken"]
    /\ UNCHANGED <<coreVars, kept, arg, result>>

-----------------------------------------------------------------------------
(* bounded and share.  A constructor that fails before the core exists      *)
(* leaves no state.                                                         *)

ChannelNew(s) ==
    /\ core = "none"
    /\ core' = "live"
    /\ refs' = 1
    /\ senders' = 1
    /\ pc' = [pc EXCEPT ![s] = "constructing"]
    /\ UNCHANGED <<ring, receiverAlive, closed, kept, arg, result>>

ChannelReceiver(s) ==
    /\ pc[s] = "constructing"
    /\ receiverAlive' = TRUE
    /\ refs' = refs + 1
    /\ pc' = [pc EXCEPT ![s] = "idle", ![Receiver] = "idle"]
    /\ UNCHANGED <<core, ring, senders, closed, kept, arg, result>>

(* Mutant of SenderShare: the new handle holds no reference to the core.    *)
SenderShareWithoutRetain(s, t) ==
    /\ pc[s] = "idle"
    /\ pc[t] = "absent"
    /\ senders' = senders + 1
    /\ pc' = [pc EXCEPT ![t] = "idle"]
    /\ UNCHANGED <<core, ring, receiverAlive, closed, refs, kept, arg, result>>

SenderShare(s, t) ==
    /\ pc[s] = "idle"
    /\ pc[t] = "absent"
    /\ senders' = senders + 1
    /\ refs' = refs + 1
    /\ pc' = [pc EXCEPT ![t] = "idle"]
    /\ UNCHANGED <<core, ring, receiverAlive, closed, kept, arg, result>>

-----------------------------------------------------------------------------
(* try_send (b = FALSE) and send (b = TRUE) of m.  Only send waits.         *)

Full == ring.count = Capacity

Open == ~closed /\ receiverAlive

InSend(s, m, b) ==
    \/ pc[s] = "idle" /\ m \in kept
    \/ pc[s] = "woken" /\ b /\ m = arg[s]

(* Leaves the call without a message in the queue.  A refusal hands the     *)
(* message back; the wrapper raises on an error and so drops it.            *)
SendReturns(s, m, outcome) ==
    /\ kept' = IF outcome = "Failed" THEN kept \ {m} ELSE kept \cup {m}
    /\ arg' = [arg EXCEPT ![s] = NULL]
    /\ pc' = [pc EXCEPT ![s] = "idle"]
    /\ Return(s, outcome)
    /\ UNCHANGED coreVars

SendLockFails(s, m) ==
    /\ "lock" \in Fault
    /\ pc[s] = "idle" /\ m \in kept
    /\ SendReturns(s, m, "Failed")

SendWait(s, m) ==
    /\ InSend(s, m, TRUE)
    /\ Full /\ Open
    /\ kept' = kept \ {m}
    /\ arg' = [arg EXCEPT ![s] = m]
    /\ pc' = [pc EXCEPT ![s] = "waiting"]
    /\ UNCHANGED <<coreVars, result>>

SendWaitFails(s, m) ==
    /\ "wait" \in Fault
    /\ InSend(s, m, TRUE)
    /\ Full /\ Open
    /\ SendReturns(s, m, "Failed")

SendRefused(s, m, b) ==
    /\ InSend(s, m, b)
    /\ \/ ~Open /\ SendReturns(s, m, "Closed")
       \/ Open /\ Full /\ ~b /\ SendReturns(s, m, "Full")

(* Mutant of SendEnqueue: a send whose signal failed hands the message back *)
(* although it is queued.                                                   *)
SendEnqueueReturning(s, m, b) ==
    /\ InSend(s, m, b)
    /\ Open /\ ~Full
    /\ ring' = Put(ring, m)
    /\ arg' = [arg EXCEPT ![s] = NULL]
    /\ \E ok \in Notified : \E woken \in SignalWakes({Receiver}, ok) :
         /\ kept' = IF ok THEN kept \ {m} ELSE kept \cup {m}
         /\ pc' = Moved(s, "idle", woken)
         /\ Return(s, IF ok THEN "Sent" ELSE "Failed")
    /\ UNCHANGED <<core, senders, receiverAlive, closed, refs>>

SendEnqueue(s, m, b) ==
    /\ InSend(s, m, b)
    /\ Open /\ ~Full
    /\ ring' = Put(ring, m)
    /\ kept' = kept \ {m}
    /\ arg' = [arg EXCEPT ![s] = NULL]
    /\ \E ok \in Notified : \E woken \in SignalWakes({Receiver}, ok) :
         /\ pc' = Moved(s, "idle", woken)
         /\ Return(s, IF ok THEN "Sent" ELSE "Failed")
    /\ UNCHANGED <<core, senders, receiverAlive, closed, refs>>

-----------------------------------------------------------------------------
(* try_recv (b = FALSE) and recv (b = TRUE).                                *)

InReceive(b) ==
    \/ pc[Receiver] = "idle"
    \/ pc[Receiver] = "woken" /\ b

ReceiveFails ==
    /\ \/ "lock" \in Fault /\ pc[Receiver] = "idle"
       \/ "wait" \in Fault /\ InReceive(TRUE) /\ ring.count = 0 /\ ~closed
    /\ pc' = [pc EXCEPT ![Receiver] = "idle"]
    /\ Return(Receiver, "Failed")
    /\ UNCHANGED <<coreVars, kept, arg>>

ReceiveWait ==
    /\ InReceive(TRUE)
    /\ ring.count = 0 /\ ~closed
    /\ pc' = [pc EXCEPT ![Receiver] = "waiting"]
    /\ UNCHANGED <<coreVars, kept, arg, result>>

(* Mutant of ReceiveNothing: a closed channel is reported before it has     *)
(* been drained.                                                            *)
ReceiveNothingUndrained(b) ==
    /\ InReceive(b)
    /\ closed \/ (ring.count = 0 /\ ~b)
    /\ pc' = [pc EXCEPT ![Receiver] = "idle"]
    /\ Return(Receiver, IF closed THEN "Closed" ELSE "Empty")
    /\ UNCHANGED <<coreVars, kept, arg>>

ReceiveNothing(b) ==
    /\ InReceive(b)
    /\ ring.count = 0
    /\ closed \/ ~b
    /\ pc' = [pc EXCEPT ![Receiver] = "idle"]
    /\ Return(Receiver, IF closed THEN "Closed" ELSE "Empty")
    /\ UNCHANGED <<coreVars, kept, arg>>

(* Mutant of ReceiveTake: it signals readable instead of writable.          *)
ReceiveTakeWrongSignal(b) ==
    /\ InReceive(b)
    /\ ring.count > 0
    /\ ring' = Take(ring)
    /\ \E ok \in Notified :
         /\ kept' = IF ok THEN kept \cup {Front(ring)} ELSE kept
         /\ pc' = [pc EXCEPT ![Receiver] = "idle"]
         /\ Return(Receiver, IF ok THEN Front(ring) ELSE "Failed")
    /\ UNCHANGED <<core, senders, receiverAlive, closed, refs, arg>>

(* When the signal fails the wrapper raises and so drops the message.       *)
ReceiveTake(b) ==
    /\ InReceive(b)
    /\ ring.count > 0
    /\ ring' = Take(ring)
    /\ \E ok \in Notified : \E woken \in SignalWakes(Sender, ok) :
         /\ kept' = IF ok THEN kept \cup {Front(ring)} ELSE kept
         /\ pc' = Moved(Receiver, "idle", woken)
         /\ Return(Receiver, IF ok THEN Front(ring) ELSE "Failed")
    /\ UNCHANGED <<core, senders, receiverAlive, closed, refs, arg>>

-----------------------------------------------------------------------------
(* Closing.  A close whose lock fails changes nothing.                      *)

Broadcast(t) ==
    \E okR, okW \in Notified :
        pc' = Moved(t, "idle", BroadcastWakes({Receiver}, okR)
                                 \cup BroadcastWakes(Sender, okW))

SenderClose(s) ==
    /\ pc[s] = "idle"
    /\ closed' = TRUE
    /\ Broadcast(s)
    /\ UNCHANGED <<core, ring, senders, receiverAlive, refs, kept, arg, result>>

ReceiverClose ==
    /\ pc[Receiver] = "idle"
    /\ closed' = TRUE
    /\ receiverAlive' = FALSE
    /\ Broadcast(Receiver)
    /\ UNCHANGED <<core, ring, senders, refs, kept, arg, result>>

(* The finalizers, up to their unlock; they abort where a call fails.       *)
FinalizeSender(s) ==
    /\ \/ pc[s] = "idle"
       \/ pc[s] = "constructing" /\ "lock" \in Fault
    /\ senders' = senders - 1
    /\ closed' = (closed \/ senders = 1)
    /\ pc' = Moved(s, "releasing", IF senders = 1 THEN Waiters(Endpoint) ELSE {})
    /\ UNCHANGED <<core, ring, receiverAlive, refs, kept, arg, result>>

FinalizeReceiver ==
    /\ pc[Receiver] = "idle"
    /\ receiverAlive' = FALSE
    /\ closed' = (closed \/ receiverAlive)
    /\ pc' = Moved(Receiver, "releasing",
                   IF receiverAlive THEN Waiters(Endpoint) ELSE {})
    /\ UNCHANGED <<core, ring, senders, refs, kept, arg, result>>

(* core_release: the last reference releases the queued messages.           *)
CoreRelease(t) ==
    /\ pc[t] = "releasing"
    /\ refs' = refs - 1
    /\ pc' = [pc EXCEPT ![t] = "absent"]
    /\ \/ refs # 1 /\ UNCHANGED <<core, ring>>
       \/ refs = 1 /\ core' = "freed" /\ ring' = EmptyRing
    /\ UNCHANGED <<senders, receiverAlive, closed, kept, arg, result>>

-----------------------------------------------------------------------------
(* The program is over once the core is gone.                               *)
Finished == core = "freed" /\ UNCHANGED vars

Sends(s) ==
    \/ \E m \in Message : SendWait(s, m)
    \/ \E m \in Message, b \in BOOLEAN : SendRefused(s, m, b) \/ SendEnqueue(s, m, b)

SenderNext(s) ==
    \/ ChannelNew(s)
    \/ ChannelReceiver(s)
    \/ \E t \in Sender : SenderShare(s, t)
    \/ Sends(s)
    \/ \E m \in Message : SendLockFails(s, m) \/ SendWaitFails(s, m)
    \/ SenderClose(s)
    \/ FinalizeSender(s)

Receives == ReceiveWait \/ \E b \in BOOLEAN : ReceiveNothing(b) \/ ReceiveTake(b)

ReceiverNext ==
    \/ Receives
    \/ ReceiveFails
    \/ ReceiverClose
    \/ FinalizeReceiver

Next ==
    \/ \E s \in Sender : SenderNext(s)
    \/ ReceiverNext
    \/ \E t \in Endpoint : CoreRelease(t) \/ SpuriousWake(t)
    \/ Finished

Spec == Init /\ [][Next]_vars

-----------------------------------------------------------------------------
(* Safety.                                                                  *)

(* Every message has one owner: a caller, a blocked send or one slot of the *)
(* queue.  try_send "returns ownership on failure", and no error path hands *)
(* back, queues or releases a message that somebody else has.               *)
MessagesOwnedOnce ==
    LET queued == {ring.slots[i] : i \in Occupied(ring)}
        sending == {arg[s] : s \in Sender} \ {NULL}
    IN  /\ Cardinality(queued) = ring.count
        /\ queued \cap kept = {} /\ queued \cap sending = {} /\ kept \cap sending = {}
        /\ \A s, t \in Sender : arg[s] = arg[t] => s = t \/ arg[s] = NULL

(* refs counts the handles whose core_release has not run and senders those *)
(* of the sender role not yet finalized: the core is freed by the last      *)
(* handle, never under a blocked send or recv.                              *)
HandlesAccounted ==
    /\ refs = Cardinality({t \in Endpoint : pc[t] # "absent"})
    /\ senders = Cardinality({s \in Sender : pc[s] \notin {"absent", "releasing"}})
    /\ core = "live" <=> refs > 0

(* The channel is the same linearizable FIFO as the OwnedBytes channel,     *)
(* without byte limits: queued messages drain in order before recv returns  *)
(* None, and a result is true at the instant the call takes effect.         *)
Fifo == INSTANCE FifoChannel WITH
    Payload <- Message, Length <- [m \in Message |-> 0],
    MaxMessageBytes <- 0, MaxQueuedBytes <- 0,
    queue <- Contents(ring), bytes <- 0

RefinesFifo == Fifo!Spec

-----------------------------------------------------------------------------
(* Liveness.  A woken thread gets the mutex back and goes on, and so does a *)
(* finalizer; nothing is assumed about callers, and neither a failure nor a *)
(* spurious wake-up is relied on.                                           *)

Fairness ==
    /\ \A s \in Sender : WF_vars(pc[s] = "woken" /\ Sends(s))
    /\ WF_vars(pc[Receiver] = "woken" /\ Receives)
    /\ \A t \in Endpoint : WF_vars(CoreRelease(t))

FairSpec == Spec /\ Fairness

(* send "Blocks until space is available or the channel closes": it does    *)
(* not stay blocked while there is space.                                   *)
SpaceUnblocks == \A s \in Sender : ~<>[](pc[s] = "waiting" /\ Open /\ ~Full)

(* "Closing or dropping either endpoint wakes blocked senders and           *)
(* receivers": their calls return.                                          *)
CloseUnblocks ==
    \A t \in Endpoint : (closed /\ pc[t] \in {"waiting", "woken"}) ~> pc[t] = "idle"

(* Both: no send stays blocked while there is space, nor any call once the  *)
(* channel is closed.                                                       *)
CallsUnblock == SpaceUnblocks /\ CloseUnblocks

=============================================================================
