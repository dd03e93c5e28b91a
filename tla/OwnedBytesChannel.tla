------------------------- MODULE OwnedBytesChannel -------------------------
(***************************************************************************)
(* The bounded byte channel of src/channel: any number of sender handles,  *)
(* one receiver handle, one reference-counted core.                        *)
(*                                                                         *)
(* Every action that touches the core is one critical section of the code: *)
(* from a mutex_lock (or the return of cond_wait) to the next mutex_unlock *)
(* (or cond_wait).  What happens between two critical sections of one call *)
(* is kept in pc and call.                                                 *)
(***************************************************************************)
EXTENDS Ring

CONSTANTS
    Sender,            \* places a sender handle can live in, one thread each
    Receiver,          \* the thread that owns the receiver handle
    Payload,           \* the messages callers pass in
    Length,            \* Length[p]: number of bytes of p
    MaxMessageBytes,
    MaxQueuedBytes,
    Fault              \* which system calls may fail or misbehave

Int32Max == 2147483647

(* owned_bytes_bounded_with_limits rejects every other combination of       *)
(* limits before a core exists.                                             *)
ASSUME LimitAssumption ==
    /\ Length \in [Payload -> Nat]
    /\ MaxQueuedBytes \in Nat /\ MaxQueuedBytes <= Int32Max
    /\ MaxMessageBytes \in 1 .. MaxQueuedBytes

ASSUME NameAssumption ==
    /\ IsFiniteSet(Sender)
    /\ Receiver \notin Sender
    /\ NULL \notin Payload
    /\ Fault \subseteq {"lock", "wait", "signal", "spurious"}

VARIABLES
    core,           \* "none" before construction, "live", "freed"
    ring,           \* slots, head, tail and count
    queuedBytes,
    senders,        \* number of sender handles
    receiverAlive,
    closed,
    refs,           \* reference count of the core
    copies,         \* native message copies allocated and not freed
    pc,             \* where each thread is
    call,           \* arguments and locals of each sender's current submit
    result          \* what each thread's last operation returned

coreVars == <<core, ring, queuedBytes, senders, receiverAlive, closed, refs>>
vars == <<coreVars, copies, pc, call, result>>

Endpoint == Sender \cup {Receiver}

Refusal == {"Closed", "Full", "QueueByteLimitReached"}
Outcome == {"None", "Sent", "MessageTooLarge", "Empty", "Failed"} \cup Refusal

Location ==
    {"absent",         \* no handle here
     "constructing",   \* has the sender of a channel without receiver
     "idle",           \* has a handle, is in no operation
     "locking",        \* in submit, about to lock the mutex
     "waiting",        \* inside cond_wait
     "woken",          \* leaving cond_wait, holds the mutex next
     "releasing"}      \* finalizer ran, core_release is still to come

Call == [payload : Payload \cup {NULL}, block : BOOLEAN, copied : BOOLEAN]

NoCall == [payload |-> NULL, block |-> FALSE, copied |-> FALSE]

TypeOK ==
    /\ core \in {"none", "live", "freed"}
    /\ ring \in RingOf(Payload)
    /\ queuedBytes \in 0 .. MaxQueuedBytes
    /\ senders \in Nat
    /\ receiverAlive \in BOOLEAN
    /\ closed \in BOOLEAN
    /\ refs \in Nat
    /\ copies \in Nat
    /\ pc \in [Endpoint -> Location]
    /\ call \in [Sender -> Call]
    /\ result \in [Endpoint -> Outcome \cup Payload]

Init ==
    /\ core = "none"
    /\ ring = EmptyRing
    /\ queuedBytes = 0
    /\ senders = 0
    /\ receiverAlive = FALSE
    /\ closed = FALSE
    /\ refs = 0
    /\ copies = 0
    /\ pc = [t \in Endpoint |-> "absent"]
    /\ call = [s \in Sender |-> NoCall]
    /\ result = [t \in Endpoint |-> "None"]

-----------------------------------------------------------------------------
(* Condition variables.  Only the receiver waits on readable and only       *)
(* senders wait on writable.  cond_signal wakes one waiter of the system's  *)
(* choice, cond_broadcast all; with "signal" a call may fail and wake none. *)

Waiters(threads) == {t \in threads : pc[t] = "waiting"}

(* Whether a signal or broadcast call succeeds.                             *)
Notified == IF "signal" \in Fault THEN BOOLEAN ELSE {TRUE}

(* Mutants of SignalWakes and BroadcastWakes: a receive that signals only   *)
(* when the queue was full, and a close that signals instead of broadcasting*)
SignalWakesIfFull(threads, ok) ==
    IF ok /\ Waiters(threads) # {} /\ (threads = Sender => ring.count = Capacity)
    THEN {{t} : t \in Waiters(threads)} ELSE {{}}

BroadcastWakesOne(threads, ok) ==
    IF ok /\ Waiters(threads) # {} THEN {CHOOSE t \in Waiters(threads) : TRUE} ELSE {}

SignalWakes(threads, ok) ==
    IF ok /\ Waiters(threads) # {} THEN {{t} : t \in Waiters(threads)} ELSE {{}}

BroadcastWakes(threads, ok) == IF ok THEN Waiters(threads) ELSE {}

(* pc once the threads of woken have been woken and t has moved on to where.*)
Moved(t, where, woken) ==
    [u \in Endpoint |->
        IF u = t THEN where ELSE IF u \in woken THEN "woken" ELSE pc[u]]

Return(t, outcome) == result' = [result EXCEPT ![t] = outcome]

SpuriousWake(t) ==
    /\ "spurious" \in Fault
    /\ pc[t] = "waiting"
    /\ pc' = [pc EXCEPT ![t] = "woken"]
    /\ UNCHANGED <<coreVars, copies, call, result>>

-----------------------------------------------------------------------------
(* Construction and sharing.  A constructor that fails before the core      *)
(* exists frees what it allocated and leaves no state.                      *)

ChannelNew(s) ==
    /\ core = "none"
    /\ core' = "live"
    /\ refs' = 1
    /\ senders' = 1
    /\ pc' = [pc EXCEPT ![s] = "constructing"]
    /\ UNCHANGED <<ring, queuedBytes, receiverAlive, closed, copies, call, result>>

ChannelReceiver(s) ==
    /\ pc[s] = "constructing"
    /\ receiverAlive' = TRUE
    /\ refs' = refs + 1
    /\ pc' = [pc EXCEPT ![s] = "idle", ![Receiver] = "idle"]
    /\ UNCHANGED <<core, ring, queuedBytes, senders, closed, copies, call, result>>

(* Mutant of SenderShare: the new handle holds no reference to the core.    *)
SenderShareWithoutRetain(s, t) ==
    /\ pc[s] = "idle"
    /\ pc[t] = "absent"
    /\ senders' = senders + 1
    /\ pc' = [pc EXCEPT ![t] = "idle"]
    /\ UNCHANGED <<core, ring, queuedBytes, receiverAlive, closed, refs, copies,
                   call, result>>

SenderShare(s, t) ==
    /\ pc[s] = "idle"
    /\ pc[t] = "absent"
    /\ senders' = senders + 1
    /\ refs' = refs + 1
    /\ pc' = [pc EXCEPT ![t] = "idle"]
    /\ UNCHANGED <<core, ring, queuedBytes, receiverAlive, closed, copies, call, result>>

-----------------------------------------------------------------------------
(* try_send (block = FALSE) and send (block = TRUE).                        *)

Full == ring.count = Capacity

HasByteCapacity(p) == Length[p] <= MaxQueuedBytes - queuedBytes

Open == ~closed /\ receiverAlive

MustWait(s) ==
    /\ call[s].block
    /\ Open
    /\ Full \/ ~HasByteCapacity(call[s].payload)

(* The mutex is held and the size check has passed.                         *)
InSubmit(s) ==
    \/ pc[s] = "woken"
    \/ /\ pc[s] = "locking"
       /\ Length[call[s].payload] <= MaxMessageBytes

(* Mutant of Refused: a full queue is reported before a closed channel.     *)
RefusedFullFirst(s) ==
    IF Full THEN "Full"
    ELSE IF ~Open THEN "Closed"
    ELSE IF ~HasByteCapacity(call[s].payload) THEN "QueueByteLimitReached"
    ELSE "None"

(* Why submit gives up after its wait loop, in the order the code asks.     *)
Refused(s) ==
    IF ~Open THEN "Closed"
    ELSE IF Full THEN "Full"
    ELSE IF ~HasByteCapacity(call[s].payload) THEN "QueueByteLimitReached"
    ELSE "None"

(* Mutant of Abandon: an early return forgets the copy.                     *)
AbandonLeakingCopy(s, outcome) ==
    /\ call' = [call EXCEPT ![s] = NoCall]
    /\ pc' = [pc EXCEPT ![s] = "idle"]
    /\ Return(s, outcome)
    /\ UNCHANGED <<coreVars, copies>>

(* Leaves submit without enqueueing: the copy, if there is one, is freed.   *)
Abandon(s, outcome) ==
    /\ copies' = IF call[s].copied THEN copies - 1 ELSE copies
    /\ call' = [call EXCEPT ![s] = NoCall]
    /\ pc' = [pc EXCEPT ![s] = "idle"]
    /\ Return(s, outcome)
    /\ UNCHANGED coreVars

BeginSubmit(s, p, b) ==
    /\ pc[s] = "idle"
    /\ pc' = [pc EXCEPT ![s] = "locking"]
    /\ call' = [call EXCEPT ![s] = [payload |-> p, block |-> b, copied |-> FALSE]]
    /\ Return(s, "None")
    /\ UNCHANGED <<coreVars, copies>>

SubmitLockFails(s) ==
    /\ "lock" \in Fault
    /\ pc[s] = "locking"
    /\ Abandon(s, "Failed")

SubmitTooLarge(s) ==
    /\ pc[s] = "locking"
    /\ Length[call[s].payload] > MaxMessageBytes
    /\ Abandon(s, "MessageTooLarge")

SubmitWait(s) ==
    /\ InSubmit(s)
    /\ MustWait(s)
    /\ pc' = [pc EXCEPT ![s] = "waiting"]
    /\ UNCHANGED <<coreVars, copies, call, result>>

SubmitWaitFails(s) ==
    /\ "wait" \in Fault
    /\ InSubmit(s)
    /\ MustWait(s)
    /\ Abandon(s, "Failed")

SubmitRefused(s) ==
    /\ InSubmit(s)
    /\ ~MustWait(s)
    /\ Refused(s) \in Refusal
    /\ Abandon(s, Refused(s))

(* Unlocks, copies the payload outside the lock, goes back to the lock.     *)
SubmitCopy(s) ==
    /\ InSubmit(s)
    /\ ~MustWait(s)
    /\ Refused(s) = "None"
    /\ ~call[s].copied
    /\ copies' = copies + 1
    /\ call' = [call EXCEPT ![s] = [payload |-> call[s].payload,
                                    block |-> call[s].block, copied |-> TRUE]]
    /\ pc' = [pc EXCEPT ![s] = "locking"]
    /\ UNCHANGED <<coreVars, result>>

SubmitEnqueue(s) ==
    /\ InSubmit(s)
    /\ ~MustWait(s)
    /\ Refused(s) = "None"
    /\ call[s].copied
    /\ ring' = Put(ring, call[s].payload)
    /\ queuedBytes' = queuedBytes + Length[call[s].payload]
    /\ call' = [call EXCEPT ![s] = NoCall]
    /\ \E ok \in Notified : \E woken \in SignalWakes({Receiver}, ok) :
         /\ pc' = Moved(s, "idle", woken)
         /\ Return(s, IF ok THEN "Sent" ELSE "Failed")
    /\ UNCHANGED <<core, senders, receiverAlive, closed, refs, copies>>

SubmitStep(s) ==
    \/ SubmitLockFails(s)
    \/ SubmitTooLarge(s)
    \/ SubmitWait(s)
    \/ SubmitWaitFails(s)
    \/ SubmitRefused(s)
    \/ SubmitCopy(s)
    \/ SubmitEnqueue(s)

-----------------------------------------------------------------------------
(* try_recv (block = FALSE) and recv (block = TRUE).  A call starts with    *)
(* its first critical section; only a blocking call is ever woken.          *)

InReceive(b) ==
    \/ pc[Receiver] = "idle"
    \/ pc[Receiver] = "woken" /\ b

ReceiveLockFails ==
    /\ "lock" \in Fault
    /\ pc[Receiver] = "idle"
    /\ Return(Receiver, "Failed")
    /\ UNCHANGED <<coreVars, copies, pc, call>>

ReceiveWait ==
    /\ InReceive(TRUE)
    /\ ring.count = 0 /\ ~closed
    /\ pc' = [pc EXCEPT ![Receiver] = "waiting"]
    /\ UNCHANGED <<coreVars, copies, call, result>>

ReceiveWaitFails ==
    /\ "wait" \in Fault
    /\ InReceive(TRUE)
    /\ ring.count = 0 /\ ~closed
    /\ pc' = [pc EXCEPT ![Receiver] = "idle"]
    /\ Return(Receiver, "Failed")
    /\ UNCHANGED <<coreVars, copies, call>>

ReceiveNothing(b) ==
    /\ InReceive(b)
    /\ ring.count = 0
    /\ closed \/ ~b
    /\ pc' = [pc EXCEPT ![Receiver] = "idle"]
    /\ Return(Receiver, IF closed THEN "Closed" ELSE "Empty")
    /\ UNCHANGED <<coreVars, copies, call>>

(* The copy is turned into MoonBit bytes and freed after the unlock, before *)
(* the call returns; when the signal failed the wrapper raises instead of   *)
(* returning the bytes.                                                     *)
ReceiveTake(b) ==
    /\ InReceive(b)
    /\ ring.count > 0
    /\ ring' = Take(ring)
    /\ queuedBytes' = queuedBytes - Length[Front(ring)]
    /\ copies' = copies - 1
    /\ \E ok \in Notified : \E woken \in SignalWakes(Sender, ok) :
         /\ pc' = Moved(Receiver, "idle", woken)
         /\ Return(Receiver, IF ok THEN Front(ring) ELSE "Failed")
    /\ UNCHANGED <<core, senders, receiverAlive, closed, refs, call>>

-----------------------------------------------------------------------------
(* Closing.  A close whose lock fails changes nothing.                      *)

SenderClose(s) ==
    /\ pc[s] = "idle"
    /\ closed' = TRUE
    /\ \E okR, okW \in Notified :
         pc' = Moved(s, "idle", BroadcastWakes({Receiver}, okR)
                                  \cup BroadcastWakes(Sender, okW))
    /\ UNCHANGED <<core, ring, queuedBytes, senders, receiverAlive, refs,
                   copies, call, result>>

ReceiverClose ==
    /\ pc[Receiver] = "idle"
    /\ closed' = TRUE
    /\ receiverAlive' = FALSE
    /\ \E okR, okW \in Notified :
         pc' = Moved(Receiver, "idle", BroadcastWakes({Receiver}, okR)
                                         \cup BroadcastWakes(Sender, okW))
    /\ UNCHANGED <<core, ring, queuedBytes, senders, refs, copies, call, result>>

(* The finalizers of the two handle roles, up to their unlock.  They abort  *)
(* the process when a call fails, so theirs succeed here.  A sender whose   *)
(* constructor failed to make the receiver is dropped the same way.         *)
FinalizeSender(s) ==
    /\ \/ pc[s] = "idle"
       \/ pc[s] = "constructing" /\ "lock" \in Fault
    /\ senders' = senders - 1
    /\ closed' = (closed \/ senders = 1)
    /\ pc' = Moved(s, "releasing", IF senders = 1 THEN Waiters(Endpoint) ELSE {})
    /\ UNCHANGED <<core, ring, queuedBytes, receiverAlive, refs, copies, call, result>>

FinalizeReceiver ==
    /\ pc[Receiver] = "idle"
    /\ receiverAlive' = FALSE
    /\ closed' = (closed \/ receiverAlive)
    /\ pc' = Moved(Receiver, "releasing",
                   IF receiverAlive THEN Waiters(Endpoint) ELSE {})
    /\ UNCHANGED <<core, ring, queuedBytes, senders, refs, copies, call, result>>

(* core_release: the last reference frees the queued copies and the core.   *)
CoreRelease(t) ==
    /\ pc[t] = "releasing"
    /\ refs' = refs - 1
    /\ pc' = [pc EXCEPT ![t] = "absent"]
    /\ \/ /\ refs # 1
          /\ UNCHANGED <<core, ring, queuedBytes, copies>>
       \/ /\ refs = 1
          /\ core' = "freed"
          /\ ring' = EmptyRing
          /\ queuedBytes' = 0
          /\ copies' = copies - Cardinality(Occupied(ring))
    /\ UNCHANGED <<senders, receiverAlive, closed, call, result>>

-----------------------------------------------------------------------------
(* The program is over once the core is gone.                               *)
Finished == core = "freed" /\ UNCHANGED vars

SenderNext(s) ==
    \/ ChannelNew(s)
    \/ ChannelReceiver(s)
    \/ \E t \in Sender : SenderShare(s, t)
    \/ \E p \in Payload, b \in BOOLEAN : BeginSubmit(s, p, b)
    \/ SubmitStep(s)
    \/ SenderClose(s)
    \/ FinalizeSender(s)

ReceiveStep(b) == ReceiveNothing(b) \/ ReceiveTake(b)

ReceiverNext ==
    \/ ReceiveLockFails
    \/ ReceiveWait
    \/ ReceiveWaitFails
    \/ \E b \in BOOLEAN : ReceiveStep(b)
    \/ ReceiverClose
    \/ FinalizeReceiver

Next ==
    \/ \E s \in Sender : SenderNext(s)
    \/ ReceiverNext
    \/ \E t \in Endpoint : CoreRelease(t) \/ SpuriousWake(t)
    \/ Finished

Spec == Init /\ [][Next]_vars

-----------------------------------------------------------------------------
(* Safety.                                                                  *)

(* The thread is inside a send or recv call, between critical sections.     *)
InCall(t) == pc[t] \in {"locking", "waiting", "woken"}

(* The circular queue stays consistent through every interleaving of        *)
(* submit and receive: the slots in use are the count slots from head on,   *)
(* so a receive never takes a null or a stale slot and a submit never       *)
(* overwrites a queued message, also after head and tail wrap around.       *)
RingIntegrity == WellFormed(ring)

(* queued_bytes is the sum of the lengths of the queued messages and within *)
(* max_queued_bytes, so the unchecked int32 addition in submit and the      *)
(* subtractions in receive and has_byte_capacity never overflow or go below *)
(* zero.  sum[k] is the number of bytes of the k oldest messages.           *)
BytesAccounted ==
    \E sum \in [0 .. ring.count -> 0 .. MaxQueuedBytes] :
        /\ sum[0] = 0
        /\ sum[ring.count] = queuedBytes
        /\ \A k \in 1 .. ring.count :
              sum[k] = sum[k - 1] + Length[ring.slots[Slot(ring, k - 1)]]
        /\ \A j, k \in 0 .. ring.count : j <= k => sum[j] <= sum[k]

(* Every native copy is owned exactly once: by the submit call that made    *)
(* it or by the slot it was stored in.  No error, refusal or close path of  *)
(* submit leaks it or frees it twice, and core_release frees the rest.      *)
CopiesAccounted ==
    /\ \A s \in Sender : call[s].copied => InCall(s)
    /\ copies = Cardinality({s \in Sender : call[s].copied}) + ring.count

(* The reference count is the number of handles whose core_release has not  *)
(* run and senders the number of sender handles not yet finalized; so the   *)
(* core is freed by the last handle, and never while a thread that still    *)
(* has a handle, blocked or between two critical sections, can use it.      *)
HandlesAccounted ==
    /\ refs = Cardinality({t \in Endpoint : pc[t] # "absent"})
    /\ senders = Cardinality({s \in Sender : pc[s] \notin {"absent", "releasing"}})
    /\ core = "live" <=> refs > 0

(* Nobody sleeps through the event it waits for: a blocked recv has nothing *)
(* to take and the channel is open; a blocked send's channel is open.       *)
(* README: "wakes blocked endpoints".                                       *)
NoSleeperMissesEvent ==
    "signal" \notin Fault =>
        /\ pc[Receiver] = "waiting" => ring.count = 0 /\ ~closed
        /\ \A s \in Sender : pc[s] = "waiting" => Open

(* What makes the properties above inductive: a sender has a payload exactly*)
(* while it is in submit, past the size check once it has waited; and until *)
(* the constructor has made the receiver nobody else has a handle.          *)
CallsWellFormed ==
    /\ \A s \in Sender :
         /\ InCall(s) <=> call[s].payload # NULL
         /\ pc[s] \in {"waiting", "woken"} =>
               Length[call[s].payload] <= MaxMessageBytes
         /\ pc[s] = "constructing" =>
               \A t \in Endpoint : t # s => pc[t] = "absent"
    /\ pc[Receiver] \notin {"constructing", "locking"}

IInv ==
    /\ TypeOK
    /\ RingIntegrity
    /\ BytesAccounted
    /\ CopiesAccounted
    /\ HandlesAccounted
    /\ CallsWellFormed

(* The channel is a linearizable FIFO: every critical section is one step   *)
(* of FifoChannel or changes nothing its users can see.                     *)
Fifo == INSTANCE FifoChannel WITH queue <- Contents(ring), bytes <- queuedBytes

RefinesFifo == Fifo!Spec

-----------------------------------------------------------------------------
(* Liveness.  A thread inside a call keeps running whenever it is not       *)
(* blocked in cond_wait, and so does a finalizer; nothing is assumed about  *)
(* when callers call, and no spurious wake-up is relied on.                 *)

Resumed == pc[Receiver] = "woken" /\ (ReceiveWait \/ ReceiveStep(TRUE))

Fairness ==
    /\ \A s \in Sender : WF_vars(SubmitStep(s))
    /\ WF_vars(Resumed)
    /\ \A t \in Endpoint : WF_vars(CoreRelease(t))

FairSpec == Spec /\ Fairness

(* close, and the drop of the last sender or of the receiver, get every     *)
(* blocked or half-done send and recv to return ("wakes blocked endpoints").*)
CloseUnblocks ==
    \A t \in Endpoint : (closed /\ InCall(t)) ~> ~InCall(t)

(* send "Blocks until bytes are copied into the queue or the channel        *)
(* closes": it does not stay blocked for ever while its bytes would fit.    *)
FittingSendReturns ==
    \A s \in Sender :
        ~<>[](pc[s] = "waiting" /\ Open /\ ~Full /\ HasByteCapacity(call[s].payload))

=============================================================================
