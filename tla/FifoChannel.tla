---------------------------- MODULE FifoChannel ----------------------------
(***************************************************************************)
(* What a bounded channel promises its users, without locks, condition     *)
(* variables, handles or memory: every operation takes effect in one       *)
(* instant, and what it returns is true of the queue at that instant.      *)
(***************************************************************************)
EXTENDS Integers, Sequences

CONSTANTS Sender, Receiver, Payload, Length, Capacity, MaxMessageBytes,
          MaxQueuedBytes

VARIABLES queue,    \* accepted and not yet received messages, oldest first
          bytes,    \* how many bytes they have
          closed,
          result    \* what each thread's last operation returned

vars == <<queue, bytes, closed, result>>

Init ==
    /\ queue = <<>>
    /\ bytes = 0
    /\ closed = FALSE
    /\ result = [t \in Sender \cup {Receiver} |-> "None"]

Return(t, outcome) == result' = [result EXCEPT ![t] = outcome]

(* A sender starts its next operation.                                      *)
Begin(s) == Return(s, "None") /\ UNCHANGED <<queue, bytes, closed>>

Room(p) == Len(queue) < Capacity /\ bytes + Length[p] <= MaxQueuedBytes

(* An operation whose wake-up call fails has taken effect all the same, but *)
(* reports a failure.                                                       *)
Send(s, p) ==
    /\ ~closed
    /\ Length[p] <= MaxMessageBytes
    /\ Room(p)
    /\ queue' = Append(queue, p)
    /\ bytes' = bytes + Length[p]
    /\ Return(s, "Sent") \/ Return(s, "Failed")
    /\ UNCHANGED closed

Receive ==
    /\ queue # <<>>
    /\ queue' = Tail(queue)
    /\ bytes' = bytes - Length[Head(queue)]
    /\ Return(Receiver, Head(queue)) \/ Return(Receiver, "Failed")
    /\ UNCHANGED closed

(* The outcomes that leave the queue alone, and when each may be reported.  *)
Refuse(s, p) ==
    /\ \/ closed /\ Return(s, "Closed")
       \/ ~closed /\ Len(queue) = Capacity /\ Return(s, "Full")
       \/ /\ ~closed /\ Len(queue) < Capacity /\ ~Room(p)
          /\ Return(s, "QueueByteLimitReached")
       \/ Length[p] > MaxMessageBytes /\ Return(s, "MessageTooLarge")
       \/ Return(s, "Failed")
    /\ UNCHANGED <<queue, bytes, closed>>

ReceiveNothing ==
    /\ \/ queue = <<>> /\ closed /\ Return(Receiver, "Closed")
       \/ queue = <<>> /\ ~closed /\ Return(Receiver, "Empty")
       \/ Return(Receiver, "Failed")
    /\ UNCHANGED <<queue, bytes, closed>>

Close == closed' = TRUE /\ UNCHANGED <<queue, bytes, result>>

(* The last handle is gone: nobody is left to receive what is queued.       *)
Discard ==
    /\ closed
    /\ queue' = <<>>
    /\ bytes' = 0
    /\ UNCHANGED <<closed, result>>

Next ==
    \/ \E s \in Sender, p \in Payload : Send(s, p) \/ Refuse(s, p)
    \/ \E s \in Sender : Begin(s)
    \/ Receive
    \/ ReceiveNothing
    \/ Close
    \/ Discard

Spec == Init /\ [][Next]_vars

=============================================================================
