------------------------ MODULE MCOwnedBytesWorkload ------------------------
(***************************************************************************)
(* OwnedBytesChannel under three kinds of use, each without limit: only    *)
(* short messages, for which the slots run out first, only long ones, for  *)
(* which the bytes do, and both.                                           *)
(***************************************************************************)
EXTENDS OwnedBytesChannel

CONSTANTS p1, p2

VARIABLE sent    \* the messages that are sent in this behaviour

MixedLength == [p \in Payload |-> IF p = p1 THEN 1 ELSE 2]

WorkloadInit == Init /\ sent \in {{p1}, {p2}, Payload}

WorkloadNext ==
    /\ Next
    /\ UNCHANGED sent
    /\ \A s \in Sender : call'[s].payload \in sent \cup {NULL}

WorkloadSpec == WorkloadInit /\ [][WorkloadNext]_<<vars, sent>> /\ Fairness

(* send "Blocks until bytes are copied into the queue or the channel        *)
(* closes": with messages of one length, one signal per received message is *)
(* enough, and no send stays blocked while its bytes would fit.             *)
OneLengthSendReturns == sent # Payload => FittingSendReturns

(* The consumer loop: recv is called again whenever it has returned.        *)
Draining == ReceiveWait \/ ReceiveStep(TRUE)

(* As long as the receiver goes on receiving, a send stays blocked for ever *)
(* only while another sender puts message after message into the queue: the *)
(* wake-ups are not lost, whatever the message lengths and whichever waiter *)
(* each cond_signal picks, but the freed room may be taken by others.       *)
ReturnsOrOvertaken ==
    WF_vars(Draining) =>
        \A s \in Sender :
            \/ []<>~InCall(s)
            \/ \E u \in Sender \ {s} : []<><<SubmitEnqueue(u)>>_vars

=============================================================================
