------------------------ MODULE MCOwnedBytesChannel ------------------------
(* Instances of OwnedBytesChannel for TLC. *)
EXTENDS OwnedBytesChannel, TLC

CONSTANTS p1, p2, p3

(* A short, a long and an oversized message. *)
MixedLength == [p \in Payload |-> IF p = p1 THEN 1 ELSE IF p = p2 THEN 2 ELSE 3]

SenderSymmetry == Permutations(Sender)

=============================================================================
