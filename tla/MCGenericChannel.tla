-------------------------- MODULE MCGenericChannel --------------------------
(* Instances of GenericChannel for TLC. *)
EXTENDS GenericChannel, TLC

(* Senders are alike, and so are messages. *)
ChannelSymmetry == Permutations(Sender) \cup Permutations(Message)

=============================================================================
