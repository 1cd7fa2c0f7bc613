---------------------------- MODULE MCVoiceRuntime ----------------------------
(* Small instances of VoiceRuntime for TLC. *)
EXTENDS VoiceRuntime, TLC

\* Every peer id belongs to one and the same account.
OneUser == [p \in Peers |-> CHOOSE u \in Users : TRUE]

SocketSymmetry == Permutations(Sockets)
=============================================================================
