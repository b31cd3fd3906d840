---------------------------- MODULE MCForwarding ----------------------------
(* Forwarding with interchangeable sockets and ports.                       *)
EXTENDS Forwarding, TLC

Symmetry == Permutations(Socks) \cup Permutations(Ports)
=============================================================================
