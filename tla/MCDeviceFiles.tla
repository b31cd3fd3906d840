---------------------------- MODULE MCDeviceFiles ----------------------------
(* DeviceFiles with interchangeable threads, names and files.               *)
EXTENDS DeviceFiles, TLC

Symmetry == Permutations(Threads) \cup Permutations(Names) \cup Permutations(Files)
=============================================================================
