------------------------------ MODULE MCL2Send ------------------------------
(* Instances of L2Send for TLC.                                            *)
EXTENDS L2Send, TLC

Symmetry == Permutations(Senders) \cup Permutations(Buffers)
=============================================================================
