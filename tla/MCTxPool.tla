------------------------------ MODULE MCTxPool ------------------------------
(* TxPool with three buffers; clients are interchangeable.                 *)
EXTENDS TxPool, TLC

ClientSymmetry == Permutations(Clients)
=============================================================================
