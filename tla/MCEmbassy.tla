----------------------------- MODULE MCEmbassy ------------------------------
(* Embassy over a ring of two frames and one transmit buffer: both run out.*)
EXTENDS Embassy
=============================================================================
