------------------------------ MODULE MCRxRing ------------------------------
(* RxRing on small rings.                                                  *)
EXTENDS RxRing
=============================================================================
