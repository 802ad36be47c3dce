------------------------------- MODULE MCUart -------------------------------
(* Uart with two tasks, rings and FIFOs of one or two bytes.                *)
EXTENDS Uart
=============================================================================
