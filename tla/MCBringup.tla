----------------------------- MODULE MCBringup -----------------------------
(* Bringup for TLC: its configurations differ in the number of tasks that  *)
(* ask for the handle and in what may fail.                                *)
EXTENDS Bringup
=============================================================================
