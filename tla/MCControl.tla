----------------------------- MODULE MCControl -----------------------------
(* Control has no sets to instantiate: its configurations differ in how    *)
(* long a wait lasts and in how patient the application is.                *)
EXTENDS Control
=============================================================================
