------------------------------- MODULE MCOta --------------------------------
(***************************************************************************)
(* Small instances of Ota: two slots of two sectors, with a first slot     *)
(* that does not fill its last sector, and an unaligned layout.            *)
(***************************************************************************)
EXTENDS Ota, TLC

MCStart  == (0 :> 0) @@ (1 :> 2)
MCMaxLen == (0 :> 2) @@ (1 :> 3)

\* The slots share a sector: slot 1 starts where slot 0 ends.
MCStartUnaligned  == (0 :> 0) @@ (1 :> 3)
MCMaxLenUnaligned == (0 :> 3) @@ (1 :> 3)
=============================================================================
