----------------------------- MODULE MCScanner -----------------------------
(***************************************************************************)
(* Two scanners on one ignore list, two devices in reach of the first.     *)
(***************************************************************************)
EXTENDS Scanner, TLC

CONSTANTS a1, a2, k1, k2

MCNorm == (a1 :> k1) @@ (a2 :> k2)
=============================================================================
