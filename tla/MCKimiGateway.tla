---------------------------- MODULE MCKimiGateway ----------------------------
(***************************************************************************)
(* Instances of KimiGateway for TLC: one extraction call, then two agents  *)
(* together, in two runs that may overlap.                                 *)
(***************************************************************************)
EXTENDS KimiGateway, TLC

CONSTANTS r1, r2, extract, bull, bear

Batches == (extract :> 0) @@ (bull :> 1) @@ (bear :> 1)
=============================================================================
