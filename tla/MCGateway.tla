------------------------------ MODULE MCGateway -----------------------------
(***************************************************************************)
(* Gateway for TLC.                                                        *)
(***************************************************************************)
EXTENDS Gateway, TLC

CONSTANTS c1, c2, c3, a1, a2

MCSymmetry == Permutations(Call) \cup Permutations(Agent)
=============================================================================
