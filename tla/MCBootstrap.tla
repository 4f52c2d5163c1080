----------------------------- MODULE MCBootstrap ----------------------------
(***************************************************************************)
(* Bootstrap for TLC: two Projects, the Sessions of a configuration spread *)
(* over them.                                                              *)
(***************************************************************************)
EXTENDS Bootstrap

CONSTANTS p1, p2, s1, s2, j1, j2

MCProjectOf == [s \in Session |-> IF s = s2 /\ p2 \in Project THEN p2 ELSE p1]
=============================================================================
