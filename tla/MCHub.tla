------------------------------- MODULE MCHub --------------------------------
(***************************************************************************)
(* Hub for TLC: either role replaced, with and without the Run Server, App *)
(* commands, a shutdown.                                                   *)
(***************************************************************************)
EXTENDS Hub

CONSTANTS p1, p2, a1, a2

Setup(conns, runtime, commander, mayShutDown) ==
  [conns |-> conns, runtime |-> runtime, commander |-> commander, shutdown |-> mayShutDown]

MCSetups ==
  {Setup({a1, a2}, TRUE, {}, TRUE),
   Setup({p1, p2, a1}, FALSE, {}, FALSE),
   Setup({p1, a1}, FALSE, {p1}, TRUE),
   Setup({p1, a1}, TRUE, {p1}, TRUE)}
=============================================================================
