--------------------------- MODULE MCRunDelivery ---------------------------
(***************************************************************************)
(* RunDelivery for TLC: one run, up to two connections, short send queues,  *)
(* and the circumstances each question is asked in.                         *)
(***************************************************************************)
EXTENDS RunDelivery

CONSTANTS r1, s1, k1

AllFaults == {"redis", "postgres", "network", "crash"}
In(pipelined, faults, cancelled, conns, events) ==
  [pipelined |-> pipelined, faults |-> faults, cancelled |-> cancelled,
   conns |-> conns, events |-> events]

SafetyRegimes ==
  {In(TRUE, AllFaults, {}, 2, 3), In(TRUE, {"network", "crash"}, {}, 2, 3),
   In(FALSE, AllFaults, {}, 2, 3), In(FALSE, AllFaults, {r1}, 1, 3)}
JournalRegimes ==
  {In(TRUE, {"network", "crash"}, {}, 2, 2), In(TRUE, {"postgres"}, {}, 1, 2)}
StartRegimes == {In(TRUE, AllFaults, {}, 2, 1)}
CancelRegimes == {In(TRUE, {}, {r1}, 1, 3)}
=============================================================================
