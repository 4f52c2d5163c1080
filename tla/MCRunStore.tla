----------------------------- MODULE MCRunStore -----------------------------
(***************************************************************************)
(* RunStore for TLC: every caller, in every order, on a few rows.          *)
(***************************************************************************)
EXTENDS RunStore, FiniteSets, TLC

CONSTANTS r1, r2, s1, k1, k2, th1, tu1, tu2

MCSymmetry == Permutations(Run) \cup Permutations(Key) \cup Permutations(Turn)

\* One run with all its sequences, or two runs that share a session and keys
\* of which at most one has reported an event.
MCBound ==
  \/ Cardinality(Created) <= 1
  \/ \E r \in Run : Rows(r) \subseteq {1} /\ \A q \in Run \ {r} : Rows(q) = {}
MCStep == MCBound'
=============================================================================
