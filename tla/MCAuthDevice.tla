---------------------------- MODULE MCAuthDevice ----------------------------
(***************************************************************************)
(* AuthDevice for TLC: a native application, browser tabs on a bad         *)
(* network, and copies of every token.                                     *)
(***************************************************************************)
EXTENDS AuthDevice, TLC

CONSTANTS g1, g2, c1, c2, read, write, k1, k2

Style(serial, lossy, browser, copies) ==
  [serial |-> serial, lossy |-> lossy, browser |-> browser, copies |-> copies]
MCStyles ==
  {Style(TRUE, FALSE, FALSE, FALSE), Style(FALSE, TRUE, TRUE, FALSE),
   Style(FALSE, FALSE, FALSE, TRUE)}

MCSymmetry == Permutations(Grant) \cup Permutations(Client) \cup Permutations(Call)
=============================================================================
