-------------------------- MODULE ReliableJournal --------------------------
(***************************************************************************)
(* What the Run Server promises the Agent about the events of its runs:    *)
(* an event is stored once under its number, what is stored stays stored,  *)
(* the Agent is told that an event is stored only when it is, and every    *)
(* event it has produced is stored in the end.                             *)
(***************************************************************************)
EXTENDS Integers

CONSTANTS Run, MaxSequence

Sequence == 1 .. MaxSequence

VARIABLES
  produced,      \* number of events the Agent has produced, by run
  stored,        \* numbers of the events that are stored
  acknowledged   \* numbers of the stored events the Agent may forget

vars == <<produced, stored, acknowledged>>

Init ==
  /\ produced = [r \in Run |-> 0]
  /\ stored = [r \in Run |-> {}]
  /\ acknowledged = [r \in Run |-> {}]

Produce(r) ==
  /\ produced[r] < MaxSequence
  /\ produced' = [produced EXCEPT ![r] = @ + 1]
  /\ UNCHANGED <<stored, acknowledged>>

StoreEvent(r, n) ==
  /\ n \in 1 .. produced[r]
  /\ n \notin stored[r]
  /\ stored' = [stored EXCEPT ![r] = @ \cup {n}]
  /\ UNCHANGED <<produced, acknowledged>>

Acknowledge(r, n) ==
  /\ n \in stored[r]
  /\ acknowledged' = [acknowledged EXCEPT ![r] = @ \cup {n}]
  /\ UNCHANGED <<produced, stored>>

\* The Agent offers an event again that it was told is stored.
Offer(r, n) ==
  /\ acknowledged' = [acknowledged EXCEPT ![r] = @ \ {n}]
  /\ UNCHANGED <<produced, stored>>

Next ==
  \E r \in Run :
    \/ Produce(r)
    \/ \E n \in Sequence : StoreEvent(r, n) \/ Acknowledge(r, n) \/ Offer(r, n)

Spec == Init /\ [][Next]_vars
FairSpec == Spec /\ \A r \in Run, n \in Sequence : WF_vars(StoreEvent(r, n))
=============================================================================
