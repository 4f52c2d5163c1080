----------------------------- MODULE RunIngest ------------------------------
(***************************************************************************)
(* One run as its readers see it being written.  The coordinator handles   *)
(* the Agent's events one after the other: the Redis stream first, then    *)
(* the PostgreSQL transaction, then the wake-up of waiting polls (the      *)
(* version key, then the published message), then the acknowledgement.     *)
(* The Agent repeats an event until it is acknowledged and sends the next  *)
(* one after that; RunDelivery shows when the protocol keeps this order.   *)
(* Event Last is the run's terminal event; the transaction that stores it  *)
(* makes the run's status terminal.                                        *)
(***************************************************************************)
EXTENDS Integers, Sequences

CONSTANTS Last,        \* number of the terminal event
          MaxVersion   \* bound: notifications since Redis last lost its data

ASSUME IngestAssumption == Last \in Nat \ {0} /\ MaxVersion \in Nat

VARIABLES
  acked,     \* events acknowledged to the Agent
  phase,     \* where the coordinator is in the handling of event acked + 1
  live,      \* entries of the run's Redis stream
  stored,    \* run_events holds the events 1 .. stored
  version    \* the channel's version key; 0 when it is not set

ingestVars == <<acked, phase, live, stored, version>>

IngestInit ==
  /\ acked = 0
  /\ phase = "idle"
  /\ live = {}
  /\ stored = 0
  /\ version = 0

isTerminal == stored = Last

\* Altered for mutation testing: the event counts as durable once streamed.
AppendRunEventDurable ==
  /\ phase = "idle"
  /\ acked < Last
  /\ live' = live \cup {acked + 1}
  /\ acked' = acked + 1
  /\ UNCHANGED <<phase, stored, version>>

\* XADD with the event's number as its id: a new entry, or the same entry
\* found again.
AppendRunEvent ==
  /\ phase = "idle"
  /\ acked < Last
  /\ live' = live \cup {acked + 1}
  /\ phase' = "streamed"
  /\ UNCHANGED <<acked, stored, version>>

\* The transaction of AppendAgentEvent; for an event stored before it changes
\* nothing and succeeds.
AppendAgentEvent ==
  /\ phase = "streamed"
  /\ stored' = IF stored < acked + 1 THEN acked + 1 ELSE stored
  /\ phase' = "stored"
  /\ UNCHANGED <<acked, live, version>>

\* notify, first half.  Its errors are ignored.
SetVersion ==
  /\ phase = "stored"
  /\ \/ /\ version < MaxVersion
        /\ version' = version + 1
        /\ phase' = "versioned"
     \/ /\ phase' = "notified"
        /\ UNCHANGED version
  /\ UNCHANGED <<acked, live, stored>>

Acknowledge ==
  /\ phase = "notified"
  /\ acked' = acked + 1
  /\ phase' = "idle"
  /\ UNCHANGED <<live, stored, version>>

\* A failed write, a lost acknowledgement or a restart of the relay: the Agent
\* sends the event again.
Abandon ==
  /\ phase # "idle"
  /\ phase' = "idle"
  /\ UNCHANGED <<acked, live, stored, version>>

\* Redis comes back without its data.
LoseRedisData ==
  /\ live # {}
  /\ live' = {}
  /\ version' = 0
  /\ UNCHANGED <<acked, phase, stored>>

IngestTypeOK ==
  /\ acked \in 0 .. Last
  /\ phase \in {"idle", "streamed", "stored", "versioned", "notified"}
  /\ live \subseteq 1 .. Last
  /\ stored \in acked .. Last
  /\ version \in 0 .. MaxVersion
=============================================================================
