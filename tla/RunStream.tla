------------------------------ MODULE RunStream -----------------------------
(***************************************************************************)
(* The server-sent event streams.  For a run the handler reads, every      *)
(* 400 ms, the stored events after its cursor, then the Redis stream after *)
(* the same cursor, and writes the gapless continuation of both.  It may   *)
(* show an event before it is durable.  For a session it writes what is    *)
(* stored after its cursor; the numbers are then those of the session log. *)
(* Any read error ends the stream; the client reconnects with the id of    *)
(* the last event it received.                                             *)
(***************************************************************************)
EXTENDS RunIngest

VARIABLES
  endpoint,    \* the handler that serves the client
  received,    \* the events the client has received, in order
  connected,
  cursor,      \* the handler's cursor
  persisted,   \* what the first read of the tick returned; {} between ticks
  reading,     \* the handler is between its two reads
  written      \* events written to the connection and not yet received

streamVars == <<endpoint, received, connected, cursor, persisted, reading, written>>
vars == <<ingestVars, streamVars>>

Streams == {"runEvents", "sessionEvents"}

Init ==
  /\ IngestInit
  /\ endpoint \in Streams
  /\ received = <<>>
  /\ connected = FALSE
  /\ cursor = 0
  /\ persisted = {}
  /\ reading = FALSE
  /\ written = <<>>

LastReceived == IF received = <<>> THEN 0 ELSE received[Len(received)]

\* lastEventID
Connect ==
  /\ ~ connected
  /\ endpoint \in Streams
  /\ connected' = TRUE
  /\ cursor' = LastReceived
  /\ UNCHANGED <<ingestVars, endpoint, received, persisted, reading, written>>

ListRunEvents ==
  /\ connected
  /\ endpoint = "runEvents"
  /\ ~ reading
  /\ persisted' = {k \in 1 .. stored : k > cursor}
  /\ reading' = TRUE
  /\ UNCHANGED <<ingestVars, endpoint, received, connected, cursor, written>>

\* Altered for mutation testing: everything known is written, gaps or not.
ContinuationGaps(known) ==
  SelectSeq([k \in 1 .. Last |-> k], LAMBDA k : k > cursor /\ k \in known)

\* The loop over bySequence: what follows the cursor, up to the first number
\* that is not known.
Continuation(known) ==
  [n \in {i \in 1 .. Last : \A k \in 1 .. i : cursor + k \in known} |-> cursor + n]

\* The events are written; lastSequence is the next cursor.
Write(events) ==
  /\ written' = written \o events
  /\ cursor' = IF events = <<>> THEN cursor ELSE events[Len(events)]

\* ReadRunEvents, the merge and the write.
ReadRunEvents ==
  /\ reading
  /\ Write(Continuation(persisted \cup {k \in live : k > cursor}))
  /\ persisted' = {}
  /\ reading' = FALSE
  /\ UNCHANGED <<ingestVars, endpoint, received, connected>>

\* A tick of the session stream: one read, everything it returns is written.
ListSessionEvents ==
  /\ connected
  /\ endpoint = "sessionEvents"
  /\ Write([n \in 1 .. stored - cursor |-> cursor + n])
  /\ UNCHANGED <<ingestVars, endpoint, received, connected, persisted, reading>>

Receive ==
  /\ written # <<>>
  /\ received' = Append(received, Head(written))
  /\ written' = Tail(written)
  /\ UNCHANGED <<ingestVars, endpoint, connected, cursor, persisted, reading>>

\* A failed read, a client that goes away, a restart: what was written and
\* not received is gone.
Disconnect ==
  /\ connected
  /\ connected' = FALSE
  /\ written' = <<>>
  /\ persisted' = {}
  /\ reading' = FALSE
  /\ UNCHANGED <<ingestVars, endpoint, received, cursor>>

\* PUBLISH: nobody listens on behalf of a stream.
Publish ==
  /\ phase = "versioned"
  /\ phase' = "notified"
  /\ UNCHANGED <<acked, live, stored, version>>

Ingest ==
  /\ \/ AppendRunEvent
     \/ AppendAgentEvent
     \/ SetVersion
     \/ Publish
     \/ Acknowledge
     \/ Abandon
     \/ LoseRedisData
  /\ UNCHANGED streamVars

Next ==
  \/ Ingest
  \/ Connect
  \/ ListRunEvents
  \/ ReadRunEvents
  \/ ListSessionEvents
  \/ Receive
  \/ Disconnect

Spec == Init /\ [][Next]_vars

-----------------------------------------------------------------------------
\* The ticker ticks, the client reconnects; a read and a write that are tried
\* again and again succeed at some time; the Agent repeats its event and the
\* transaction, tried again and again, commits at some time.
Fairness ==
  /\ WF_vars(Connect)
  /\ SF_vars(ListRunEvents \/ ListSessionEvents)
  /\ SF_vars(ReadRunEvents)
  /\ SF_vars(Receive)
  /\ WF_vars(endpoint \in Streams /\ AppendRunEvent /\ UNCHANGED streamVars)
  /\ SF_vars(endpoint \in Streams /\ AppendAgentEvent /\ UNCHANGED streamVars)

FairSpec == Spec /\ Fairness

\* The client receives 1, 2, 3, ...: no gap and no repetition, across
\* reconnections, whichever of the two sources an event was read from.
ReceivedInOrder == received = [i \in 1 .. Len(received) |-> i]

\* What the stream shows ahead of PostgreSQL becomes durable in the end: the
\* Agent repeats an event until the transaction has committed.
ShownBecomesDurable == \A k \in 1 .. Last : (LastReceived >= k) ~> (stored >= k)
=============================================================================
