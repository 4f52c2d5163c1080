----------------------------- MODULE RunReaders -----------------------------
(***************************************************************************)
(* The readers of a log: a client of one of the two long polls or of one   *)
(* of the two streams, on the same log and the same writer.  The endpoint  *)
(* is chosen once; the client of the other kind never sends a request.     *)
(***************************************************************************)
EXTENDS RunPoll

VARIABLES received, connected, position, persisted, reading, written

Stream == INSTANCE RunStream WITH cursor <- position

pollOnly == <<cursor, applied, stopped, handler>>
streamOnly == <<received, connected, position, persisted, reading, written>>

ReadersInit ==
  \/ /\ Init
     /\ received = <<>> /\ connected = FALSE /\ position = 0
     /\ persisted = {} /\ reading = FALSE /\ written = <<>>
  \/ /\ Stream!Init
     /\ cursor = 0 /\ applied = <<>> /\ stopped = FALSE /\ handler = Idle

ReadersNext ==
  \/ endpoint \in Polls /\ Next /\ UNCHANGED streamOnly
  \/ endpoint \in Stream!Streams /\ Stream!Next /\ UNCHANGED pollOnly

ReadersSpec == ReadersInit /\ [][ReadersNext]_<<vars, streamOnly>>
FairReadersSpec == ReadersSpec /\ Fairness /\ Stream!Fairness

\* Clients of a stream receive 1, 2, 3, ...: no gap and no repetition, across
\* reconnections, whichever of the two sources an event was read from.
ReceivedInOrder == Stream!ReceivedInOrder

\* Every stored event reaches the client: of a poll, whatever notification is
\* lost, since the deadline of the wait leads to another look at PostgreSQL;
\* of a stream, also when Redis has lost its data.
EveryEventArrives ==
  \A k \in 1 .. Last :
    stored >= k ~> (IF endpoint \in Polls THEN cursor ELSE Stream!LastReceived) >= k

\* What a stream shows ahead of PostgreSQL becomes durable in the end: the
\* Agent repeats an event until the transaction has committed.
ShownBecomesDurable == Stream!ShownBecomesDurable
=============================================================================
