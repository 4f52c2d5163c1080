---------------------------- MODULE RunDelivery ----------------------------
(***************************************************************************)
(* How a run travels between the Run Server and the Agent: the dispatcher  *)
(* claims outbox commands and sends them, the Agent executes and reports   *)
(* numbered events, a handler per connection appends each event to the     *)
(* Redis stream and to PostgreSQL and acknowledges it.  Connections break  *)
(* and are replaced, Redis and PostgreSQL calls fail, the relay crashes.   *)
(*                                                                         *)
(* The store is RunStore, one transaction per step.  The Agent is not part *)
(* of this repository: it is modelled from what the relay sends it and     *)
(* expects of it.  It keeps every event until the durable ack and sends    *)
(* again what was not acknowledged.                                        *)
(***************************************************************************)
EXTENDS Integers, Sequences, FiniteSets

CONSTANTS
  Run, Session, Key, Null, ClaimLimit,
  MaxSequence,    \* bound: events the Agent reports for one run
  MaxConn,        \* bound: Agent connections in a behaviour
  SendQueueSize,  \* capacity of a peer's send queue
  Regimes         \* the circumstances a behaviour may be set in

ASSUME DeliveryAssumption ==
  /\ MaxSequence \in Nat \ {0}
  /\ MaxConn \in Nat \ {0}
  /\ SendQueueSize \in Nat \ {0}
  /\ ClaimLimit \in Nat \ {0}
  /\ Null \notin Run \cup Session \cup Key
  /\ Regimes \subseteq
       [pipelined : BOOLEAN,   \* an event is sent before the one before it is acknowledged
        faults : SUBSET {"redis", "postgres", "network", "crash"},  \* what may fail
        cancelled : SUBSET Run,     \* the runs a client may ask to cancel
        conns : 1 .. MaxConn,       \* the connections the Agent may open
        events : 1 .. MaxSequence]  \* the events it may report for one run

Sequence == 1 .. MaxSequence
Conn == 1 .. MaxConn

VARIABLES
  runs, journal, sessions, feed, outbox, clock,   \* PostgreSQL, see RunStore
  stream,      \* Redis: the sequences in the stream of each run
  conn,        \* state of each Agent connection: "unused", "open", "closed"
  peer,        \* the Agent connection in the registry, 0 when there is none
  queue,       \* messages on their way to the Agent, by connection
  handler,     \* the message handler of each connection
  dispatcher,  \* the dispatch loop: the peer and the commands of this round
  log,         \* Agent: the events it has produced for each run
  acked,       \* Agent: sequences for which it holds a durable ack
  cursor,      \* Agent: last sequence sent for the run on the current connection
  regime       \* the circumstances of this behaviour, chosen once

\* A run without a thread starts one, named after the run; its turn too.
Store == INSTANCE RunStore WITH Thread <- Run, Turn <- Run

storeVars == <<runs, journal, sessions, feed, outbox, clock>>
relayVars == <<stream, conn, peer, queue, handler, dispatcher>>
agentVars == <<log, acked, cursor>>
vars == <<runs, journal, sessions, feed, outbox, clock,
          stream, conn, peer, queue, handler, dispatcher, log, acked, cursor, regime>>

Terminal == {"turn.completed", "turn.failed", "turn.interrupted", "turn.rejected"}
AgentEvent == {"run.accepted", "turn.started", "item"} \cup Terminal
Opened == {c \in Conn : conn[c] # "unused"}
\* The connection the Agent uses is the last one it opened.
Current(c) == conn[c] = "open" /\ \A d \in Opened : d <= c

Message ==
  [type : {"turn.start", "turn.interrupt", "durable_ack"}, run : Run,
   seq : 0 .. MaxSequence, thread : Run \cup {Null}, turn : Run \cup {Null}]
\* Altered for mutation testing: the turn is lost in the conversion.
CommandMessageNoTurn(c) ==
  [type |-> IF c[1] = "run.start" THEN "turn.start" ELSE "turn.interrupt",
   run |-> c[2], seq |-> 0, thread |-> outbox[c].thread, turn |-> Null]

CommandMessage(c) ==
  [type |-> IF c[1] = "run.start" THEN "turn.start" ELSE "turn.interrupt",
   run |-> c[2], seq |-> 0, thread |-> outbox[c].thread, turn |-> outbox[c].turn]
DurableAck(r, n) ==
  [type |-> "durable_ack", run |-> r, seq |-> n, thread |-> Null, turn |-> Null]

Idle == [stage |-> "idle", run |-> Null, seq |-> 0]
NoRound == [stage |-> "idle", peer |-> 0, batch |-> {}, cmd |-> Null]

Init ==
  /\ regime \in Regimes
  /\ Store!Init
  /\ stream = [r \in Run |-> {}]
  /\ conn = [c \in Conn |-> "unused"]
  /\ peer = 0
  /\ queue = [c \in Conn |-> <<>>]
  /\ handler = [c \in Conn |-> Idle]
  /\ dispatcher = NoRound
  /\ log = [r \in Run |-> <<>>]
  /\ acked = [r \in Run |-> {}]
  /\ cursor = [r \in Run |-> 0]

-----------------------------------------------------------------------------
(* Requests of clients.                                                    *)

CreateRun ==
  /\ \E r \in Run, s \in Session, k \in Key : Store!CreateRun(r, s, k)
  /\ UNCHANGED <<regime, relayVars, agentVars>>

RequestCancel ==
  /\ \E r \in regime.cancelled : Store!RequestCancel(r)
  /\ UNCHANGED <<regime, relayVars, agentVars>>

-----------------------------------------------------------------------------
(* Connections of the Agent.                                               *)

\* The Agent opens its next connection: the registry takes it as the peer and
\* closes the one it replaces.  The Agent starts sending from what is not
\* acknowledged.
Connect(c) ==
  /\ conn[c] = "unused"
  /\ c <= regime.conns
  /\ \A d \in Conn : d < c => conn[d] # "unused"
  /\ conn' = [d \in Conn |-> IF d = c THEN "open"
                             ELSE IF d = peer THEN "closed" ELSE conn[d]]
  /\ queue' = [d \in Conn |-> IF d = peer THEN <<>> ELSE queue[d]]
  /\ peer' = c
  /\ cursor' = [r \in Run |-> 0]
  /\ UNCHANGED <<regime, storeVars, stream, handler, dispatcher, log, acked>>

\* The connection breaks; what was queued is lost.  The last connection of the
\* model does not break.
Break(c) ==
  /\ "network" \in regime.faults
  /\ conn[c] = "open"
  /\ c < regime.conns
  /\ conn' = [conn EXCEPT ![c] = "closed"]
  /\ queue' = [queue EXCEPT ![c] = <<>>]
  /\ UNCHANGED <<regime, storeVars, stream, peer, handler, dispatcher, agentVars>>

\* The read loop of a closed connection ends and takes the peer out of the
\* registry, unless another connection has replaced it.
Unregister(c) ==
  /\ conn[c] = "closed"
  /\ handler[c] = Idle
  /\ peer = c
  /\ peer' = 0
  /\ UNCHANGED <<regime, storeVars, stream, conn, queue, handler, dispatcher, agentVars>>

\* The relay process dies and starts again: connections, send queues, handlers
\* and the dispatch round are gone, PostgreSQL and Redis stay.
Crash ==
  /\ "crash" \in regime.faults
  /\ conn[regime.conns] = "unused"
  /\ Opened # {}
  /\ conn' = [c \in Conn |-> IF conn[c] = "open" THEN "closed" ELSE conn[c]]
  /\ peer' = 0
  /\ queue' = [c \in Conn |-> <<>>]
  /\ handler' = [c \in Conn |-> Idle]
  /\ dispatcher' = NoRound
  /\ UNCHANGED <<regime, storeVars, stream, agentVars>>

-----------------------------------------------------------------------------
(* The dispatch loop.                                                      *)

\* The round after command c is dealt with.
Advance(c) ==
  dispatcher' = IF dispatcher.batch = {c} THEN NoRound
                ELSE [dispatcher EXCEPT !.stage = "sending",
                                        !.batch = @ \ {c}, !.cmd = Null]

Claim ==
  /\ dispatcher.stage = "idle"
  /\ peer # 0
  /\ \E B \in SUBSET Store!Command :
       /\ Store!ClaimCommands(B)
       /\ dispatcher' = [stage |-> "sending", peer |-> peer, batch |-> B, cmd |-> Null]
  /\ UNCHANGED <<regime, stream, conn, peer, queue, handler, agentVars>>

\* The claim returned an error: nothing is sent, whether or not it committed.
ClaimFails ==
  /\ "postgres" \in regime.faults
  /\ dispatcher.stage = "idle"
  /\ peer # 0
  /\ \E B \in SUBSET Store!Command : Store!ClaimCommands(B)
  /\ UNCHANGED <<regime, relayVars, agentVars>>

HasRoom(c) == conn[c] = "open" /\ Len(queue[c]) < SendQueueSize

\* The oldest command of the round not yet dealt with.
NextInRound(c) ==
  /\ dispatcher.stage = "sending"
  /\ c \in dispatcher.batch
  /\ \A d \in dispatcher.batch : outbox[c].created <= outbox[d].created

\* Altered for mutation testing: every command sent counts as delivered.
SendOkMarksAll(c) ==
  LET p == dispatcher.peer
  IN /\ NextInRound(c)
     /\ \/ /\ HasRoom(p)
           /\ queue' = [queue EXCEPT ![p] = Append(@, CommandMessage(c))]
        \/ /\ conn[p] = "closed"
           /\ UNCHANGED queue
     /\ dispatcher' = [dispatcher EXCEPT !.stage = "marking", !.cmd = c]
     /\ UNCHANGED <<regime, storeVars, stream, conn, peer, handler, agentVars>>

\* Send to the peer of the round returned nil: the message is queued, or, when
\* the peer is already closed, may be lost.  A run.start is left claimed until
\* the Agent accepts it; a run.cancel is marked delivered next.
SendOk(c) ==
  LET p == dispatcher.peer
  IN /\ NextInRound(c)
     /\ \/ /\ HasRoom(p)
           /\ queue' = [queue EXCEPT ![p] = Append(@, CommandMessage(c))]
        \/ /\ conn[p] = "closed"
           /\ UNCHANGED queue
     /\ IF c[1] = "run.start"
        THEN Advance(c)
        ELSE dispatcher' = [dispatcher EXCEPT !.stage = "marking", !.cmd = c]
     /\ UNCHANGED <<regime, storeVars, stream, conn, peer, handler, agentVars>>

\* Send returned an error: the queue is full or the peer is closed.
SendFails(c) ==
  /\ NextInRound(c)
  /\ ~ HasRoom(dispatcher.peer)
  /\ dispatcher' = [dispatcher EXCEPT !.stage = "releasing", !.cmd = c]
  /\ UNCHANGED <<regime, storeVars, stream, conn, peer, queue, handler, agentVars>>

MarkCancel ==
  /\ dispatcher.stage = "marking"
  /\ Store!MarkCommandDelivered(dispatcher.cmd)
  /\ Advance(dispatcher.cmd)
  /\ UNCHANGED <<regime, stream, conn, peer, queue, handler, agentVars>>

\* The update returned an error, made or not: the command is released like one
\* that was not sent.
MarkCancelFails ==
  /\ "postgres" \in regime.faults
  /\ dispatcher.stage = "marking"
  /\ UNCHANGED storeVars \/ Store!MarkCommandDelivered(dispatcher.cmd)
  /\ dispatcher' = [dispatcher EXCEPT !.stage = "releasing"]
  /\ UNCHANGED <<regime, stream, conn, peer, queue, handler, agentVars>>

Release ==
  /\ dispatcher.stage = "releasing"
  /\ Store!ReleaseCommand(dispatcher.cmd)
  /\ Advance(dispatcher.cmd)
  /\ UNCHANGED <<regime, stream, conn, peer, queue, handler, agentVars>>

\* The error of a release that was not made is ignored; the lease will expire.
ReleaseFails ==
  /\ "postgres" \in regime.faults
  /\ dispatcher.stage = "releasing"
  /\ Advance(dispatcher.cmd)
  /\ UNCHANGED <<regime, storeVars, stream, conn, peer, queue, handler, agentVars>>

ComesDue(c) ==
  /\ Store!ComesDue(c)
  /\ UNCHANGED <<regime, relayVars, agentVars>>

-----------------------------------------------------------------------------
(* The handler of a connection: one event at a time.                       *)

EventOf(r, n) == IF log[r][n] = "turn.rejected" THEN "turn.failed" ELSE log[r][n]
ThreadOf(r) == IF outbox[Store!Start(r)].thread = Null
               THEN r ELSE outbox[Store!Start(r)].thread

Unsent(r) == {n \in 1 .. Len(log[r]) : n > cursor[r] /\ n \notin acked[r]}

\* The Agent sends, per run, the smallest unacknowledged sequence above the
\* last one sent on this connection.
NextToSend(r, n) ==
  /\ n \in Unsent(r)
  /\ \A m \in Unsent(r) : n <= m
  /\ regime.pipelined \/ \A m \in 1 .. n - 1 : m \in acked[r]

\* Altered for mutation testing: a repetition is an error too.
StreamTakesNew(r, n) == \A m \in stream[r] : m < n

\* XADD takes an id above the last one; a smaller one is taken as a repetition
\* only when it is in the stream.
StreamTakes(r, n) == n \in stream[r] \/ \A m \in stream[r] : m < n

\* Altered for mutation testing: an event found in the stream counts as stored.
StageOnReceiptSkipping(r, n) == IF n \in stream[r] THEN "persisted" ELSE "received"

\* The event goes on to PostgreSQL, also when the stream had it already.
StageOnReceipt(r, n) == "received"

\* An event arrives and enters the stream.  The received ack sent at this
\* point changes nothing at the Agent and is left out.
ReceiveEvent(c, r, n) ==
  /\ Current(c)
  /\ handler[c] = Idle
  /\ NextToSend(r, n)
  /\ StreamTakes(r, n)
  /\ cursor' = [cursor EXCEPT ![r] = n]
  /\ stream' = [stream EXCEPT ![r] = @ \cup {n}]
  /\ handler' = [handler EXCEPT ![c] =
       [stage |-> StageOnReceipt(r, n), run |-> r, seq |-> n]]
  /\ UNCHANGED <<regime, storeVars, conn, peer, queue, dispatcher, log, acked>>

\* Redis refuses the event or is not reachable: it is dropped without an ack.
ReceiveFails(c, r, n) ==
  /\ Current(c)
  /\ handler[c] = Idle
  /\ NextToSend(r, n)
  /\ ~ StreamTakes(r, n) \/ "redis" \in regime.faults
  /\ cursor' = [cursor EXCEPT ![r] = n]
  /\ UNCHANGED <<regime, storeVars, relayVars, log, acked>>

\* AppendAgentEvent commits, or finds the event already stored.
Persist(c) ==
  LET r == handler[c].run
      n == handler[c].seq
  IN /\ handler[c].stage = "received"
     /\ \/ Store!AppendAgentEvent(r, n, EventOf(r, n), ThreadOf(r), r)
        \/ journal[r][n] # "none" /\ UNCHANGED storeVars
     /\ handler' = [handler EXCEPT ![c].stage = "persisted"]
     /\ UNCHANGED <<regime, stream, conn, peer, queue, dispatcher, agentVars>>

\* Altered for mutation testing: the error is logged and the handler goes on.
PersistFailsAcked(c) ==
  /\ handler[c].stage = "received"
  /\ "postgres" \in regime.faults /\ UNCHANGED storeVars
  /\ handler' = [handler EXCEPT ![c].stage = "persisted"]
  /\ UNCHANGED <<regime, stream, conn, peer, queue, dispatcher, agentVars>>

\* AppendAgentEvent returns an error and there is no durable ack.  When the
\* commit or the read that follows it is what failed, the event is stored.
PersistFails(c) ==
  LET r == handler[c].run
      n == handler[c].seq
  IN /\ handler[c].stage = "received"
     /\ \/ "postgres" \in regime.faults /\ UNCHANGED storeVars
        \/ /\ "postgres" \in regime.faults
           /\ Store!AppendAgentEvent(r, n, EventOf(r, n), ThreadOf(r), r)
     /\ handler' = [handler EXCEPT ![c] = Idle]
     /\ UNCHANGED <<regime, stream, conn, peer, queue, dispatcher, agentVars>>

\* The result of Send is ignored: an ack that finds no room is lost.
sendAck(c, r, n) ==
  queue' = IF HasRoom(c) THEN [queue EXCEPT ![c] = Append(@, DurableAck(r, n))]
                         ELSE queue

\* The durable ack; a run.accepted has its command finalised next.
AckEvent(c) ==
  LET r == handler[c].run
      n == handler[c].seq
  IN /\ handler[c].stage = "persisted"
     /\ sendAck(c, r, n)
     /\ handler' = [handler EXCEPT ![c] =
          IF log[r][n] = "run.accepted" THEN [@ EXCEPT !.stage = "accepted"] ELSE Idle]
     /\ UNCHANGED <<regime, storeVars, stream, conn, peer, dispatcher, agentVars>>

MarkAccepted(c) ==
  /\ handler[c].stage = "accepted"
  /\ Store!MarkCommandDelivered(Store!Start(handler[c].run))
  /\ handler' = [handler EXCEPT ![c] = Idle]
  /\ UNCHANGED <<regime, stream, conn, peer, queue, dispatcher, agentVars>>

MarkAcceptedFails(c) ==
  /\ "postgres" \in regime.faults
  /\ handler[c].stage = "accepted"
  /\ handler' = [handler EXCEPT ![c] = Idle]
  /\ UNCHANGED <<regime, storeVars, stream, conn, peer, queue, dispatcher, agentVars>>

-----------------------------------------------------------------------------
(* The Agent.                                                              *)

Last(r) == log[r][Len(log[r])]
Running(r) == log[r] # <<>> /\ Last(r) \in {"turn.started", "item"}

\* The Agent takes a message.  A first turn.start is accepted or rejected, a
\* repeated one is answered again with the first event.  A turn.interrupt that
\* names the running turn ends it, any other is ignored.
AgentReceive(c) ==
  LET m == Head(queue[c])
      r == m.run
  IN /\ Current(c)
     /\ queue[c] # <<>>
     /\ queue' = [queue EXCEPT ![c] = Tail(@)]
     /\ \/ /\ m.type = "turn.start" /\ log[r] = <<>>
           /\ \E e \in {"run.accepted", "turn.rejected"} :
                log' = [log EXCEPT ![r] = <<e>>]
           /\ UNCHANGED acked
        \/ /\ m.type = "turn.start" /\ log[r] # <<>>
           /\ acked' = [acked EXCEPT ![r] = @ \ {1}]
           /\ UNCHANGED log
        \/ /\ m.type = "turn.interrupt" /\ m.turn = r /\ Running(r)
           /\ log' = [log EXCEPT ![r] = Append(@, "turn.interrupted")]
           /\ UNCHANGED acked
        \/ /\ m.type = "turn.interrupt" /\ ~ (m.turn = r /\ Running(r))
           /\ UNCHANGED <<log, acked>>
        \/ /\ m.type = "durable_ack"
           /\ acked' = [acked EXCEPT ![r] = @ \cup {m.seq}]
           /\ UNCHANGED log
     /\ UNCHANGED <<regime, storeVars, stream, conn, peer, handler, dispatcher, cursor>>

\* The run moves on by one event; the last sequence is kept for a terminal one.
AgentProgress(r) ==
  /\ Len(log[r]) \in 1 .. regime.events - 1
  /\ \E e \in AgentEvent \ {"turn.rejected", "turn.interrupted"} :
       /\ \/ Last(r) = "run.accepted" /\ e \in {"turn.started", "turn.failed"}
          \/ Running(r) /\ e \in {"item", "turn.completed", "turn.failed"}
       /\ e \in {"turn.started", "item"} => Len(log[r]) + 1 < regime.events
       /\ log' = [log EXCEPT ![r] = Append(@, e)]
  /\ UNCHANGED <<regime, storeVars, relayVars, acked, cursor>>

\* With nothing left to send, the Agent gives up waiting for acks and starts
\* again from the first unacknowledged event.
AgentReplay(r) ==
  /\ \E n \in 1 .. cursor[r] : n \notin acked[r]
  /\ ~ \E n \in Sequence : NextToSend(r, n)
  /\ cursor' = [cursor EXCEPT ![r] = 0]
  /\ UNCHANGED <<regime, storeVars, relayVars, log, acked>>

-----------------------------------------------------------------------------
Next ==
  \/ CreateRun \/ RequestCancel
  \/ \E c \in Conn : Connect(c) \/ Break(c) \/ Unregister(c)
  \/ Crash
  \/ Claim \/ ClaimFails \/ MarkCancel \/ MarkCancelFails
  \/ Release \/ ReleaseFails
  \/ \E c \in Store!Command : SendOk(c) \/ SendFails(c) \/ ComesDue(c)
  \/ \E c \in Conn, r \in Run, n \in Sequence :
       ReceiveEvent(c, r, n) \/ ReceiveFails(c, r, n)
  \/ \E c \in Conn : Persist(c) \/ PersistFails(c) \/ AckEvent(c)
                     \/ MarkAccepted(c) \/ MarkAcceptedFails(c)
  \/ \E c \in Conn : AgentReceive(c)
  \/ \E r \in Run : AgentProgress(r) \/ AgentReplay(r)

Spec == Init /\ [][Next]_vars

\* Fairness of the threads.  Each one that can take a step takes one: the
\* dispatch loop (its ticker), the read loop and handler of a connection, the
\* Agent, which also reconnects and replays; time passes.  A claim tried again
\* and again succeeds, and a send queue that is drained again and again has room.
DispatcherStep ==
  \/ Claim \/ ClaimFails \/ MarkCancel \/ MarkCancelFails \/ Release \/ ReleaseFails
  \/ \E c \in Store!Command : SendOk(c) \/ SendFails(c)
HandlerStep(c) ==
  \/ \E r \in Run, n \in Sequence : ReceiveEvent(c, r, n) \/ ReceiveFails(c, r, n)
  \/ Persist(c) \/ PersistFails(c) \/ AckEvent(c)
  \/ MarkAccepted(c) \/ MarkAcceptedFails(c)

ThreadFairness ==
  /\ WF_vars(DispatcherStep)
  /\ SF_vars(Claim)
  /\ \A c \in Store!Command :
       WF_vars(ComesDue(c)) /\ SF_vars(SendOk(c) /\ queue' # queue)
  /\ \A c \in Conn : WF_vars(HandlerStep(c)) /\ WF_vars(AgentReceive(c))
                     /\ WF_vars(Connect(c)) /\ WF_vars(Unregister(c))
  /\ \A r \in Run : WF_vars(AgentReplay(r))

\* A call on one event that is tried again and again succeeds.
Handling(c, r, n) == handler[c].run = r /\ handler[c].seq = n
EventFairness ==
  /\ \A r \in Run, n \in Sequence :
       /\ SF_vars(\E c \in Conn : ReceiveEvent(c, r, n))
       /\ SF_vars(\E c \in Conn : Handling(c, r, n) /\ Persist(c))
       /\ SF_vars(\E c \in Conn : Handling(c, r, n) /\ HasRoom(c) /\ AckEvent(c))
  /\ \A r \in Run : SF_vars(\E c \in Conn : handler[c].run = r /\ MarkAccepted(c))

ThreadFairSpec == Spec /\ ThreadFairness
FairSpec == ThreadFairSpec /\ EventFairness

-----------------------------------------------------------------------------
\* Every variable of the relay and the Agent holds a value of its type.
TypeOK ==
  /\ Store!TypeOK
  /\ stream \in [Run -> SUBSET Sequence]
  /\ conn \in [Conn -> {"unused", "open", "closed"}]
  /\ peer \in Conn \cup {0}
  /\ queue \in [Conn -> Seq(Message)]
  /\ handler \in [Conn -> {Idle} \cup
       [stage : {"received", "persisted", "accepted"}, run : Run, seq : Sequence]]
  /\ dispatcher \in {NoRound} \cup
       [stage : {"sending"}, peer : Conn,
        batch : (SUBSET Store!Command) \ {{}}, cmd : {Null}] \cup
       [stage : {"marking", "releasing"}, peer : Conn,
        batch : (SUBSET Store!Command) \ {{}}, cmd : Store!Command]
  /\ log \in [Run -> Seq(AgentEvent)]
  /\ \A r \in Run : Len(log[r]) <= MaxSequence
  /\ acked \in [Run -> SUBSET Sequence]
  /\ cursor \in [Run -> 0 .. MaxSequence]
  /\ regime \in Regimes

InQueue(m) == \E c \in Conn : \E i \in 1 .. Len(queue[c]) : queue[c][i] = m

\* The Agent forgets an event once it holds the durable ack, so an ack that the
\* Agent holds, or that is on its way on any connection, is of an event
\* PostgreSQL has stored: whatever broke, crashed or was replayed in between.
DurableAckSound ==
  \A r \in Run, n \in Sequence :
    n \in acked[r] \/ InQueue(DurableAck(r, n)) => journal[r][n] # "none"

\* A run.start is finalised only for a run whose acceptance is stored: no
\* crash, lease expiry, failed send or replay makes the outbox forget a start
\* the Agent has not taken.
DeliveredStartWasAccepted ==
  \A r \in Run :
    outbox[Store!Start(r)].status = "delivered" =>
      \E n \in Sequence : journal[r][n] = "run.accepted"

\* The order of the log reaches PostgreSQL: the Agent waits for each durable
\* ack, or only connections and relays are lost.  (With both a pipelining Agent
\* and single failing calls, an event may be stored before the one before it.)
Orderly == ~ regime.pipelined \/ regime.faults \cap {"redis", "postgres"} = {}

\* In those circumstances the events of a run are stored without a gap, as the
\* SSE reader of a run needs them: it sends only the contiguous prefix.
JournalIsPrefix ==
  Orderly =>
    \A r \in Run, n \in Sequence :
      journal[r][n] # "none" => \A m \in 1 .. n : journal[r][m] # "none"

\* In the same circumstances a run that is completed, failed or canceled stays
\* so, whatever is replayed: clients stop polling at a terminal status.
TerminalStep ==
  Orderly => \A r \in Run : Store!isTerminal(runs[r].status) => runs'[r].status = runs[r].status
TerminalIsFinal == [][TerminalStep]_vars

Produced == [r \in Run |-> Len(log[r])]
Stored == [r \in Run |-> {n \in Sequence : journal[r][n] # "none"}]
Journal == INSTANCE ReliableJournal
           WITH produced <- Produced, stored <- Stored, acknowledged <- acked

\* Delivery implements the journal promised to the Agent: stored once and for
\* ever, acknowledged only when stored, and every event stored in the end,
\* through failing PostgreSQL calls, lost connections and crashes.
ImplementsJournal == Journal!FairSpec

\* Every run that was created reaches the Agent: its start command is finalised
\* by the stored acceptance, or the Agent has rejected the run.
StartSettles ==
  \A r \in Run :
    runs[r].status # "absent" ~>
      \/ log[r] = <<"turn.rejected">>
      \/ outbox[Store!Start(r)].status = "delivered"

\* The dispatcher is about to send to a full queue or a closed connection.
Congested == dispatcher.stage = "sending" /\ ~ HasRoom(dispatcher.peer)

\* A cancellation requested while the turn is known ends the run, unless the
\* sends of the dispatcher keep failing.  The command is sent until a send
\* returns nil, and then never again.
CancelEndsRun ==
  <>[](~ Congested) =>
    \A r \in Run :
      outbox[Store!Cancel(r)].turn # Null ~> Store!isTerminal(runs[r].status)
=============================================================================
