------------------------- MODULE RunDeliveryProofs -------------------------
(***************************************************************************)
(* What RunDelivery guarantees for every number of runs, sessions, events, *)
(* connections and regimes: it uses the store as RunStore allows, so that  *)
(* what RunStoreProofs shows of the store holds of it here; an event is    *)
(* acknowledged only when it is stored; a start is finalised only when its *)
(* acceptance is stored; in orderly circumstances the journal is a prefix  *)
(* of the Agent's log and a terminal status is final; and the whole        *)
(* implements ReliableJournal.  What is on its way, either way, is of a    *)
(* run the store has; a status the store shows as over was reported by the *)
(* Agent; and a start the Agent has not answered stays in the outbox.      *)
(*                                                                         *)
(* First the inductive invariant, and that each step keeps it: there only  *)
(* the types of the store after the step are assumed.  Then they are taken *)
(* from RunStoreProofs, and the theorems follow.                           *)
(***************************************************************************)
EXTENDS RunDelivery, TLAPS

\* The sequence numbers are positive.
LEMMA Numbers == Sequence \subseteq Nat \ {0}
  BY DEF Sequence

-----------------------------------------------------------------------------
(* The inductive invariant.                                                *)

\* The command being settled belongs to the round; only a cancellation is
\* marked delivered by the dispatcher.
DispatcherInv ==
  /\ dispatcher.stage \in {"marking", "releasing"} => dispatcher.cmd \in dispatcher.batch
  /\ dispatcher.stage = "marking" => dispatcher.cmd[1] # "run.start"

\* A run that goes on has a number left for its terminal event, and nothing
\* follows a terminal event.
LogInv ==
  \A r \in Run :
    /\ Running(r) => Len(log[r]) < regime.events
    /\ \A n \in 1 .. Len(log[r]) - 1 : log[r][n] \notin Terminal

\* A handler works on an event of the log, and past Persist on a stored one.
HandlerInv ==
  \A c \in Conn :
    LET r == handler[c].run
        n == handler[c].seq
    IN /\ handler[c].stage # "idle" => n <= Len(log[r])
       /\ handler[c].stage \in {"persisted", "accepted"} => journal[r][n] # "none"
       /\ handler[c].stage = "accepted" => log[r][n] = "run.accepted"

\* What is stored under a number is what the Agent reported under it.
JournalInv ==
  \A r \in Run, n \in Sequence :
    journal[r][n] # "none" => n <= Len(log[r]) /\ journal[r][n] = EventOf(r, n)

\* An acknowledgement on its way is of a stored event.
QueueInv ==
  \A c \in Conn : \A i \in 1 .. Len(queue[c]) :
    LET m == queue[c][i]
    IN  m.type = "durable_ack" => m.seq \in Sequence /\ journal[m.run][m.seq] # "none"

\* An acknowledgement the Agent holds is of a stored event.
AckInv == \A r \in Run : \A n \in acked[r] : journal[r][n] # "none"

CoreInv ==
  /\ TypeOK
  /\ DispatcherInv
  /\ LogInv
  /\ HandlerInv
  /\ JournalInv
  /\ QueueInv
  /\ AckInv

\* Calls on Redis and PostgreSQL succeed, and the Agent does not wait for acks.
Undisturbed == regime.pipelined /\ regime.faults \cap {"redis", "postgres"} = {}

\* In orderly circumstances everything before an event in hand is stored.
ReceivedInv ==
  Orderly =>
    \A c \in Conn : handler[c].stage = "received" =>
      \A m \in 1 .. handler[c].seq - 1 : journal[handler[c].run][m] # "none"

\* Without failing calls the stream is a prefix that contains the journal and
\* the events in hand.
StreamInv ==
  Undisturbed =>
    /\ \A r \in Run : \A n \in stream[r] : \A m \in 1 .. n : m \in stream[r]
    /\ \A r \in Run, n \in Sequence : journal[r][n] # "none" => n \in stream[r]
    /\ \A c \in Conn : handler[c].stage = "received" =>
         handler[c].seq \in stream[handler[c].run]

\* Without failing calls, of the events sent on the connection in use only the
\* one in the hands of its handler may not be stored yet.
CursorInv ==
  Undisturbed =>
    \A c \in Conn : Current(c) =>
      \A r \in Run : \A m \in 1 .. cursor[r] :
        \/ journal[r][m] # "none"
        \/ handler[c] = [stage |-> "received", run |-> r, seq |-> m]

OrderInv ==
  /\ JournalIsPrefix
  /\ ReceivedInv
  /\ StreamInv
  /\ CursorInv

DeliveryInv ==
  /\ CoreInv
  /\ DeliveredStartWasAccepted
  /\ OrderInv

-----------------------------------------------------------------------------
(* The type invariant, variable by variable.                               *)

\* The types of all variables but the store's.
RelayTypes ==
  /\ stream \in [Run -> SUBSET Sequence]
  /\ conn \in [Conn -> {"unused", "open", "closed"}]
  /\ peer \in Conn \cup {0}
  /\ queue \in [Conn -> Seq(Message)]
  /\ handler \in [Conn -> {Idle} \cup
       [stage : {"received", "persisted", "accepted"}, run : Run, seq : Sequence]]
  /\ dispatcher \in {NoRound} \cup
       [stage : {"sending"}, peer : Conn,
        batch : (SUBSET Store!Command) \ {{}}, cmd : {Null}] \cup
       [stage : {"marking", "releasing"}, peer : Conn,
        batch : (SUBSET Store!Command) \ {{}}, cmd : Store!Command]
  /\ log \in [Run -> Seq(AgentEvent)]
  /\ \A r \in Run : Len(log[r]) <= MaxSequence
  /\ acked \in [Run -> SUBSET Sequence]
  /\ cursor \in [Run -> 0 .. MaxSequence]
  /\ regime \in Regimes

\* The types of the variables, one by one, from the inductive invariant.
LEMMA TypesOf == CoreInv => RelayTypes /\ Store!TypeOK
  BY DEF CoreInv, TypeOK, RelayTypes

LEMMA JournalType ==
  ASSUME CoreInv
  PROVE  journal \in [Run -> [Sequence -> Store!EventType \cup {"none"}]]
  BY TypesOf DEF Store!TypeOK

LEMMA OutboxType ==
  ASSUME CoreInv
  PROVE  outbox \in [Store!Command -> Store!CommandRow]
  BY TypesOf DEF Store!TypeOK

LEMMA RegimeType ==
  ASSUME CoreInv
  PROVE  /\ regime \in Regimes
         /\ regime.cancelled \subseteq Run
  <1>1. regime \in Regimes
    BY TypesOf DEF RelayTypes
  <1> QED BY <1>1, DeliveryAssumption

LEMMA LogType ==
  ASSUME CoreInv
  PROVE  /\ log \in [Run -> Seq(AgentEvent)]
         /\ \A r \in Run : Len(log[r]) \in Nat /\ Len(log[r]) <= MaxSequence
  <1>1. log \in [Run -> Seq(AgentEvent)] /\ \A r \in Run : Len(log[r]) <= MaxSequence
    BY TypesOf DEF RelayTypes
  <1> QED BY <1>1

LEMMA QueueType ==
  ASSUME CoreInv
  PROVE  queue \in [Conn -> Seq(Message)]
  BY TypesOf DEF RelayTypes

LEMMA HandlerType ==
  ASSUME CoreInv
  PROVE  handler \in [Conn -> {Idle} \cup
           [stage : {"received", "persisted", "accepted"}, run : Run, seq : Sequence]]
  BY TypesOf DEF RelayTypes

LEMMA StreamType ==
  ASSUME CoreInv
  PROVE  stream \in [Run -> SUBSET Sequence] /\ acked \in [Run -> SUBSET Sequence]
  BY TypesOf DEF RelayTypes

LEMMA ConnType ==
  ASSUME CoreInv
  PROVE  conn \in [Conn -> {"unused", "open", "closed"}]
  BY TypesOf DEF RelayTypes

LEMMA CursorType ==
  ASSUME CoreInv
  PROVE  cursor \in [Run -> 0 .. MaxSequence]
  BY TypesOf DEF RelayTypes

LEMMA RoundType ==
  ASSUME CoreInv
  PROVE  dispatcher \in {NoRound} \cup
           [stage : {"sending"}, peer : Conn,
            batch : (SUBSET Store!Command) \ {{}}, cmd : {Null}] \cup
           [stage : {"marking", "releasing"}, peer : Conn,
            batch : (SUBSET Store!Command) \ {{}}, cmd : Store!Command]
  BY TypesOf DEF RelayTypes

-----------------------------------------------------------------------------
(* The store is used as RunStore allows.                                   *)

\* A handler that is busy has an event of its run in hand.
LEMMA Busy ==
  ASSUME CoreInv, NEW c \in Conn, handler[c].stage # "idle"
  PROVE  /\ handler[c].run \in Run /\ handler[c].seq \in Sequence
         /\ handler[c].seq \in 1 .. Len(log[handler[c].run])
         /\ log[handler[c].run][handler[c].seq] \in AgentEvent
         /\ EventOf(handler[c].run, handler[c].seq) \in Store!EventType
         /\ ThreadOf(handler[c].run) \in Run
  <1>1. handler[c].run \in Run /\ handler[c].seq \in Sequence
    BY HandlerType DEF Idle
  <1>2. handler[c].seq \in 1 .. Len(log[handler[c].run])
    <2>1. handler[c].seq <= Len(log[handler[c].run])
      BY DEF CoreInv, HandlerInv
    <2>2. handler[c].seq \in Nat \ {0} /\ Len(log[handler[c].run]) \in Nat
      BY <1>1, LogType, Numbers, Zenon
    <2> QED BY <2>1, <2>2
  <1>3. log[handler[c].run][handler[c].seq] \in AgentEvent
    BY <1>1, <1>2, LogType
  <1>4. EventOf(handler[c].run, handler[c].seq) \in Store!EventType
    BY <1>3 DEF EventOf, AgentEvent, Terminal, Store!EventType
  <1>5. ThreadOf(handler[c].run) \in Run
    <2>1. Store!Start(handler[c].run) \in Store!Command
      BY <1>1 DEF Store!Start, Store!Command
    <2>2. outbox[Store!Start(handler[c].run)].thread \in Run \cup {Null}
      BY <2>1, OutboxType DEF Store!CommandRow
    <2> QED BY <1>1, <2>2 DEF ThreadOf
  <1> QED BY <1>1, <1>2, <1>3, <1>4, <1>5

\* While a round settles a command, that command is one of the outbox.
LEMMA Settling ==
  ASSUME CoreInv, dispatcher.stage \in {"marking", "releasing"}
  PROVE  dispatcher.cmd \in Store!Command
  BY RoundType DEF NoRound

\* Every step of the delivery is one transaction of the store, or none.
LEMMA StoreStep ==
  ASSUME CoreInv, [Next]_vars
  PROVE  [Store!Next]_storeVars
  <1> USE DEF storeVars
  <1>1. CASE CreateRun
    BY <1>1, Zenon DEF CreateRun, Store!Next
  <1>2. CASE RequestCancel
    BY <1>2, RegimeType, Zenon DEF RequestCancel, Store!Next
  <1>3. CASE Claim \/ ClaimFails
    BY <1>3, Zenon DEF Claim, ClaimFails, Store!Next
  <1>4. CASE MarkCancel \/ MarkCancelFails \/ Release
    BY <1>4, Settling DEF MarkCancel, MarkCancelFails, Release, Store!Next
  <1>5. ASSUME NEW c \in Store!Command, ComesDue(c)
        PROVE  Store!Next
    BY <1>5, Zenon DEF ComesDue, Store!Next
  <1>6. ASSUME NEW c \in Conn, Persist(c) \/ PersistFails(c)
        PROVE  Store!Next \/ UNCHANGED storeVars
    <2>1. handler[c].stage # "idle"
      BY <1>6 DEF Persist, PersistFails
    <2> QED BY <1>6, <2>1, Busy, Zenon DEF Persist, PersistFails, Store!Next
  <1>7. ASSUME NEW c \in Conn, MarkAccepted(c)
        PROVE  Store!Next
    <2>1. handler[c].run \in Run
      BY <1>7, Busy DEF MarkAccepted
    <2>2. Store!Start(handler[c].run) \in Store!Command
      BY <2>1 DEF Store!Start, Store!Command
    <2> QED BY <1>7, <2>2, Zenon DEF MarkAccepted, Store!Next
  <1>8. CASE Crash \/ ReleaseFails
    BY <1>8 DEF Crash, ReleaseFails
  <1>9. ASSUME NEW c \in Conn,
               \/ Connect(c) \/ Break(c) \/ Unregister(c)
               \/ AckEvent(c) \/ MarkAcceptedFails(c) \/ AgentReceive(c)
        PROVE  UNCHANGED storeVars
    BY <1>9, Zenon DEF Connect, Break, Unregister, AckEvent, MarkAcceptedFails, AgentReceive
  <1>10. ASSUME NEW c \in Store!Command, SendOk(c) \/ SendFails(c)
         PROVE  UNCHANGED storeVars
    BY <1>10 DEF SendOk, SendFails
  <1>11. ASSUME NEW c \in Conn, NEW r \in Run, NEW n \in Sequence,
                ReceiveEvent(c, r, n) \/ ReceiveFails(c, r, n)
         PROVE  UNCHANGED storeVars
    BY <1>11 DEF ReceiveEvent, ReceiveFails
  <1>12. ASSUME NEW r \in Run, AgentProgress(r) \/ AgentReplay(r)
         PROVE  UNCHANGED storeVars
    BY <1>12 DEF AgentProgress, AgentReplay
  <1>13. CASE UNCHANGED vars
    BY <1>13 DEF vars
  <1> QED BY <1>1, <1>2, <1>3, <1>4, <1>5, <1>6, <1>7, <1>8, <1>9, <1>10, <1>11,
             <1>12, <1>13, Zenon DEF Next

-----------------------------------------------------------------------------
(* Types.                                                                  *)

\* The messages to the Agent have the type of messages.
LEMMA MessageTypes ==
  ASSUME CoreInv
  PROVE  /\ \A c \in Store!Command : CommandMessage(c) \in Message
         /\ \A r \in Run, n \in Sequence : DurableAck(r, n) \in Message
  <1>1. \A c \in Store!Command : CommandMessage(c) \in Message
    <2> SUFFICES ASSUME NEW c \in Store!Command PROVE CommandMessage(c) \in Message
      OBVIOUS
    <2>1. c[2] \in Run
      BY DEF Store!Command
    <2>2. outbox[c].thread \in Run \cup {Null} /\ outbox[c].turn \in Run \cup {Null}
      BY OutboxType DEF Store!CommandRow
    <2>3. 0 \in 0 .. MaxSequence
      BY DeliveryAssumption
    <2> QED BY <2>1, <2>2, <2>3 DEF CommandMessage, Message
  <1>2. \A r \in Run, n \in Sequence : DurableAck(r, n) \in Message
    BY DeliveryAssumption DEF DurableAck, Message, Sequence
  <1> QED BY <1>1, <1>2

\* The round after a command is dealt with is a round.
LEMMA AdvanceType ==
  ASSUME CoreInv, dispatcher.stage # "idle", NEW c \in dispatcher.batch, Advance(c)
  PROVE  /\ dispatcher' \in {NoRound} \cup
              [stage : {"sending"}, peer : Conn,
               batch : (SUBSET Store!Command) \ {{}}, cmd : {Null}]
  <1>1. dispatcher \in [stage : {"sending", "marking", "releasing"}, peer : Conn,
                        batch : SUBSET Store!Command, cmd : Store!Command \cup {Null}]
    BY RoundType DEF NoRound
  <1>2. CASE dispatcher.batch = {c}
    BY <1>2 DEF Advance
  <1>3. CASE dispatcher.batch # {c}
    <2>1. dispatcher.batch \ {c} \in (SUBSET Store!Command) \ {{}}
      <3>1. \E d \in dispatcher.batch : d # c
        BY <1>3, Zenon
      <3>2. dispatcher.batch \ {c} # {}
        BY <3>1, Zenon
      <3>3. dispatcher.batch \in SUBSET Store!Command
        BY <1>1
      <3> QED BY <3>2, <3>3, Zenon
    <2>2. ASSUME NEW d \in [stage : {"sending", "marking", "releasing"}, peer : Conn,
                            batch : SUBSET Store!Command, cmd : Store!Command \cup {Null}],
                 NEW B \in (SUBSET Store!Command) \ {{}}
          PROVE  [d EXCEPT !.stage = "sending", !.batch = B, !.cmd = Null] \in
                   [stage : {"sending"}, peer : Conn,
                    batch : (SUBSET Store!Command) \ {{}}, cmd : {Null}]
      BY Zenon
    <2> QED BY <1>1, <1>3, <2>1, <2>2, Zenon DEF Advance
  <1> QED BY <1>2, <1>3

\* A queue with room takes a message; a queue that is read loses its first.
LEMMA QueueTypes ==
  ASSUME CoreInv, NEW c \in Conn
  PROVE  /\ \A m \in Message : [queue EXCEPT ![c] = Append(@, m)] \in [Conn -> Seq(Message)]
         /\ queue[c] # <<>> => [queue EXCEPT ![c] = Tail(@)] \in [Conn -> Seq(Message)]
  BY QueueType

\* A handler takes an event, moves on with it, or is done with it.
LEMMA HandlerTypes ==
  ASSUME CoreInv, NEW c \in Conn, NEW st \in {"persisted", "accepted"}
  PROVE  /\ [handler EXCEPT ![c] = Idle] \in [Conn -> {Idle} \cup
              [stage : {"received", "persisted", "accepted"}, run : Run, seq : Sequence]]
         /\ handler[c].stage # "idle" =>
              [handler EXCEPT ![c] = [handler[c] EXCEPT !.stage = st]] \in [Conn -> {Idle} \cup
                [stage : {"received", "persisted", "accepted"}, run : Run, seq : Sequence]]
  <1>1. handler[c].stage # "idle" => handler[c] \in
          [stage : {"received", "persisted", "accepted"}, run : Run, seq : Sequence]
    BY HandlerType DEF Idle
  <1>2. ASSUME NEW o \in
          [stage : {"received", "persisted", "accepted"}, run : Run, seq : Sequence]
        PROVE  [o EXCEPT !.stage = st] \in
          [stage : {"received", "persisted", "accepted"}, run : Run, seq : Sequence]
    OBVIOUS
  <1>3. handler[c].stage # "idle" => [handler[c] EXCEPT !.stage = st] \in
          [stage : {"received", "persisted", "accepted"}, run : Run, seq : Sequence]
    BY <1>1, <1>2
  <1> QED BY <1>3, HandlerType

\* A log grows by one event.
LEMMA LogTypes ==
  ASSUME NEW l \in Seq(AgentEvent), NEW e \in AgentEvent
  PROVE  Append(l, e) \in Seq(AgentEvent) /\ Len(Append(l, e)) = Len(l) + 1
  OBVIOUS

\* The message the Agent reads.
LEMMA FirstMessage ==
  ASSUME CoreInv, NEW c \in Conn, queue[c] # <<>>
  PROVE  /\ Head(queue[c]) = queue[c][1] /\ 1 \in 1 .. Len(queue[c])
         /\ Head(queue[c]) \in Message
  <1>1. queue[c] \in Seq(Message)
    BY QueueType
  <1> QED BY <1>1

\* Every step keeps the types.
LEMMA TypeStep ==
  ASSUME CoreInv, Next
  PROVE  RelayTypes' /\ DispatcherInv'
  <1>0. RelayTypes /\ DispatcherInv
    BY TypesOf DEF CoreInv
  <1>1. CASE CreateRun \/ RequestCancel \/ ClaimFails
    BY <1>0, <1>1 DEF RelayTypes, DispatcherInv, relayVars, agentVars,
       CreateRun, RequestCancel, ClaimFails
  <1>2. ASSUME NEW c \in Store!Command, ComesDue(c)
        PROVE  RelayTypes' /\ DispatcherInv'
    BY <1>0, <1>2 DEF RelayTypes, DispatcherInv, relayVars, agentVars, ComesDue
  <1>3. ASSUME NEW c \in Conn, Connect(c)
        PROVE  RelayTypes' /\ DispatcherInv'
    BY <1>0, <1>3, DeliveryAssumption DEF RelayTypes, DispatcherInv, Connect
  <1>4. ASSUME NEW c \in Conn, Break(c)
        PROVE  RelayTypes' /\ DispatcherInv'
    BY <1>0, <1>4 DEF RelayTypes, DispatcherInv, agentVars, Break
  <1>5. ASSUME NEW c \in Conn, Unregister(c)
        PROVE  RelayTypes' /\ DispatcherInv'
    BY <1>0, <1>5 DEF RelayTypes, DispatcherInv, agentVars, Unregister
  <1>6. CASE Crash
    BY <1>0, <1>6 DEF RelayTypes, DispatcherInv, agentVars, Crash, NoRound
  <1>7. CASE Claim
    <2>1. peer \in Conn
      BY <1>0, <1>7 DEF RelayTypes, Claim
    <2>2. PICK B \in SUBSET Store!Command :
            /\ B # {}
            /\ dispatcher' = [stage |-> "sending", peer |-> peer, batch |-> B, cmd |-> Null]
      BY <1>7, Zenon DEF Claim, Store!ClaimCommands
    <2>3. /\ dispatcher' \in [stage : {"sending"}, peer : Conn,
                              batch : (SUBSET Store!Command) \ {{}}, cmd : {Null}]
          /\ DispatcherInv'
      <3>1. B \in (SUBSET Store!Command) \ {{}}
        BY <2>2, Zenon
      <3> QED BY <2>1, <2>2, <3>1 DEF DispatcherInv
    <2> QED BY <1>0, <1>7, <2>3 DEF RelayTypes, agentVars, Claim
  <1>8. ASSUME NEW c \in Store!Command, SendOk(c)
        PROVE  RelayTypes' /\ DispatcherInv'
    <2>1. c \in dispatcher.batch /\ dispatcher.stage = "sending"
      BY <1>8 DEF SendOk, NextInRound
    <2>2. dispatcher \in [stage : {"sending"}, peer : Conn,
                          batch : (SUBSET Store!Command) \ {{}}, cmd : {Null}]
      BY <2>1, RoundType DEF NoRound
    <2>3. queue' \in [Conn -> Seq(Message)]
      <3>1. dispatcher.peer \in Conn /\ CommandMessage(c) \in Message
        BY <2>2, MessageTypes
      <3>2. \/ queue' = queue
            \/ queue' = [queue EXCEPT ![dispatcher.peer] = Append(@, CommandMessage(c))]
        BY <1>8, Zenon DEF SendOk
      <3>3. [queue EXCEPT ![dispatcher.peer] = Append(@, CommandMessage(c))]
              \in [Conn -> Seq(Message)]
        BY <3>1, QueueTypes, Zenon
      <3> QED BY QueueType, <3>2, <3>3, Zenon
    <2>4. CASE c[1] = "run.start"
      <3>1. Advance(c)
        BY <1>8, <2>4 DEF SendOk
      <3>2. DispatcherInv'
        BY <2>1, <3>1, AdvanceType DEF DispatcherInv, NoRound
      <3> QED BY <1>0, <1>8, <2>1, <2>3, <3>1, <3>2, AdvanceType DEF RelayTypes, agentVars, SendOk
    <2>5. CASE c[1] # "run.start"
      <3>1. dispatcher' = [dispatcher EXCEPT !.stage = "marking", !.cmd = c]
        BY <1>8, <2>5 DEF SendOk
      <3>2. /\ dispatcher' \in [stage : {"marking", "releasing"}, peer : Conn,
                 batch : (SUBSET Store!Command) \ {{}}, cmd : Store!Command]
            /\ dispatcher'.cmd = c /\ dispatcher'.batch = dispatcher.batch
        BY <2>2, <3>1, Zenon
      <3> QED BY <1>0, <1>8, <2>1, <2>3, <2>5, <3>2 DEF RelayTypes, DispatcherInv, agentVars, SendOk
    <2> QED BY <2>4, <2>5
  <1>9. ASSUME NEW c \in Store!Command, SendFails(c)
        PROVE  RelayTypes' /\ DispatcherInv'
    <2>1. c \in dispatcher.batch /\ dispatcher.stage = "sending"
      BY <1>9 DEF SendFails, NextInRound
    <2>2. dispatcher \in [stage : {"sending"}, peer : Conn,
                          batch : (SUBSET Store!Command) \ {{}}, cmd : {Null}]
      BY <2>1, RoundType DEF NoRound
    <2>3. /\ dispatcher' \in [stage : {"marking", "releasing"}, peer : Conn,
               batch : (SUBSET Store!Command) \ {{}}, cmd : Store!Command]
          /\ dispatcher'.cmd = c /\ dispatcher'.batch = dispatcher.batch
          /\ dispatcher'.stage = "releasing"
      BY <1>9, <2>2, Zenon DEF SendFails
    <2> QED BY <1>0, <1>9, <2>1, <2>3 DEF RelayTypes, DispatcherInv, agentVars, SendFails
  <1>10. CASE MarkCancel \/ Release \/ ReleaseFails
    <2>1. /\ dispatcher.cmd \in dispatcher.batch /\ dispatcher.stage # "idle"
          /\ Advance(dispatcher.cmd)
      BY <1>0, <1>10 DEF MarkCancel, Release, ReleaseFails, DispatcherInv
    <2>2. DispatcherInv'
      BY <2>1, AdvanceType DEF DispatcherInv, NoRound
    <2> QED BY <1>0, <1>10, <2>1, <2>2, AdvanceType
            DEF RelayTypes, agentVars, MarkCancel, Release, ReleaseFails
  <1>11. CASE MarkCancelFails
    <2>1. dispatcher \in [stage : {"marking", "releasing"}, peer : Conn,
            batch : (SUBSET Store!Command) \ {{}}, cmd : Store!Command]
      BY <1>11, RoundType DEF MarkCancelFails, NoRound
    <2>2. /\ dispatcher' \in [stage : {"marking", "releasing"}, peer : Conn,
               batch : (SUBSET Store!Command) \ {{}}, cmd : Store!Command]
          /\ dispatcher'.cmd = dispatcher.cmd /\ dispatcher'.batch = dispatcher.batch
          /\ dispatcher'.stage = "releasing"
      BY <1>11, <2>1 DEF MarkCancelFails
    <2> QED BY <1>0, <1>11, <2>2, Zenon DEF RelayTypes, DispatcherInv, agentVars, MarkCancelFails
  <1>12. ASSUME NEW c \in Conn, NEW r \in Run, NEW n \in Sequence, ReceiveEvent(c, r, n)
         PROVE  RelayTypes' /\ DispatcherInv'
    <2>1. cursor' \in [Run -> 0 .. MaxSequence]
      BY <1>12, CursorType, DeliveryAssumption DEF ReceiveEvent, Sequence
    <2>2. stream' \in [Run -> SUBSET Sequence]
      BY <1>12, StreamType DEF ReceiveEvent
    <2>3. handler' \in [Conn -> {Idle} \cup
            [stage : {"received", "persisted", "accepted"}, run : Run, seq : Sequence]]
      BY <1>12, HandlerType DEF ReceiveEvent, StageOnReceipt
    <2> QED BY <1>0, <1>12, <2>1, <2>2, <2>3 DEF RelayTypes, DispatcherInv, ReceiveEvent
  <1>13. ASSUME NEW c \in Conn, NEW r \in Run, NEW n \in Sequence, ReceiveFails(c, r, n)
         PROVE  RelayTypes' /\ DispatcherInv'
    <2>1. cursor' \in [Run -> 0 .. MaxSequence]
      BY <1>13, CursorType, DeliveryAssumption DEF ReceiveFails, Sequence
    <2> QED BY <1>0, <1>13, <2>1 DEF RelayTypes, DispatcherInv, relayVars, ReceiveFails
  <1>14. ASSUME NEW c \in Conn,
                \/ Persist(c) \/ PersistFails(c) \/ MarkAccepted(c) \/ MarkAcceptedFails(c)
         PROVE  RelayTypes' /\ DispatcherInv'
    <2>1. handler' \in [Conn -> {Idle} \cup
            [stage : {"received", "persisted", "accepted"}, run : Run, seq : Sequence]]
      <3>1. handler[c].stage # "idle"
        BY <1>14 DEF Persist, PersistFails, MarkAccepted, MarkAcceptedFails
      <3>2. \/ handler' = [handler EXCEPT ![c] = Idle]
            \/ handler' = [handler EXCEPT ![c] = [handler[c] EXCEPT !.stage = "persisted"]]
        BY <1>14 DEF Persist, PersistFails, MarkAccepted, MarkAcceptedFails
      <3>3. [handler EXCEPT ![c] = Idle] \in [Conn -> {Idle} \cup
              [stage : {"received", "persisted", "accepted"}, run : Run, seq : Sequence]]
        BY HandlerTypes, Zenon
      <3>4. [handler EXCEPT ![c] = [handler[c] EXCEPT !.stage = "persisted"]]
              \in [Conn -> {Idle} \cup
                [stage : {"received", "persisted", "accepted"}, run : Run, seq : Sequence]]
        BY <3>1, HandlerTypes, Zenon
      <3> QED BY <3>2, <3>3, <3>4, Zenon
    <2> QED BY <1>0, <1>14, <2>1 DEF RelayTypes, DispatcherInv, agentVars,
               Persist, PersistFails, MarkAccepted, MarkAcceptedFails
  <1>15. ASSUME NEW c \in Conn, AckEvent(c)
         PROVE  RelayTypes' /\ DispatcherInv'
    <2>1. handler' \in [Conn -> {Idle} \cup
            [stage : {"received", "persisted", "accepted"}, run : Run, seq : Sequence]]
      <3>1. handler[c].stage # "idle"
        BY <1>15 DEF AckEvent
      <3>2. \/ handler' = [handler EXCEPT ![c] = Idle]
            \/ handler' = [handler EXCEPT ![c] = [handler[c] EXCEPT !.stage = "accepted"]]
        BY <1>15, Zenon DEF AckEvent
      <3>3. [handler EXCEPT ![c] = Idle] \in [Conn -> {Idle} \cup
              [stage : {"received", "persisted", "accepted"}, run : Run, seq : Sequence]]
        BY HandlerTypes, Zenon
      <3>4. [handler EXCEPT ![c] = [handler[c] EXCEPT !.stage = "accepted"]]
              \in [Conn -> {Idle} \cup
                [stage : {"received", "persisted", "accepted"}, run : Run, seq : Sequence]]
        BY <3>1, HandlerTypes, Zenon
      <3> QED BY <3>2, <3>3, <3>4, Zenon
    <2>2. queue' \in [Conn -> Seq(Message)]
      <3>1. DurableAck(handler[c].run, handler[c].seq) \in Message
        BY <1>15, Busy, MessageTypes DEF AckEvent
      <3>2. \/ queue' = queue
            \/ queue' = [queue EXCEPT ![c] =
                           Append(@, DurableAck(handler[c].run, handler[c].seq))]
        BY <1>15, Zenon DEF AckEvent, sendAck
      <3>3. [queue EXCEPT ![c] = Append(@, DurableAck(handler[c].run, handler[c].seq))]
              \in [Conn -> Seq(Message)]
        BY <3>1, QueueTypes, Zenon
      <3> QED BY QueueType, <3>2, <3>3, Zenon
    <2> QED BY <1>0, <1>15, <2>1, <2>2 DEF RelayTypes, DispatcherInv, agentVars, AckEvent
  <1>16. ASSUME NEW c \in Conn, AgentReceive(c)
         PROVE  RelayTypes' /\ DispatcherInv'
    <2>1. queue[c] # <<>> /\ Head(queue[c]) \in Message
      BY <1>16, FirstMessage, Zenon DEF AgentReceive
    <2>2. queue' \in [Conn -> Seq(Message)]
      <3>1. queue' = [queue EXCEPT ![c] = Tail(@)]
        BY <1>16, Zenon DEF AgentReceive
      <3> QED BY <2>1, <3>1, QueueTypes
    <2>3. acked' \in [Run -> SUBSET Sequence]
      <3>1. Head(queue[c]).type = "durable_ack" => Head(queue[c]).seq \in Sequence
        BY <2>1, FirstMessage DEF CoreInv, QueueInv
      <3>2. Head(queue[c]).run \in Run
        BY <2>1 DEF Message
      <3>3. \/ acked' = acked
            \/ acked' = [acked EXCEPT ![Head(queue[c]).run] = @ \ {1}]
            \/ /\ Head(queue[c]).type = "durable_ack"
               /\ acked' = [acked EXCEPT ![Head(queue[c]).run] = @ \cup {Head(queue[c]).seq}]
        BY <1>16, Zenon DEF AgentReceive
      <3> QED BY <3>1, <3>2, <3>3, StreamType
    <2>4. \/ log' = log
          \/ \E r \in Run : log[r] = <<>> /\ \E e \in AgentEvent : log' = [log EXCEPT ![r] = <<e>>]
          \/ \E r \in Run : Running(r) /\ log' = [log EXCEPT ![r] = Append(@, "turn.interrupted")]
      <3>1. Head(queue[c]).run \in Run
        BY <2>1 DEF Message
      <3> QED BY <1>16, <3>1, Zenon DEF AgentReceive, AgentEvent, Terminal
    <2>5. log' \in [Run -> Seq(AgentEvent)] /\ \A r \in Run : Len(log'[r]) <= MaxSequence
      <3>1. CASE log' = log
        BY <3>1, LogType
      <3>2. ASSUME NEW r \in Run, NEW e \in AgentEvent, log' = [log EXCEPT ![r] = <<e>>]
            PROVE  /\ log' \in [Run -> Seq(AgentEvent)]
                   /\ \A q \in Run : Len(log'[q]) <= MaxSequence
        BY <3>2, LogType, DeliveryAssumption
      <3>3. ASSUME NEW r \in Run, Running(r),
                   log' = [log EXCEPT ![r] = Append(@, "turn.interrupted")]
            PROVE  /\ log' \in [Run -> Seq(AgentEvent)]
                   /\ \A q \in Run : Len(log'[q]) <= MaxSequence
        <4>1. Len(log[r]) + 1 <= MaxSequence
          BY <3>3, RegimeType, LogType, DeliveryAssumption DEF CoreInv, LogInv
        <4>2. "turn.interrupted" \in AgentEvent
          BY DEF AgentEvent, Terminal
        <4> QED BY <3>3, <4>1, <4>2, LogType, LogTypes
      <3> QED BY <2>4, <3>1, <3>2, <3>3
    <2>6. UNCHANGED <<stream, conn, peer, handler, dispatcher, cursor, regime>>
      BY <1>16, Zenon DEF AgentReceive
    <2> QED BY <1>0, <2>2, <2>3, <2>5, <2>6 DEF RelayTypes, DispatcherInv
  <1>17. ASSUME NEW r \in Run, AgentProgress(r)
         PROVE  RelayTypes' /\ DispatcherInv'
    <2>1. PICK e \in AgentEvent : log' = [log EXCEPT ![r] = Append(@, e)]
      BY <1>17, Zenon DEF AgentProgress
    <2>2. Len(log[r]) + 1 <= MaxSequence
      BY <1>17, RegimeType, LogType, DeliveryAssumption DEF AgentProgress
    <2>3. log' \in [Run -> Seq(AgentEvent)] /\ \A q \in Run : Len(log'[q]) <= MaxSequence
      BY <2>1, <2>2, LogType, LogTypes
    <2> QED BY <1>0, <1>17, <2>3 DEF RelayTypes, DispatcherInv, relayVars, AgentProgress
  <1>18. ASSUME NEW r \in Run, AgentReplay(r)
         PROVE  RelayTypes' /\ DispatcherInv'
    <2>1. cursor' \in [Run -> 0 .. MaxSequence]
      BY <1>0, <1>18, DeliveryAssumption DEF RelayTypes, AgentReplay
    <2> QED BY <1>0, <1>18, <2>1, Zenon DEF RelayTypes, DispatcherInv, relayVars, AgentReplay
  <1> QED BY <1>1, <1>2, <1>3, <1>4, <1>5, <1>6, <1>7, <1>8, <1>9, <1>10, <1>11,
             <1>12, <1>13, <1>14, <1>15, <1>16, <1>17, <1>18, Zenon DEF Next

\* What TypeStep says of the variables after a step.
LEMMA TypesAfter ==
  ASSUME CoreInv, Next
  PROVE  /\ \A r \in Run : Len(log'[r]) \in Nat /\ Len(log'[r]) <= MaxSequence
         /\ acked' \in [Run -> SUBSET Sequence]
         /\ cursor' \in [Run -> 0 .. MaxSequence]
         /\ queue' \in [Conn -> Seq(Message)]
         /\ \A c \in Conn : handler'[c].stage # "idle" =>
              handler'[c].run \in Run /\ handler'[c].seq \in Sequence
  <1>1. /\ log' \in [Run -> Seq(AgentEvent)]
        /\ \A r \in Run : Len(log'[r]) <= MaxSequence
        /\ acked' \in [Run -> SUBSET Sequence]
        /\ cursor' \in [Run -> 0 .. MaxSequence]
        /\ queue' \in [Conn -> Seq(Message)]
        /\ handler' \in [Conn -> {Idle} \cup
             [stage : {"received", "persisted", "accepted"}, run : Run, seq : Sequence]]
    BY TypeStep DEF RelayTypes
  <1>2. \A r \in Run : Len(log'[r]) \in Nat
    BY <1>1
  <1>3. \A c \in Conn : handler'[c].stage # "idle" =>
          handler'[c].run \in Run /\ handler'[c].seq \in Sequence
    BY <1>1 DEF Idle
  <1> QED BY <1>1, <1>2, <1>3

-----------------------------------------------------------------------------
(* What a step does to the journal and to the log.                         *)

\* The journal is changed by Persist, or by a PersistFails whose commit was
\* made: the event in hand is stored under its number, which was free.
Stores(c) ==
  LET r == handler[c].run
      n == handler[c].seq
  IN /\ handler[c].stage = "received"
     /\ journal[r][n] = "none"
     /\ journal' = [journal EXCEPT ![r][n] = EventOf(r, n)]
     /\ UNCHANGED <<regime, stream, conn, queue, log, acked, cursor>>

\* The log is changed by the Agent: a run gets its next event.
Reports(r) ==
  \E e \in AgentEvent :
    /\ log' = [log EXCEPT ![r] = Append(@, e)]
    /\ e \in {"turn.started", "item"} => Len(log[r]) + 1 < regime.events
    /\ log[r] = <<>> \/ Last(r) \notin Terminal
    /\ UNCHANGED <<regime, journal, stream, conn, handler, acked, cursor>>

\* Persist and PersistFails store the event in hand, or leave the journal alone.
LEMMA PersistStores ==
  ASSUME NEW c \in Conn, Persist(c) \/ PersistFails(c)
  PROVE  Stores(c) \/ UNCHANGED journal
  BY Zenon DEF Persist, PersistFails, Stores, agentVars, storeVars,
     Store!AppendAgentEvent, Store!FirstCopy

\* AgentReceive and AgentProgress report an event, or leave the log alone.
LEMMA AgentReports ==
  ASSUME CoreInv
  PROVE  /\ \A c \in Conn : AgentReceive(c) => UNCHANGED log \/ \E r \in Run : Reports(r)
         /\ \A r \in Run : AgentProgress(r) => Reports(r)
  <1>1. ASSUME NEW c \in Conn, AgentReceive(c), ~ UNCHANGED log
        PROVE  \E r \in Run : Reports(r)
    <2> DEFINE r == Head(queue[c]).run
    <2>1. Head(queue[c]) \in Message
      BY <1>1, FirstMessage, Zenon DEF AgentReceive
    <2>2. r \in Run
      BY <2>1 DEF Message
    <2>3. \/ /\ log[r] = <<>>
             /\ \E e \in {"run.accepted", "turn.rejected"} : log' = [log EXCEPT ![r] = <<e>>]
             /\ UNCHANGED acked
          \/ /\ Running(r)
             /\ log' = [log EXCEPT ![r] = Append(@, "turn.interrupted")]
             /\ UNCHANGED acked
      BY <1>1, Zenon DEF AgentReceive
    <2>4. \A e : log[r] = <<>> => Append(log[r], e) = <<e>>
      OBVIOUS
    <2> HIDE DEF r
    <2>5. \E e \in {"run.accepted", "turn.rejected", "turn.interrupted"} :
             log' = [log EXCEPT ![r] = Append(@, e)] /\ UNCHANGED acked
      BY <2>3, <2>4, Zenon
    <2>8. log[r] = <<>> \/ Last(r) \notin Terminal
      BY <2>3 DEF Running, Terminal
    <2>6. UNCHANGED <<regime, journal, stream, conn, handler, cursor>>
      BY <1>1, Zenon DEF AgentReceive, storeVars
    <2>7. {"run.accepted", "turn.rejected", "turn.interrupted"} \subseteq AgentEvent
      BY DEF AgentEvent, Terminal
    <2> QED BY <2>2, <2>5, <2>6, <2>7, <2>8, Zenon DEF Reports
  <1>2. ASSUME NEW r \in Run, AgentProgress(r)
        PROVE  Reports(r)
    <2>1. Last(r) \notin Terminal
      BY <1>2 DEF AgentProgress, Running, Terminal
    <2> QED BY <1>2, <2>1, Zenon DEF AgentProgress, Reports, relayVars, storeVars
  <1> QED BY <1>1, <1>2

\* A step stores an event, reports an event, or does neither.
LEMMA JournalAndLog ==
  ASSUME CoreInv, Next
  PROVE  \/ \E c \in Conn : Stores(c)
         \/ \E r \in Run : Reports(r)
         \/ UNCHANGED <<journal, log>>
  <1> USE DEF storeVars, relayVars, agentVars
  <1>1. CASE CreateRun \/ RequestCancel \/ Claim \/ ClaimFails
    BY <1>1, Zenon DEF CreateRun, RequestCancel, Claim, ClaimFails,
       Store!CreateRun, Store!RequestCancel, Store!ClaimCommands
  <1>2. CASE MarkCancel \/ MarkCancelFails \/ Release \/ ReleaseFails \/ Crash
    BY <1>2 DEF MarkCancel, MarkCancelFails, Release, ReleaseFails, Crash,
       Store!MarkCommandDelivered, Store!ReleaseCommand
  <1>3. ASSUME NEW c \in Store!Command, SendOk(c) \/ SendFails(c) \/ ComesDue(c)
        PROVE  UNCHANGED <<journal, log>>
    BY <1>3 DEF SendOk, SendFails, ComesDue, Store!ComesDue
  <1>4. ASSUME NEW c \in Conn, Persist(c) \/ PersistFails(c)
        PROVE  Stores(c) \/ UNCHANGED <<journal, log>>
    BY <1>4, PersistStores DEF Persist, PersistFails
  <1>5. ASSUME NEW c \in Conn, Connect(c) \/ Break(c) \/ Unregister(c)
        PROVE  UNCHANGED <<journal, log>>
    BY <1>5 DEF Connect, Break, Unregister
  <1>6. ASSUME NEW c \in Conn, AckEvent(c) \/ MarkAccepted(c) \/ MarkAcceptedFails(c)
        PROVE  UNCHANGED <<journal, log>>
    BY <1>6 DEF AckEvent, MarkAccepted, MarkAcceptedFails, Store!MarkCommandDelivered
  <1>7. ASSUME NEW c \in Conn, NEW r \in Run, NEW n \in Sequence,
               ReceiveEvent(c, r, n) \/ ReceiveFails(c, r, n)
        PROVE  UNCHANGED <<journal, log>>
    BY <1>7 DEF ReceiveEvent, ReceiveFails
  <1>8. ASSUME NEW c \in Conn, AgentReceive(c)
        PROVE  (\E r \in Run : Reports(r)) \/ UNCHANGED <<journal, log>>
    BY <1>8, AgentReports, Zenon DEF AgentReceive
  <1>9. ASSUME NEW r \in Run, AgentProgress(r) \/ AgentReplay(r)
        PROVE  Reports(r) \/ UNCHANGED <<journal, log>>
    BY <1>9, AgentReports DEF AgentReplay
  <1> QED BY <1>1, <1>2, <1>3, <1>4, <1>5, <1>6, <1>7, <1>8, <1>9, Zenon DEF Next

\* A row of the journal stays, and so does an event of the log.
LEMMA NothingIsLost ==
  ASSUME CoreInv, Next
  PROVE  /\ \A r \in Run, n \in Sequence :
              journal[r][n] # "none" => journal'[r][n] = journal[r][n]
         /\ \A r \in Run : /\ Len(log[r]) <= Len(log'[r])
                           /\ \A n \in 1 .. Len(log[r]) : log'[r][n] = log[r][n]
  <1>1. ASSUME NEW c \in Conn, Stores(c)
        PROVE  /\ \A r \in Run, n \in Sequence :
                    journal[r][n] # "none" => journal'[r][n] = journal[r][n]
               /\ log' = log
    BY <1>1, Busy, JournalType DEF Stores
  <1>2. ASSUME NEW q \in Run, Reports(q)
        PROVE  /\ journal' = journal
               /\ \A r \in Run : /\ Len(log[r]) <= Len(log'[r])
                                 /\ \A n \in 1 .. Len(log[r]) : log'[r][n] = log[r][n]
    BY <1>2, LogType DEF Reports
  <1> QED BY <1>1, <1>2, LogType, JournalAndLog

\* The row that Stores adds is the one of the event in hand.
LEMMA StoresOnly ==
  ASSUME CoreInv, NEW c \in Conn, Stores(c), NEW r \in Run, NEW n \in Sequence,
         journal[r][n] = "none", journal'[r][n] # "none"
  PROVE  handler[c].run = r /\ handler[c].seq = n /\ handler[c].stage = "received"
  <1> DEFINE q == handler[c].run
             k == handler[c].seq
  <1>1. q \in Run /\ k \in Sequence /\ handler[c].stage = "received"
    BY Busy DEF Stores
  <1>2. journal' = [journal EXCEPT ![q][k] = EventOf(q, k)]
    BY DEF Stores
  <1> HIDE DEF q, k
  <1>3. r = q /\ n = k
    BY <1>1, <1>2, JournalType
  <1> QED BY <1>1, <1>3 DEF q, k

-----------------------------------------------------------------------------
(* The steps keep the rest of the invariant.                               *)

\* The regime of a behaviour is chosen once.
LEMMA RegimeStays == Next => regime' = regime
  BY Zenon DEF Next, CreateRun, RequestCancel, Connect, Break, Unregister, Crash, Claim,
     ClaimFails, MarkCancel, MarkCancelFails, Release, ReleaseFails, SendOk, SendFails,
     ComesDue, ReceiveEvent, ReceiveFails, Persist, PersistFails, AckEvent,
     MarkAccepted, MarkAcceptedFails, AgentReceive, AgentProgress, AgentReplay

\* What is stored is what was reported, and a run that goes on has room.
LEMMA JournalStep ==
  ASSUME CoreInv, Next
  PROVE  JournalInv' /\ LogInv'
  <1>1. regime' = regime
    BY RegimeStays
  <1>2. ASSUME NEW c \in Conn, Stores(c)
        PROVE  JournalInv' /\ LogInv'
    <2> DEFINE q == handler[c].run
               k == handler[c].seq
    <2>1. q \in Run /\ k \in Sequence /\ k <= Len(log[q])
      BY <1>2, Busy, LogType DEF Stores
    <2>2. journal' = [journal EXCEPT ![q][k] = EventOf(q, k)] /\ log' = log
      BY <1>2 DEF Stores
    <2> HIDE DEF q, k
    <2>3. \A r \in Run, n \in Sequence :
            \/ journal'[r][n] = journal[r][n]
            \/ r = q /\ n = k /\ journal'[r][n] = EventOf(q, k)
      BY <2>1, <2>2, JournalType
    <2>4. JournalInv'
      BY <2>1, <2>2, <2>3 DEF CoreInv, JournalInv, EventOf
    <2> QED BY <1>1, <2>2, <2>4 DEF CoreInv, LogInv, Running, Last
  <1>3. ASSUME NEW q \in Run, Reports(q)
        PROVE  JournalInv' /\ LogInv'
    <2>1. PICK e \in AgentEvent :
            /\ log' = [log EXCEPT ![q] = Append(@, e)]
            /\ e \in {"turn.started", "item"} => Len(log[q]) + 1 < regime.events
            /\ log[q] = <<>> \/ Last(q) \notin Terminal
            /\ journal' = journal
      BY <1>3, Zenon DEF Reports
    <2>2. JournalInv'
      <3> SUFFICES ASSUME NEW r \in Run, NEW n \in Sequence, journal[r][n] # "none"
                   PROVE  n <= Len(log'[r]) /\ journal[r][n] = EventOf(r, n)'
        BY <2>1 DEF JournalInv
      <3>1. n <= Len(log[r]) /\ journal[r][n] = EventOf(r, n)
        BY DEF CoreInv, JournalInv
      <3>2. n \in 1 .. Len(log[r]) /\ Len(log[r]) \in Nat
        BY <3>1, Numbers, LogType
      <3>3. Len(log[r]) <= Len(log'[r]) /\ log'[r][n] = log[r][n] /\ Len(log'[r]) \in Nat
        BY <3>2, NothingIsLost, TypesAfter
      <3> QED BY <3>1, <3>2, <3>3 DEF EventOf, Sequence
    <2>3. LogInv'
      <3> SUFFICES ASSUME NEW r \in Run
                   PROVE  /\ Running(r)' => Len(log'[r]) < regime.events
                          /\ \A n \in 1 .. Len(log'[r]) - 1 : log'[r][n] \notin Terminal
        BY <1>1 DEF LogInv
      <3>1. CASE r = q
        <4>1. log'[q] = Append(log[q], e) /\ log[q] \in Seq(AgentEvent)
          BY <2>1, LogType
        <4>2. Len(log'[q]) = Len(log[q]) + 1 /\ log'[q][Len(log'[q])] = e
          BY <4>1
        <4>3. Running(q)' => e \in {"turn.started", "item"}
          BY <4>2 DEF Running, Last
        <4>4. ASSUME NEW n \in 1 .. Len(log'[q]) - 1
              PROVE  log'[q][n] \notin Terminal
          <5>1. n \in 1 .. Len(log[q]) /\ log'[q][n] = log[q][n] /\ log[q] # <<>>
            BY <4>1, <4>2
          <5>2. CASE n = Len(log[q])
            BY <2>1, <5>1, <5>2 DEF Last
          <5>3. CASE n # Len(log[q])
            <6>1. n \in 1 .. Len(log[q]) - 1
              BY <4>1, <5>1, <5>3
            <6> QED BY <5>1, <6>1 DEF CoreInv, LogInv
          <5> QED BY <5>2, <5>3
        <4> QED BY <2>1, <3>1, <4>2, <4>3, <4>4
      <3>2. CASE r # q
        <4>1. log'[r] = log[r]
          BY <2>1, <3>2, LogType
        <4> QED BY <4>1 DEF CoreInv, LogInv, Running, Last
      <3> QED BY <3>1, <3>2
    <2> QED BY <2>2, <2>3
  <1>4. CASE UNCHANGED <<journal, log>>
    BY <1>1, <1>4 DEF CoreInv, JournalInv, LogInv, EventOf, Running, Last
  <1> QED BY <1>2, <1>3, <1>4, JournalAndLog

\* An event that is stored is not forgotten by the next step.
LEMMA StoredStays ==
  ASSUME CoreInv, Next, NEW r \in Run, NEW n \in Sequence, journal[r][n] # "none"
  PROVE  journal'[r][n] # "none"
  BY NothingIsLost

\* Only the Agent's reading changes what it holds for acknowledged.
LEMMA AckMoves ==
  ASSUME Next
  PROVE  acked' = acked \/ \E c \in Conn : AgentReceive(c)
  BY Zenon DEF Next, CreateRun, RequestCancel, Connect, Break, Unregister, Crash, Claim,
     ClaimFails, MarkCancel, MarkCancelFails, Release, ReleaseFails, SendOk, SendFails,
     ComesDue, ReceiveEvent, ReceiveFails, Persist, PersistFails, AckEvent,
     MarkAccepted, MarkAcceptedFails, AgentProgress, AgentReplay, agentVars

\* The Agent takes an acknowledgement for a stored event only.
LEMMA AckStep ==
  ASSUME CoreInv, Next
  PROVE  AckInv'
  <1> SUFFICES ASSUME NEW r \in Run, NEW n \in acked'[r] PROVE journal'[r][n] # "none"
    BY DEF AckInv
  <1>1. n \in Sequence
    BY TypesAfter
  <1>2. CASE n \in acked[r]
    BY <1>1, <1>2, StoredStays DEF CoreInv, AckInv
  <1>3. CASE n \notin acked[r]
    <2>1. acked'[r] # acked[r]
      BY <1>3
    <2>2. PICK c \in Conn : AgentReceive(c)
      BY <2>1, AckMoves
    <2> DEFINE m == Head(queue[c])
    <2>3. m = queue[c][1] /\ 1 \in 1 .. Len(queue[c]) /\ m \in Message
      BY <2>2, FirstMessage, Zenon DEF AgentReceive
    <2>4. m.run \in Run
      BY <2>3 DEF Message
    <2>5. \/ acked' = acked
          \/ acked' = [acked EXCEPT ![m.run] = @ \ {1}]
          \/ m.type = "durable_ack" /\ acked' = [acked EXCEPT ![m.run] = @ \cup {m.seq}]
      BY <2>2, Zenon DEF AgentReceive
    <2>6. m.type = "durable_ack" => journal[m.run][m.seq] # "none"
      BY <2>3 DEF CoreInv, QueueInv
    <2> HIDE DEF m
    <2>7. m.type = "durable_ack" /\ m.run = r /\ m.seq = n
      <3>1. acked \in [Run -> SUBSET Sequence]
        BY StreamType
      <3>2. acked' # [acked EXCEPT ![m.run] = @ \ {1}]
        BY <1>3, <2>4, <3>1
      <3>3. m.type = "durable_ack" /\ acked' = [acked EXCEPT ![m.run] = @ \cup {m.seq}]
        BY <1>3, <2>5, <3>2, Zenon
      <3> QED BY <1>3, <2>4, <3>1, <3>3
    <2> QED BY <1>1, <2>6, <2>7, StoredStays
  <1> QED BY <1>2, <1>3

\* A message in a queue was there before the step, or it is a command, or it
\* is the acknowledgement of a stored event.
LEMMA QueueEntries ==
  ASSUME CoreInv, Next, NEW c \in Conn, NEW i \in 1 .. Len(queue'[c])
  PROVE  \/ \E j \in 1 .. Len(queue[c]) : queue'[c][i] = queue[c][j]
         \/ \E x \in dispatcher.batch : queue'[c][i] = CommandMessage(x)
         \/ \E r \in Run, n \in Sequence :
              journal[r][n] # "none" /\ queue'[c][i] = DurableAck(r, n)
  <1>0. queue \in [Conn -> Seq(Message)] /\ queue' \in [Conn -> Seq(Message)]
    BY QueueType, TypesAfter
  <1> USE DEF storeVars, relayVars, agentVars
  <1>1. CASE queue' = queue
    BY <1>1
  <1>2. ~ Crash
    BY DEF Crash
  <1>3. ASSUME NEW d \in Conn, Connect(d) \/ Break(d)
        PROVE  queue'[c] \in {<<>>, queue[c]}
    BY <1>0, <1>3 DEF Connect, Break
  <1>4. ASSUME NEW d \in Conn, AgentReceive(d)
        PROVE  \E j \in 1 .. Len(queue[c]) : queue'[c][i] = queue[c][j]
    <2>1. queue[d] # <<>> /\ queue' = [queue EXCEPT ![d] = Tail(@)]
      BY <1>4, Zenon DEF AgentReceive
    <2>2. CASE c = d
      <3>1. queue[c] \in Seq(Message) /\ queue[c] # <<>> /\ queue'[c] = Tail(queue[c])
        BY <1>0, <2>1, <2>2
      <3>2. i + 1 \in 1 .. Len(queue[c]) /\ queue'[c][i] = queue[c][i + 1]
        BY <3>1
      <3> QED BY <3>2
    <2>3. CASE c # d
      BY <1>0, <2>1, <2>3
    <2> QED BY <2>2, <2>3
  <1>5. ASSUME NEW x \in Store!Command, SendOk(x)
        PROVE  \/ \E j \in 1 .. Len(queue[c]) : queue'[c][i] = queue[c][j]
               \/ \E y \in dispatcher.batch : queue'[c][i] = CommandMessage(y)
    <2> DEFINE m == CommandMessage(x)
    <2>1. x \in dispatcher.batch
      BY <1>5, Zenon DEF SendOk, NextInRound
    <2>2. \/ queue' = queue
          \/ queue' = [queue EXCEPT ![dispatcher.peer] = Append(@, m)]
      BY <1>5, Zenon DEF SendOk
    <2>3. queue'[c] = queue[c] \/ queue'[c] = Append(queue[c], m)
      BY <1>0, <2>2
    <2> HIDE DEF m
    <2>4. queue[c] \in Seq(Message)
      BY <1>0
    <2>5. queue'[c] = Append(queue[c], m) => queue'[c][i] = m \/ i \in 1 .. Len(queue[c])
      BY <2>4
    <2>6. ASSUME queue'[c] = Append(queue[c], m), i \in 1 .. Len(queue[c])
          PROVE  queue'[c][i] = queue[c][i]
      BY <2>4, <2>6
    <2>7. CASE queue'[c][i] = m
      BY <2>1, <2>7, Zenon DEF m
    <2> QED BY <2>3, <2>5, <2>6, <2>7
  <1>6. ASSUME NEW d \in Conn, AckEvent(d)
        PROVE  \/ \E j \in 1 .. Len(queue[c]) : queue'[c][i] = queue[c][j]
               \/ \E r \in Run, n \in Sequence :
                    journal[r][n] # "none" /\ queue'[c][i] = DurableAck(r, n)
    <2> DEFINE m == DurableAck(handler[d].run, handler[d].seq)
    <2>1. /\ handler[d].run \in Run /\ handler[d].seq \in Sequence
          /\ journal[handler[d].run][handler[d].seq] # "none"
      BY <1>6, Busy DEF CoreInv, AckEvent, HandlerInv
    <2>2. \/ queue' = queue
          \/ queue' = [queue EXCEPT ![d] = Append(@, m)]
      BY <1>6, Zenon DEF AckEvent, sendAck
    <2>3. queue'[c] = queue[c] \/ queue'[c] = Append(queue[c], m)
      BY <1>0, <2>2
    <2> HIDE DEF m
    <2>4. queue[c] \in Seq(Message)
      BY <1>0
    <2>5. queue'[c] = Append(queue[c], m) => queue'[c][i] = m \/ i \in 1 .. Len(queue[c])
      BY <2>4
    <2>6. ASSUME queue'[c] = Append(queue[c], m), i \in 1 .. Len(queue[c])
          PROVE  queue'[c][i] = queue[c][i]
      BY <2>4, <2>6
    <2>7. CASE queue'[c][i] = m
      BY <2>1, <2>7 DEF m
    <2> QED BY <2>3, <2>5, <2>6, <2>7
  <1>7. \/ queue' = queue
        \/ Crash
        \/ \E d \in Conn : Connect(d) \/ Break(d) \/ AgentReceive(d) \/ AckEvent(d)
        \/ \E x \in Store!Command : SendOk(x)
    BY Zenon DEF Next, CreateRun, RequestCancel, Unregister, Claim, ClaimFails, MarkCancel,
       MarkCancelFails, Release, ReleaseFails, SendFails, ComesDue, ReceiveEvent,
       ReceiveFails, Persist, PersistFails, MarkAccepted, MarkAcceptedFails,
       AgentProgress, AgentReplay
  <1> QED BY <1>1, <1>2, <1>3, <1>4, <1>5, <1>6, <1>7

\* An acknowledgement is sent for a stored event only.
LEMMA QueueStep ==
  ASSUME CoreInv, Next
  PROVE  QueueInv'
  <1> SUFFICES ASSUME NEW c \in Conn, NEW i \in 1 .. Len(queue'[c]),
                      queue'[c][i].type = "durable_ack"
               PROVE  /\ queue'[c][i].seq \in Sequence
                      /\ journal'[queue'[c][i].run][queue'[c][i].seq] # "none"
    BY DEF QueueInv
  <1>1. ASSUME NEW j \in 1 .. Len(queue[c]), queue'[c][i] = queue[c][j]
        PROVE  /\ queue'[c][i].seq \in Sequence
               /\ journal'[queue'[c][i].run][queue'[c][i].seq] # "none"
    <2>1. queue[c][j] \in Message
      BY QueueType
    <2>2. queue[c][j].run \in Run
      BY <2>1 DEF Message
    <2>3. queue[c][j].seq \in Sequence /\ journal[queue[c][j].run][queue[c][j].seq] # "none"
      BY <1>1 DEF CoreInv, QueueInv
    <2> QED BY <1>1, <2>2, <2>3, StoredStays
  <1>2. ASSUME NEW r \in Run, NEW n \in Sequence,
               journal[r][n] # "none", queue'[c][i] = DurableAck(r, n)
        PROVE  /\ queue'[c][i].seq \in Sequence
               /\ journal'[queue'[c][i].run][queue'[c][i].seq] # "none"
    BY <1>2, StoredStays DEF DurableAck
  <1>3. ASSUME NEW x \in dispatcher.batch, queue'[c][i] = CommandMessage(x)
        PROVE  FALSE
    <2>1. CommandMessage(x).type # "durable_ack"
      BY DEF CommandMessage
    <2> QED BY <1>3, <2>1
  <1> QED BY <1>1, <1>2, <1>3, QueueEntries

\* A step leaves a handler alone, ends its work, hands it an event of the log,
\* moves it on after the event is stored, or, after a run.accepted, once more.
LEMMA HandlerMoves ==
  ASSUME CoreInv, Next, NEW c \in Conn
  PROVE  \/ handler'[c] = handler[c]
         \/ handler'[c] = Idle
         \/ \E r \in Run, n \in Sequence :
              /\ ReceiveEvent(c, r, n)
              /\ handler'[c] = [stage |-> "received", run |-> r, seq |-> n]
         \/ /\ Persist(c)
            /\ handler'[c] = [handler[c] EXCEPT !.stage = "persisted"]
         \/ /\ AckEvent(c)
            /\ log[handler[c].run][handler[c].seq] = "run.accepted"
            /\ handler'[c] = [handler[c] EXCEPT !.stage = "accepted"]
  <1>0. handler = [d \in Conn |-> handler[d]]
    BY HandlerType
  <1>1. CASE handler' = handler
    BY <1>1
  <1>2. CASE Crash
    BY <1>2 DEF Crash
  <1>3. ASSUME NEW d \in Conn, NEW r \in Run, NEW n \in Sequence, ReceiveEvent(d, r, n)
        PROVE  \/ handler'[c] = handler[c]
               \/ d = c /\ handler'[c] = [stage |-> "received", run |-> r, seq |-> n]
    BY <1>0, <1>3 DEF ReceiveEvent, StageOnReceipt
  <1>4. ASSUME NEW d \in Conn, Persist(d)
        PROVE  \/ handler'[c] = handler[c]
               \/ d = c /\ handler'[c] = [handler[c] EXCEPT !.stage = "persisted"]
    BY <1>0, <1>4 DEF Persist
  <1>5. ASSUME NEW d \in Conn, AckEvent(d)
        PROVE  \/ handler'[c] = handler[c]
               \/ handler'[c] = Idle
               \/ /\ d = c
                  /\ log[handler[c].run][handler[c].seq] = "run.accepted"
                  /\ handler'[c] = [handler[c] EXCEPT !.stage = "accepted"]
    BY <1>0, <1>5 DEF AckEvent
  <1>6. ASSUME NEW d \in Conn, PersistFails(d) \/ MarkAccepted(d) \/ MarkAcceptedFails(d)
        PROVE  handler'[c] = handler[c] \/ handler'[c] = Idle
    BY <1>0, <1>6 DEF PersistFails, MarkAccepted, MarkAcceptedFails
  <1>7. \/ handler' = handler
        \/ Crash
        \/ \E d \in Conn, r \in Run, n \in Sequence : ReceiveEvent(d, r, n)
        \/ \E d \in Conn : \/ Persist(d) \/ AckEvent(d)
                           \/ PersistFails(d) \/ MarkAccepted(d) \/ MarkAcceptedFails(d)
    BY Zenon DEF Next, CreateRun, RequestCancel, Unregister, Claim, ClaimFails, MarkCancel,
       MarkCancelFails, Release, ReleaseFails, SendOk, SendFails, ComesDue, Connect, Break,
       ReceiveFails, AgentReceive, AgentProgress, AgentReplay, relayVars
  <1> QED BY <1>1, <1>2, <1>3, <1>4, <1>5, <1>6, <1>7

\* After Persist the event in hand is stored.
LEMMA PersistedIsStored ==
  ASSUME CoreInv, NEW c \in Conn, Persist(c)
  PROVE  journal'[handler[c].run][handler[c].seq] # "none"
  <1> DEFINE r == handler[c].run
             n == handler[c].seq
  <1>1. r \in Run /\ n \in Sequence /\ EventOf(r, n) \in Store!EventType
    BY Busy DEF CoreInv, Persist
  <1>2. \/ journal' = [journal EXCEPT ![r][n] = EventOf(r, n)]
        \/ journal' = journal /\ journal[r][n] # "none"
    BY Zenon DEF Persist, Store!AppendAgentEvent, storeVars
  <1>3. EventOf(r, n) # "none"
    BY <1>1 DEF Store!EventType
  <1> HIDE DEF r, n
  <1>4. journal'[r][n] # "none"
    BY <1>1, <1>2, <1>3, JournalType
  <1> QED BY <1>4 DEF r, n

\* A handler works on an event of the log, past Persist on a stored one.
LEMMA HandlerKept ==
  ASSUME CoreInv, Next
  PROVE  HandlerInv'
  <1> SUFFICES ASSUME NEW c \in Conn
               PROVE  LET r == handler'[c].run
                          n == handler'[c].seq
                      IN /\ handler'[c].stage # "idle" => n <= Len(log'[r])
                         /\ handler'[c].stage \in {"persisted", "accepted"} =>
                              journal'[r][n] # "none"
                         /\ handler'[c].stage = "accepted" => log'[r][n] = "run.accepted"
    BY DEF HandlerInv
  <1> DEFINE Good(h) ==
        /\ h.stage # "idle" => h.seq <= Len(log'[h.run])
        /\ h.stage \in {"persisted", "accepted"} => journal'[h.run][h.seq] # "none"
        /\ h.stage = "accepted" => log'[h.run][h.seq] = "run.accepted"
  <1> SUFFICES Good(handler'[c])
    OBVIOUS
  <1>0. ASSUME NEW r \in Run, NEW n \in Sequence, n <= Len(log[r])
        PROVE  n <= Len(log'[r]) /\ log'[r][n] = log[r][n]
    <2>1. n \in 1 .. Len(log[r]) /\ Len(log[r]) \in Nat /\ Len(log'[r]) \in Nat
      BY <1>0, Numbers, LogType, TypesAfter
    <2> QED BY <2>1, NothingIsLost
  <1>1. CASE handler'[c] = handler[c]
    <2>1. CASE handler[c].stage = "idle"
      BY <1>1, <2>1
    <2>2. CASE handler[c].stage # "idle"
      <3>1. handler[c].run \in Run /\ handler[c].seq \in Sequence
        BY <2>2, Busy, Zenon
      <3>2. /\ handler[c].seq <= Len(log[handler[c].run])
            /\ handler[c].stage \in {"persisted", "accepted"} =>
                 journal[handler[c].run][handler[c].seq] # "none"
            /\ handler[c].stage = "accepted" =>
                 log[handler[c].run][handler[c].seq] = "run.accepted"
        BY <2>2, Zenon DEF CoreInv, HandlerInv
      <3>3. journal[handler[c].run][handler[c].seq] # "none" =>
              journal'[handler[c].run][handler[c].seq] # "none"
        BY <3>1, StoredStays, Zenon
      <3> QED BY <1>0, <1>1, <3>1, <3>2, <3>3, Zenon
    <2> QED BY <2>1, <2>2
  <1>2. CASE handler'[c] = Idle
    <2>1. Idle.stage = "idle"
      BY DEF Idle
    <2> QED BY <1>2, <2>1
  <1>3. ASSUME NEW r \in Run, NEW n \in Sequence, ReceiveEvent(c, r, n),
               handler'[c] = [stage |-> "received", run |-> r, seq |-> n]
        PROVE  Good(handler'[c])
    <2>1. n <= Len(log[r])
      <3>1. NextToSend(r, n)
        BY <1>3, Zenon DEF ReceiveEvent
      <3>2. n \in 1 .. Len(log[r])
        BY <3>1, Zenon DEF NextToSend, Unsent
      <3> QED BY <3>2, LogType
    <2>2. n <= Len(log'[r])
      BY <1>0, <2>1, Zenon
    <2>3. handler'[c].stage = "received" /\ handler'[c].run = r /\ handler'[c].seq = n
      BY <1>3
    <2> QED BY <2>2, <2>3, Zenon
  <1>4. CASE Persist(c) /\ handler'[c] = [handler[c] EXCEPT !.stage = "persisted"]
    <2>1. handler[c].stage = "received"
      BY <1>4 DEF Persist
    <2>2. /\ handler'[c].run = handler[c].run /\ handler'[c].seq = handler[c].seq
          /\ handler'[c].stage = "persisted"
      BY <1>4, <2>1, HandlerType DEF Idle
    <2> QED BY <1>0, <1>4, <2>1, <2>2, Busy, PersistedIsStored DEF CoreInv
  <1>5. CASE /\ AckEvent(c)
             /\ log[handler[c].run][handler[c].seq] = "run.accepted"
             /\ handler'[c] = [handler[c] EXCEPT !.stage = "accepted"]
    <2>1. handler[c].stage = "persisted"
      BY <1>5 DEF AckEvent
    <2>2. /\ handler'[c].run = handler[c].run /\ handler'[c].seq = handler[c].seq
          /\ handler'[c].stage = "accepted"
      BY <1>5, <2>1, HandlerType DEF Idle
    <2> QED BY <1>0, <1>5, <2>1, <2>2, Busy, StoredStays DEF CoreInv, HandlerInv
  <1> HIDE DEF Good
  <1> QED BY <1>1, <1>2, <1>3, <1>4, <1>5, HandlerMoves, Zenon

\* CoreInv holds at the start.
LEMMA CoreInit == Init /\ Store!TypeOK => CoreInv
  <1> SUFFICES ASSUME Init, Store!TypeOK PROVE CoreInv
    OBVIOUS
  <1>1. TypeOK
    BY DeliveryAssumption DEF Init, TypeOK, Idle, NoRound
  <1>2. DispatcherInv
    BY DEF Init, DispatcherInv, NoRound
  <1>3. LogInv /\ JournalInv
    BY DEF Init, LogInv, Running, JournalInv, Store!Init
  <1>4. HandlerInv /\ QueueInv /\ AckInv
    BY DEF Init, HandlerInv, Idle, QueueInv, AckInv
  <1> QED BY <1>1, <1>2, <1>3, <1>4 DEF CoreInv

\* CoreInv is kept by every step that keeps the types of the store.
LEMMA CoreStep == CoreInv /\ [Next]_vars /\ Store!TypeOK' => CoreInv'
  <1> SUFFICES ASSUME CoreInv, [Next]_vars, Store!TypeOK' PROVE CoreInv'
    OBVIOUS
  <1>1. CASE Next
    <2>1. TypeOK'
      BY <1>1, TypeStep DEF TypeOK, RelayTypes
    <2> QED BY <1>1, <2>1, TypeStep, JournalStep, AckStep, QueueStep, HandlerKept DEF CoreInv
  <1>2. CASE UNCHANGED vars
    <2>1. TypeOK'
      BY <1>2 DEF CoreInv, TypeOK, vars
    <2>2. DispatcherInv' /\ LogInv' /\ HandlerInv'
      BY <1>2 DEF CoreInv, DispatcherInv, LogInv, Running, Last, HandlerInv, vars
    <2>3. JournalInv' /\ QueueInv' /\ AckInv'
      BY <1>2 DEF CoreInv, JournalInv, EventOf, QueueInv, AckInv, vars
    <2> QED BY <2>1, <2>2, <2>3 DEF CoreInv
  <1> QED BY <1>1, <1>2

-----------------------------------------------------------------------------
(* A start is finalised by its stored acceptance only.                     *)

\* A start that is delivered after a step was delivered before it, or is marked
\* by the handler of a run.accepted.
LEMMA DeliveredBy ==
  ASSUME CoreInv, Next, NEW r \in Run, outbox'[Store!Start(r)].status = "delivered"
  PROVE  \/ outbox[Store!Start(r)].status = "delivered"
         \/ \E c \in Conn : MarkAccepted(c) /\ handler[c].run = r
  <1> DEFINE x == Store!Start(r)
  <1>0. x \in Store!Command /\ outbox \in [Store!Command -> Store!CommandRow]
    BY OutboxType DEF Store!Start, Store!Command
  <1>a. outbox[x] \in Store!CommandRow
    BY <1>0
  <1>1. CASE outbox' = outbox
    BY <1>1
  <1>2. ASSUME NEW q \in Run, NEW s \in Session, NEW k \in Key, Store!CreateRun(q, s, k)
        PROVE  outbox[x].status = "delivered"
    BY <1>0, <1>2 DEF Store!CreateRun, Store!NewCommand, Store!Start, Store!Command
  <1>3. ASSUME NEW q \in Run, Store!RequestCancel(q)
        PROVE  outbox[x].status = "delivered"
    BY <1>0, <1>3 DEF Store!RequestCancel, Store!Start, Store!Cancel, Store!Command
  <1>4. ASSUME NEW B \in SUBSET Store!Command, Store!ClaimCommands(B)
        PROVE  outbox[x].status = "delivered"
    BY <1>0, <1>a, <1>4, Zenon DEF Store!ClaimCommands, Store!CommandRow
  <1>5. ASSUME NEW c \in Store!Command, Store!ComesDue(c) \/ Store!ReleaseCommand(c)
        PROVE  outbox[x].status = "delivered"
    <2>1. CASE Store!ComesDue(c)
      BY <1>0, <1>a, <2>1 DEF Store!ComesDue, Store!CommandRow
    <2>2. CASE Store!ReleaseCommand(c)
      BY <1>0, <1>a, <2>2 DEF Store!ReleaseCommand, Store!CommandRow
    <2> QED BY <1>5, <2>1, <2>2
  <1>6. ASSUME NEW c \in Store!Command, Store!MarkCommandDelivered(c), c # x
        PROVE  outbox[x].status = "delivered"
    BY <1>0, <1>6 DEF Store!MarkCommandDelivered
  <1>7. CASE MarkCancel \/ MarkCancelFails
    <2>1. dispatcher.cmd \in Store!Command /\ dispatcher.cmd # x
      BY <1>7, Settling DEF MarkCancel, MarkCancelFails, CoreInv, DispatcherInv, Store!Start
    <2> QED BY <1>1, <1>6, <1>7, <2>1 DEF MarkCancel, MarkCancelFails, storeVars
  <1>8. ASSUME NEW c \in Conn, MarkAccepted(c)
        PROVE  outbox[x].status = "delivered" \/ handler[c].run = r
    <2>1. handler[c].run \in Run
      BY <1>8, Busy DEF CoreInv, MarkAccepted
    <2>2. Store!Start(handler[c].run) \in Store!Command
      BY <2>1 DEF Store!Start, Store!Command
    <2>3. Store!Start(handler[c].run) = x => handler[c].run = r
      BY DEF Store!Start
    <2> QED BY <1>6, <1>8, <2>2, <2>3 DEF MarkAccepted
  <1>9. CASE CreateRun \/ RequestCancel \/ Claim \/ ClaimFails \/ Release
    BY <1>2, <1>3, <1>4, <1>5, <1>9, RegimeType, Settling, Zenon
       DEF CreateRun, RequestCancel, Claim, ClaimFails, Release
  <1>10. ASSUME NEW c \in Store!Command, ComesDue(c)
         PROVE  outbox[x].status = "delivered"
    BY <1>5, <1>10 DEF ComesDue
  <1>11. \/ outbox' = outbox
         \/ CreateRun \/ RequestCancel \/ Claim \/ ClaimFails \/ Release
         \/ MarkCancel \/ MarkCancelFails
         \/ \E c \in Store!Command : ComesDue(c)
         \/ \E c \in Conn : MarkAccepted(c)
    BY Zenon DEF Next, Connect, Break, Unregister, Crash, ReleaseFails, SendOk, SendFails,
       ReceiveEvent, ReceiveFails, Persist, PersistFails, AckEvent, MarkAcceptedFails,
       AgentReceive, AgentProgress, AgentReplay, storeVars, Store!AppendAgentEvent
  <1> QED BY <1>1, <1>7, <1>8, <1>9, <1>10, <1>11

\* Every step keeps DeliveredStartWasAccepted.
LEMMA StartStep ==
  ASSUME CoreInv, DeliveredStartWasAccepted, [Next]_vars
  PROVE  DeliveredStartWasAccepted'
  <1>1. CASE Next
    <2> SUFFICES ASSUME NEW r \in Run, outbox'[Store!Start(r)].status = "delivered"
                 PROVE  \E n \in Sequence : journal'[r][n] = "run.accepted"
      BY DEF DeliveredStartWasAccepted, Store!Start
    <2>1. CASE outbox[Store!Start(r)].status = "delivered"
      <3>1. PICK n \in Sequence : journal[r][n] = "run.accepted"
        BY <2>1 DEF DeliveredStartWasAccepted
      <3> QED BY <1>1, <3>1, NothingIsLost
    <2>2. ASSUME NEW c \in Conn, MarkAccepted(c), handler[c].run = r
          PROVE  \E n \in Sequence : journal'[r][n] = "run.accepted"
      <3> DEFINE n == handler[c].seq
      <3>1. n \in Sequence /\ journal[r][n] # "none" /\ log[r][n] = "run.accepted"
        BY <2>2, Busy DEF MarkAccepted, CoreInv, HandlerInv
      <3>2. journal[r][n] = "run.accepted"
        BY <3>1 DEF CoreInv, JournalInv, EventOf
      <3> QED BY <1>1, <3>1, <3>2, NothingIsLost
    <2> QED BY <1>1, <2>1, <2>2, DeliveredBy
  <1>2. CASE UNCHANGED vars
    BY <1>2 DEF vars, DeliveredStartWasAccepted, Store!Start
  <1> QED BY <1>1, <1>2

-----------------------------------------------------------------------------
(* In orderly circumstances the journal is a prefix of the log.            *)

\* When the Agent sends an event, all events before it are stored: the Agent
\* holds their acks, or the connection in use has dealt with them.
LEMMA SentInOrder ==
  ASSUME CoreInv, OrderInv, Orderly, NEW c \in Conn, NEW r \in Run, NEW n \in Sequence,
         Current(c), handler[c] = Idle, NextToSend(r, n), NEW m \in 1 .. n - 1
  PROVE  journal[r][m] # "none"
  <1>1. m \in Sequence /\ cursor[r] \in Nat /\ n \in 1 .. Len(log[r]) /\ Len(log[r]) \in Nat
    BY CursorType, LogType, DeliveryAssumption DEF Sequence, NextToSend, Unsent
  <1>2. CASE m \in acked[r]
    BY <1>2 DEF CoreInv, AckInv
  <1>3. CASE m \notin acked[r]
    <2>1. regime.pipelined
      BY <1>3 DEF NextToSend
    <2>2. Undisturbed
      BY <2>1 DEF Undisturbed, Orderly
    <2>3. m \in 1 .. Len(log[r]) /\ ~ n <= m
      BY <1>1 DEF Sequence
    <2>4. m \notin Unsent(r)
      BY <2>3 DEF NextToSend
    <2>5. m \in 1 .. cursor[r]
      BY <1>1, <1>3, <2>3, <2>4 DEF Unsent
    <2>6. handler[c] # [stage |-> "received", run |-> r, seq |-> m]
      BY DEF Idle
    <2> QED BY <2>2, <2>5, <2>6, Zenon DEF OrderInv, CursorInv
  <1> QED BY <1>2, <1>3

\* The journal stays a prefix.
LEMMA PrefixStep ==
  ASSUME CoreInv, OrderInv, Next
  PROVE  JournalIsPrefix'
  <1> SUFFICES ASSUME Orderly, NEW r \in Run, NEW n \in Sequence, journal'[r][n] # "none",
                      NEW m \in 1 .. n
               PROVE  journal'[r][m] # "none"
    BY RegimeStays DEF JournalIsPrefix, Orderly
  <1>0. m \in Sequence
    BY DeliveryAssumption DEF Sequence
  <1>1. CASE journal[r][n] # "none"
    BY <1>0, <1>1, StoredStays DEF OrderInv, JournalIsPrefix
  <1>2. CASE journal[r][n] = "none" /\ m # n
    <2>1. PICK c \in Conn : Stores(c)
      BY <1>2, JournalAndLog DEF Reports
    <2>2. handler[c].run = r /\ handler[c].seq = n /\ handler[c].stage = "received"
      BY <1>2, <2>1, StoresOnly
    <2>3. m \in 1 .. n - 1
      BY <1>2 DEF Sequence
    <2> QED BY <1>0, <2>2, <2>3, StoredStays DEF OrderInv, ReceivedInv
  <1>3. CASE m = n
    BY <1>3
  <1> QED BY <1>1, <1>2, <1>3

\* Everything before an event in hand stays stored.
LEMMA ReceivedStep ==
  ASSUME CoreInv, OrderInv, Next
  PROVE  ReceivedInv'
  <1> SUFFICES ASSUME Orderly, NEW c \in Conn, handler'[c].stage = "received",
                      NEW m \in 1 .. handler'[c].seq - 1
               PROVE  journal'[handler'[c].run][m] # "none"
    BY RegimeStays DEF ReceivedInv, Orderly
  <1>0. handler'[c].run \in Run /\ handler'[c].seq \in Sequence /\ m \in Sequence
    <2>1. handler'[c].run \in Run /\ handler'[c].seq \in Sequence
      BY TypesAfter
    <2> QED BY <2>1, DeliveryAssumption DEF Sequence
  <1>1. CASE handler'[c] = handler[c]
    BY <1>0, <1>1, StoredStays DEF OrderInv, ReceivedInv
  <1>2. ASSUME NEW r \in Run, NEW n \in Sequence, ReceiveEvent(c, r, n),
               handler'[c] = [stage |-> "received", run |-> r, seq |-> n]
        PROVE  journal'[handler'[c].run][m] # "none"
    <2>1. Current(c) /\ handler[c] = Idle /\ NextToSend(r, n)
      BY <1>2, Zenon DEF ReceiveEvent
    <2>2. handler'[c].run = r /\ handler'[c].seq = n
      BY <1>2
    <2>3. journal[r][m] # "none"
      BY <2>1, <2>2, SentInOrder
    <2> QED BY <1>0, <2>2, <2>3, StoredStays
  <1>3. handler'[c] # Idle
    BY DEF Idle
  <1>4. /\ ~ (Persist(c) /\ handler'[c] = [handler[c] EXCEPT !.stage = "persisted"])
        /\ ~ (AckEvent(c) /\ handler'[c] = [handler[c] EXCEPT !.stage = "accepted"])
    BY HandlerType DEF Persist, AckEvent, Idle
  <1> QED BY <1>1, <1>2, <1>3, <1>4, HandlerMoves, Zenon

\* Only the receipt of an event changes the stream.
LEMMA StreamMoves ==
  ASSUME Next
  PROVE  \/ stream' = stream
         \/ \E c \in Conn, r \in Run, n \in Sequence : ReceiveEvent(c, r, n)
  BY Zenon DEF Next, CreateRun, RequestCancel, Connect, Break, Unregister, Crash, Claim,
     ClaimFails, MarkCancel, MarkCancelFails, Release, ReleaseFails, SendOk, SendFails,
     ComesDue, ReceiveFails, Persist, PersistFails, AckEvent, MarkAccepted,
     MarkAcceptedFails, AgentReceive, AgentProgress, AgentReplay, relayVars

\* Without failing calls the stream stays a prefix that contains the journal.
LEMMA StreamStep ==
  ASSUME CoreInv, OrderInv, Next
  PROVE  StreamInv'
  <1> SUFFICES ASSUME Undisturbed
               PROVE  /\ \A r \in Run : \A n \in stream'[r] : \A m \in 1 .. n : m \in stream'[r]
                      /\ \A r \in Run, n \in Sequence : journal'[r][n] # "none" => n \in stream'[r]
                      /\ \A c \in Conn : handler'[c].stage = "received" =>
                           handler'[c].seq \in stream'[handler'[c].run]
    BY RegimeStays DEF StreamInv, Undisturbed
  <1> USE DEF Undisturbed
  <1>0. Orderly
    BY DEF Orderly
  <1>a. stream \in [Run -> SUBSET Sequence]
    BY StreamType
  <1>b. \A r \in Run : stream[r] \subseteq stream'[r]
    BY <1>a, StreamMoves DEF ReceiveEvent
  <1>1. ASSUME NEW r \in Run, NEW n \in stream'[r], NEW m \in 1 .. n
        PROVE  m \in stream'[r]
    <2>1. CASE n \in stream[r]
      BY <1>b, <2>1 DEF OrderInv, StreamInv
    <2>2. CASE n \notin stream[r]
      <3>1. PICK c \in Conn, q \in Run, k \in Sequence : ReceiveEvent(c, q, k)
        BY <2>2, StreamMoves
      <3>2. q = r /\ k = n
        BY <1>a, <2>2, <3>1 DEF ReceiveEvent
      <3>3. n \in Sequence /\ m \in Sequence
        BY <3>2, DeliveryAssumption DEF Sequence
      <3>4. CASE m \in 1 .. n - 1
        <4>1. journal[r][m] # "none"
          BY <1>0, <3>1, <3>2, <3>3, <3>4, SentInOrder DEF ReceiveEvent
        <4> QED BY <1>b, <3>3, <4>1 DEF OrderInv, StreamInv
      <3>5. CASE m = n
        BY <3>5
      <3> QED BY <3>3, <3>4, <3>5 DEF Sequence
    <2> QED BY <2>1, <2>2
  <1>2. ASSUME NEW r \in Run, NEW n \in Sequence, journal'[r][n] # "none"
        PROVE  n \in stream'[r]
    <2>1. CASE journal[r][n] # "none"
      BY <1>b, <2>1 DEF OrderInv, StreamInv
    <2>2. CASE journal[r][n] = "none"
      <3>1. PICK c \in Conn : Stores(c)
        BY <1>2, <2>2, JournalAndLog DEF Reports
      <3>2. handler[c].run = r /\ handler[c].seq = n /\ handler[c].stage = "received"
        BY <1>2, <2>2, <3>1, StoresOnly
      <3> QED BY <1>b, <3>2 DEF OrderInv, StreamInv
    <2> QED BY <2>1, <2>2
  <1>3. ASSUME NEW c \in Conn, handler'[c].stage = "received"
        PROVE  handler'[c].seq \in stream'[handler'[c].run]
    <2>0. handler'[c].run \in Run
      BY <1>3, TypesAfter
    <2>1. CASE handler'[c] = handler[c]
      BY <1>3, <1>b, <2>0, <2>1 DEF OrderInv, StreamInv
    <2>2. ASSUME NEW r \in Run, NEW n \in Sequence, ReceiveEvent(c, r, n),
                 handler'[c] = [stage |-> "received", run |-> r, seq |-> n]
          PROVE  handler'[c].seq \in stream'[handler'[c].run]
      <3>1. stream' = [stream EXCEPT ![r] = @ \cup {n}]
        BY <2>2, Zenon DEF ReceiveEvent
      <3>2. n \in stream'[r]
        BY <1>a, <3>1
      <3>3. handler'[c].run = r /\ handler'[c].seq = n
        BY <2>2
      <3> QED BY <3>2, <3>3, Zenon
    <2>3. handler'[c] # Idle
      BY <1>3 DEF Idle
    <2>4. /\ ~ (Persist(c) /\ handler'[c] = [handler[c] EXCEPT !.stage = "persisted"])
          /\ ~ (AckEvent(c) /\ handler'[c] = [handler[c] EXCEPT !.stage = "accepted"])
      BY <1>3, HandlerType DEF Persist, AckEvent, Idle
    <2> QED BY <2>1, <2>2, <2>3, <2>4, HandlerMoves, Zenon
  <1> QED BY <1>1, <1>2, <1>3

\* An event in hand stays there until it is persisted, or the relay dies.
LEMMA ReceivedMoves ==
  ASSUME CoreInv, Next, NEW c \in Conn, handler[c].stage = "received"
  PROVE  handler'[c] = handler[c] \/ Persist(c) \/ PersistFails(c) \/ Crash
  <1>0. handler = [d \in Conn |-> handler[d]]
    BY HandlerType
  <1>1. ASSUME NEW d \in Conn, NEW r \in Run, NEW n \in Sequence, ReceiveEvent(d, r, n)
        PROVE  handler'[c] = handler[c]
    BY <1>0, <1>1 DEF ReceiveEvent, Idle
  <1>2. ASSUME NEW d \in Conn, AckEvent(d) \/ MarkAccepted(d) \/ MarkAcceptedFails(d)
        PROVE  handler'[c] = handler[c]
    BY <1>0, <1>2 DEF AckEvent, MarkAccepted, MarkAcceptedFails
  <1>3. ASSUME NEW d \in Conn, d # c, Persist(d) \/ PersistFails(d)
        PROVE  handler'[c] = handler[c]
    BY <1>0, <1>3 DEF Persist, PersistFails
  <1>4. \/ handler' = handler
        \/ Crash
        \/ \E d \in Conn, r \in Run, n \in Sequence : ReceiveEvent(d, r, n)
        \/ \E d \in Conn : \/ Persist(d) \/ AckEvent(d)
                           \/ PersistFails(d) \/ MarkAccepted(d) \/ MarkAcceptedFails(d)
    BY Zenon DEF Next, CreateRun, RequestCancel, Unregister, Claim, ClaimFails, MarkCancel,
       MarkCancelFails, Release, ReleaseFails, SendOk, SendFails, ComesDue, Connect, Break,
       ReceiveFails, AgentReceive, AgentProgress, AgentReplay, relayVars
  <1> QED BY <1>1, <1>2, <1>3, <1>4

\* The connection in use after a step that opens none was in use before it.
LEMMA CurrentMoves ==
  ASSUME CoreInv, Next, NEW c \in Conn, Current(c)', ~ \E d \in Conn : Connect(d)
  PROVE  Current(c) /\ ~ Crash
  <1>0. conn \in [Conn -> {"unused", "open", "closed"}]
    BY ConnType
  <1>1. CASE conn' = conn /\ ~ Crash
    BY <1>1 DEF Current, Opened
  <1>2. Crash => FALSE
    BY <1>0 DEF Crash, Current
  <1>3. ASSUME NEW d \in Conn, Break(d)
        PROVE  Current(c)
    BY <1>0, <1>3 DEF Break, Current, Opened
  <1>4. \/ conn' = conn
        \/ Crash
        \/ \E d \in Conn : Connect(d) \/ Break(d)
    BY Zenon DEF Next, CreateRun, RequestCancel, Unregister, Claim, ClaimFails, MarkCancel,
       MarkCancelFails, Release, ReleaseFails, SendOk, SendFails, ComesDue, ReceiveEvent,
       ReceiveFails, Persist, PersistFails, AckEvent, MarkAccepted, MarkAcceptedFails,
       AgentReceive, AgentProgress, AgentReplay, relayVars
  <1> QED BY <1>1, <1>2, <1>3, <1>4

\* Without failing calls the stream refuses no event.
LEMMA NothingRefused ==
  ASSUME CoreInv, OrderInv, Undisturbed, NEW c \in Conn, NEW r \in Run, NEW n \in Sequence
  PROVE  ~ ReceiveFails(c, r, n)
  <1> SUFFICES ASSUME ReceiveFails(c, r, n) PROVE FALSE
    OBVIOUS
  <1>1. ~ StreamTakes(r, n)
    BY DEF ReceiveFails, Undisturbed
  <1>2. PICK m \in stream[r] : ~ m < n
    BY <1>1 DEF StreamTakes
  <1>3. m \in Sequence
    BY StreamType
  <1>4. n \in 1 .. m
    BY <1>2, <1>3, Numbers
  <1>5. n \in stream[r]
    BY <1>4 DEF OrderInv, StreamInv
  <1> QED BY <1>1, <1>5 DEF StreamTakes

\* Only the event in hand of what was sent on the connection in use may not be
\* stored.
LEMMA CursorStep ==
  ASSUME CoreInv, OrderInv, Next
  PROVE  CursorInv'
  <1> SUFFICES ASSUME Undisturbed, NEW c \in Conn, Current(c)', NEW r \in Run,
                      NEW m \in 1 .. cursor'[r]
               PROVE  \/ journal'[r][m] # "none"
                      \/ handler'[c] = [stage |-> "received", run |-> r, seq |-> m]
    BY RegimeStays, Zenon DEF CursorInv, Undisturbed
  <1>a. cursor \in [Run -> 0 .. MaxSequence] /\ cursor' \in [Run -> 0 .. MaxSequence]
    BY CursorType, TypesAfter
  <1>b. m \in Sequence
    BY <1>a, DeliveryAssumption DEF Sequence
  <1>1. ASSUME NEW d \in Conn, Connect(d) PROVE FALSE
    BY <1>1 DEF Connect
  <1>2. Current(c) /\ ~ Crash
    BY <1>1, CurrentMoves
  <1>3. ASSUME m \in 1 .. cursor[r]
        PROVE  \/ journal'[r][m] # "none"
               \/ handler'[c] = [stage |-> "received", run |-> r, seq |-> m]
    <2>1. CASE journal[r][m] # "none"
      BY <1>b, <2>1, StoredStays
    <2>2. CASE handler[c] = [stage |-> "received", run |-> r, seq |-> m]
      <3>1. ~ PersistFails(c)
        BY Zenon DEF PersistFails, Undisturbed
      <3> QED BY <1>2, <2>2, <3>1, ReceivedMoves, PersistedIsStored
    <2> QED BY <1>2, <1>3, <2>1, <2>2 DEF OrderInv, CursorInv
  <1>4. ASSUME NEW d \in Conn, NEW q \in Run, NEW n \in Sequence, ReceiveEvent(d, q, n),
               m \notin 1 .. cursor[r]
        PROVE  \/ journal'[r][m] # "none"
               \/ handler'[c] = [stage |-> "received", run |-> r, seq |-> m]
    <2>1. d = c
      BY <1>2, <1>4 DEF ReceiveEvent, Current, Opened, Conn
    <2>2. q = r /\ cursor'[r] = n
      BY <1>a, <1>4 DEF ReceiveEvent
    <2>3. CASE m = n
      BY <1>4, <2>1, <2>2, <2>3, HandlerType DEF ReceiveEvent, StageOnReceipt
    <2>4. CASE m # n
      <3>1. m \in 1 .. n - 1 /\ Orderly
        BY <2>2, <2>4, <1>b DEF Sequence, Orderly, Undisturbed
      <3> QED BY <1>b, <1>4, <2>1, <2>2, <3>1, SentInOrder, StoredStays DEF ReceiveEvent
    <2> QED BY <2>3, <2>4
  <1>5. \/ m \in 1 .. cursor[r]
        \/ \E d \in Conn, q \in Run, n \in Sequence : ReceiveEvent(d, q, n)
    <2>1. ASSUME NEW q \in Run, AgentReplay(q)
          PROVE  m \in 1 .. cursor[r]
      BY <1>a, <2>1 DEF AgentReplay
    <2>2. \/ cursor' = cursor
          \/ \E d \in Conn : Connect(d)
          \/ \E d \in Conn, q \in Run, n \in Sequence :
               ReceiveEvent(d, q, n) \/ ReceiveFails(d, q, n)
          \/ \E q \in Run : AgentReplay(q)
      BY Zenon DEF Next, CreateRun, RequestCancel, Break, Unregister, Crash, Claim, ClaimFails,
         MarkCancel, MarkCancelFails, Release, ReleaseFails, SendOk, SendFails, ComesDue,
         Persist, PersistFails, AckEvent, MarkAccepted, MarkAcceptedFails,
         AgentReceive, AgentProgress, agentVars
    <2> QED BY <1>1, <2>1, <2>2, NothingRefused
  <1> QED BY <1>3, <1>4, <1>5

-----------------------------------------------------------------------------
(* The invariant as a whole.                                               *)

\* DeliveryInv holds at the start.
LEMMA DeliveryInit == Init /\ Store!TypeOK => DeliveryInv
  <1> SUFFICES ASSUME Init, Store!TypeOK PROVE DeliveryInv
    OBVIOUS
  <1>1. CoreInv
    BY CoreInit
  <1>2. DeliveredStartWasAccepted
    BY DEF Init, DeliveredStartWasAccepted, Store!Init, Store!AbsentCommand, Store!Start,
       Store!Command
  <1>3. JournalIsPrefix /\ ReceivedInv
    BY DEF Init, JournalIsPrefix, ReceivedInv, Store!Init, Idle
  <1>4. StreamInv /\ CursorInv
    BY DEF Init, StreamInv, CursorInv, Store!Init, Idle
  <1> QED BY <1>1, <1>2, <1>3, <1>4 DEF DeliveryInv, OrderInv

\* DeliveryInv is kept by every step that keeps the types of the store.
LEMMA DeliveryStep == DeliveryInv /\ [Next]_vars /\ Store!TypeOK' => DeliveryInv'
  <1> SUFFICES ASSUME DeliveryInv, [Next]_vars, Store!TypeOK' PROVE DeliveryInv'
    OBVIOUS
  <1>1. CoreInv' /\ DeliveredStartWasAccepted'
    BY CoreStep, StartStep DEF DeliveryInv
  <1>2. OrderInv'
    <2>1. CASE Next
      BY <2>1, PrefixStep, ReceivedStep, StreamStep, CursorStep, Zenon DEF DeliveryInv, OrderInv
    <2>2. CASE UNCHANGED vars
      <3>1. JournalIsPrefix' /\ ReceivedInv'
        BY <2>2 DEF DeliveryInv, OrderInv, JournalIsPrefix, ReceivedInv, Orderly, vars
      <3>2. StreamInv'
        BY <2>2 DEF DeliveryInv, OrderInv, StreamInv, Orderly, Undisturbed, Current, Opened, vars
      <3>3. CursorInv'
        <4>1. /\ Undisturbed' = Undisturbed
              /\ cursor' = cursor /\ journal' = journal /\ handler' = handler
          BY <2>2 DEF Orderly, Undisturbed, vars
        <4>2. \A c \in Conn : Current(c)' = Current(c)
          BY <2>2 DEF Current, Opened, vars
        <4> QED BY <4>1, <4>2 DEF DeliveryInv, OrderInv, CursorInv
      <3> QED BY <3>1, <3>2, <3>3 DEF OrderInv
    <2> QED BY <2>1, <2>2
  <1> QED BY <1>1, <1>2 DEF DeliveryInv

-----------------------------------------------------------------------------
(* The delivery implements ReliableJournal.                                *)

\* Storing the event in hand is StoreEvent of the journal.
LEMMA StoresIsStoreEvent ==
  ASSUME CoreInv, NEW c \in Conn, Stores(c)
  PROVE  Journal!Next
  <1> DEFINE q == handler[c].run
             k == handler[c].seq
  <1>1. /\ q \in Run /\ k \in Sequence /\ k \in 1 .. Len(log[q])
        /\ EventOf(q, k) \in Store!EventType
    BY Busy DEF Stores
  <1>2. /\ journal[q][k] = "none" /\ journal' = [journal EXCEPT ![q][k] = EventOf(q, k)]
        /\ log' = log /\ acked' = acked
    BY DEF Stores
  <1>3. EventOf(q, k) # "none"
    BY <1>1 DEF Store!EventType
  <1> HIDE DEF q, k
  <1>4. \A r \in Run, n \in Sequence :
          journal'[r][n] # "none" <=> journal[r][n] # "none" \/ (r = q /\ n = k)
    BY <1>1, <1>2, <1>3, JournalType
  <1>5. Stored' = [Stored EXCEPT ![q] = @ \cup {k}]
    BY <1>1, <1>4, Zenon DEF Stored
  <1>6. k \in 1 .. Produced[q] /\ k \notin Stored[q]
    BY <1>1, <1>2 DEF Produced, Stored
  <1>7. Produced' = Produced
    BY <1>2 DEF Produced
  <1>8. Journal!StoreEvent(q, k)
    BY <1>2, <1>5, <1>6, <1>7 DEF Journal!StoreEvent
  <1> QED BY <1>1, <1>8 DEF Journal!Next, Journal!Sequence, Sequence

\* Reporting an event is Produce of the journal.
LEMMA ReportsIsProduce ==
  ASSUME CoreInv, Next, NEW q \in Run, Reports(q)
  PROVE  Journal!Next
  <1>1. PICK e \in AgentEvent :
          /\ log' = [log EXCEPT ![q] = Append(@, e)]
          /\ journal' = journal /\ acked' = acked
    BY Zenon DEF Reports
  <1>2. \A r \in Run : Len(log'[r]) = IF r = q THEN Len(log[r]) + 1 ELSE Len(log[r])
    BY <1>1, LogType
  <1>3. Produced' = [Produced EXCEPT ![q] = @ + 1]
    BY <1>2, Zenon DEF Produced
  <1>4. Produced[q] < MaxSequence
    <2>1. Len(log'[q]) <= MaxSequence
      BY TypesAfter
    <2> QED BY <1>2, <2>1, LogType, DeliveryAssumption DEF Produced
  <1>5. Stored' = Stored
    BY <1>1 DEF Stored
  <1>6. Journal!Produce(q)
    BY <1>1, <1>3, <1>4, <1>5 DEF Journal!Produce
  <1> QED BY <1>6 DEF Journal!Next

\* What the Agent does with its acks is Acknowledge or Offer of the journal.
LEMMA AcksAreJournal ==
  ASSUME CoreInv, Next, UNCHANGED <<journal, log>>
  PROVE  Journal!Next \/ UNCHANGED Journal!vars
  <1>1. Stored' = Stored /\ Produced' = Produced
    BY DEF Stored, Produced
  <1>2. CASE acked' = acked
    BY <1>1, <1>2 DEF Journal!vars
  <1>3. CASE acked' # acked
    <2>1. PICK c \in Conn : AgentReceive(c)
      BY <1>3, AckMoves
    <2> DEFINE m == Head(queue[c])
    <2>2. m = queue[c][1] /\ 1 \in 1 .. Len(queue[c]) /\ m \in Message
      BY <2>1, FirstMessage, Zenon DEF AgentReceive
    <2>3. m.run \in Run
      BY <2>2 DEF Message
    <2>4. m.type = "durable_ack" => m.seq \in Sequence /\ journal[m.run][m.seq] # "none"
      BY <2>2 DEF CoreInv, QueueInv
    <2>5. \/ acked' = [acked EXCEPT ![m.run] = @ \ {1}]
          \/ m.type = "durable_ack" /\ acked' = [acked EXCEPT ![m.run] = @ \cup {m.seq}]
      BY <1>3, <2>1, Zenon DEF AgentReceive
    <2> HIDE DEF m
    <2>6. CASE acked' = [acked EXCEPT ![m.run] = @ \ {1}]
      <3>1. Journal!Offer(m.run, 1)
        BY <1>1, <2>6 DEF Journal!Offer
      <3>2. 1 \in Journal!Sequence
        BY DeliveryAssumption DEF Journal!Sequence
      <3> QED BY <2>3, <3>1, <3>2 DEF Journal!Next
    <2>7. CASE m.type = "durable_ack" /\ acked' = [acked EXCEPT ![m.run] = @ \cup {m.seq}]
      <3>1. m.seq \in Stored[m.run]
        BY <2>3, <2>4, <2>7 DEF Stored
      <3>2. Journal!Acknowledge(m.run, m.seq)
        BY <1>1, <2>7, <3>1 DEF Journal!Acknowledge
      <3>3. m.seq \in Journal!Sequence
        BY <2>4, <2>7 DEF Journal!Sequence, Sequence
      <3> QED BY <2>3, <3>2, <3>3 DEF Journal!Next
    <2> QED BY <2>5, <2>6, <2>7
  <1> QED BY <1>2, <1>3

\* Every step is one of the journal, or leaves it alone.
LEMMA JournalNext == DeliveryInv /\ [Next]_vars => [Journal!Next]_(Journal!vars)
  <1> SUFFICES ASSUME DeliveryInv, [Next]_vars PROVE [Journal!Next]_(Journal!vars)
    OBVIOUS
  <1>0. CoreInv
    BY DEF DeliveryInv
  <1>1. CASE Next
    BY <1>0, <1>1, JournalAndLog, StoresIsStoreEvent, ReportsIsProduce, AcksAreJournal
  <1>2. CASE UNCHANGED vars
    BY <1>2 DEF vars, Journal!vars, Stored, Produced
  <1> QED BY <1>1, <1>2

-----------------------------------------------------------------------------
(* How what is on its way begins: rounds with claims, logs with messages.  *)

\* A round of the dispatcher, the send queues and the Agent's log are about
\* runs that exist.
KnownInv ==
  /\ \A x \in dispatcher.batch : x[2] \in Store!Created
  /\ \A c \in Conn : \A i \in 1 .. Len(queue[c]) : queue[c][i].run \in Store!Created
  /\ \A r \in Run : log[r] # <<>> => r \in Store!Created

\* A round begins with claimed commands and only gets smaller.
LEMMA BatchMoves ==
  ASSUME CoreInv, Next
  PROVE  \/ dispatcher'.batch \subseteq dispatcher.batch
         \/ \E B \in SUBSET Store!Command : Store!ClaimCommands(B) /\ dispatcher'.batch = B
  <1>1. CASE Claim
    <2>1. PICK B \in SUBSET Store!Command :
            /\ Store!ClaimCommands(B)
            /\ dispatcher' = [stage |-> "sending", peer |-> peer, batch |-> B, cmd |-> Null]
      BY <1>1, Zenon DEF Claim
    <2>2. dispatcher'.batch = B
      BY <2>1
    <2> QED BY <2>1, <2>2, Zenon
  <1>2. CASE Crash
    BY <1>2 DEF Crash, NoRound
  <1>3. ASSUME NEW x, Advance(x)
        PROVE  dispatcher'.batch \subseteq dispatcher.batch
    BY <1>3, RoundType DEF Advance, NoRound
  <1>4. ASSUME NEW x \in Store!Command, SendOk(x) \/ SendFails(x)
        PROVE  dispatcher'.batch \subseteq dispatcher.batch
    <2>1. Advance(x) \/ \E st : dispatcher' = [dispatcher EXCEPT !.stage = st, !.cmd = x]
      BY <1>4, Zenon DEF SendOk, SendFails
    <2>2. ASSUME NEW st, dispatcher' = [dispatcher EXCEPT !.stage = st, !.cmd = x]
          PROVE  dispatcher'.batch = dispatcher.batch
      BY <2>2, RoundType DEF NoRound
    <2> QED BY <1>3, <2>1, <2>2, Zenon
  <1>5. CASE MarkCancel \/ MarkCancelFails \/ Release \/ ReleaseFails
    BY <1>3, <1>5, RoundType DEF MarkCancel, MarkCancelFails, Release, ReleaseFails, NoRound
  <1>6. \/ dispatcher' = dispatcher
        \/ Claim \/ Crash \/ MarkCancel \/ MarkCancelFails \/ Release \/ ReleaseFails
        \/ \E x \in Store!Command : SendOk(x) \/ SendFails(x)
    BY Zenon DEF Next, CreateRun, RequestCancel, Connect, Break, Unregister, ClaimFails,
       ComesDue, ReceiveEvent, ReceiveFails, Persist, PersistFails, AckEvent,
       MarkAccepted, MarkAcceptedFails, AgentReceive, AgentProgress, AgentReplay,
       relayVars, agentVars
  <1> QED BY <1>1, <1>2, <1>4, <1>5, <1>6, Zenon

\* The Agent begins a log only for the run of a message it received.
LEMMA LogMoves ==
  ASSUME CoreInv, Next, NEW r \in Run, log[r] = <<>>, log'[r] # <<>>
  PROVE  \E c \in Conn : queue[c] # <<>> /\ Head(queue[c]).run = r
  <1>1. log' # log
    OBVIOUS
  <1>2. ASSUME NEW q \in Run, AgentProgress(q)
        PROVE  FALSE
    <2>1. log[q] # <<>> /\ \E e : log' = [log EXCEPT ![q] = Append(@, e)]
      BY <1>2 DEF AgentProgress
    <2> QED BY <2>1, LogType
  <1>3. PICK c \in Conn : AgentReceive(c)
    BY <1>1, <1>2, Zenon DEF Next, CreateRun, RequestCancel, Connect, Break, Unregister,
       Crash, Claim, ClaimFails, MarkCancel, MarkCancelFails, Release, ReleaseFails,
       SendOk, SendFails, ComesDue, ReceiveEvent, ReceiveFails, Persist, PersistFails,
       AckEvent, MarkAccepted, MarkAcceptedFails, AgentReplay, relayVars, agentVars
  <1> DEFINE q == Head(queue[c]).run
  <1>4. queue[c] # <<>> /\ \/ log' = log
                           \/ \E s : log' = [log EXCEPT ![q] = s]
    BY <1>3, Zenon DEF AgentReceive
  <1> HIDE DEF q
  <1>5. q = r
    BY <1>1, <1>4, LogType
  <1> QED BY <1>4, <1>5 DEF q

\* At first nothing is on its way.
LEMMA KnownInit == Init => KnownInv
  <1> SUFFICES ASSUME Init PROVE KnownInv
    OBVIOUS
  <1>1. dispatcher.batch = {}
    BY DEF Init, NoRound
  <1>2. /\ \A c \in Conn : queue[c] = <<>>
        /\ \A r \in Run : log[r] = <<>>
    BY Zenon DEF Init
  <1>3. \A c \in Conn : 1 .. Len(queue[c]) = {}
    BY <1>2
  <1> QED BY <1>1, <1>2, <1>3, Zenon DEF KnownInv

-----------------------------------------------------------------------------
(* The store of RunDelivery is the one RunStoreProofs is about.            *)

Proved == INSTANCE RunStoreProofs WITH Thread <- Run, Turn <- Run

\* The two instances of RunStore have the same types and the same first state.
LEMMA SameStates ==
  /\ Proved!TypeOK <=> Store!TypeOK
  /\ Proved!Init <=> Store!Init
  <1>1. Proved!TypeOK <=> Store!TypeOK
    BY DEF Proved!TypeOK, Store!TypeOK, Proved!Created, Store!Created,
       Proved!RunRow, Store!RunRow, Proved!CommandRow, Store!CommandRow,
       Proved!FeedRow, Store!FeedRow, Proved!Status, Store!Status,
       Proved!Command, Store!Command, Proved!EventType, Store!EventType
  <1>2. Proved!Init <=> Store!Init
    BY DEF Proved!Init, Store!Init, Proved!AbsentRun, Store!AbsentRun,
       Proved!AbsentCommand, Store!AbsentCommand, Proved!Command, Store!Command
  <1> QED BY <1>1, <1>2

\* The two instances of RunStore have the same steps.
LEMMA SameSteps == Proved!Next <=> Store!Next
  <1> USE DEF Proved!Command, Store!Command, Proved!EventType, Store!EventType,
              Proved!Created, Store!Created, Proved!isTerminal, Store!isTerminal,
              Proved!Start, Store!Start, Proved!Cancel, Store!Cancel,
              Proved!NewCommand, Store!NewCommand, Proved!Announce, Store!Announce
  <1>1. \A r, s, k : Proved!CreateRun(r, s, k) <=> Store!CreateRun(r, s, k)
    BY Zenon DEF Proved!CreateRun, Store!CreateRun, Proved!KeyFree, Store!KeyFree,
       Proved!AbsentRun, Store!AbsentRun
  <1>2. \A r : Proved!RequestCancel(r) <=> Store!RequestCancel(r)
    BY Zenon DEF Proved!RequestCancel, Store!RequestCancel
  <1>3. \A B : Proved!ClaimCommands(B) <=> Store!ClaimCommands(B)
    <2>1. Proved!Claimable = Store!Claimable
      BY DEF Proved!Claimable, Store!Claimable
    <2>2. \A B : Proved!OldestClaimable(B) <=> Store!OldestClaimable(B)
      BY <2>1, SMT DEF Proved!OldestClaimable, Store!OldestClaimable,
         Proved!Cardinality, Store!Cardinality
    <2> QED BY <2>2, Zenon DEF Proved!ClaimCommands, Store!ClaimCommands,
               Proved!Dispatchable, Store!Dispatchable
  <1>4. \A c : /\ Proved!ComesDue(c) <=> Store!ComesDue(c)
               /\ Proved!MarkCommandDelivered(c) <=> Store!MarkCommandDelivered(c)
               /\ Proved!ReleaseCommand(c) <=> Store!ReleaseCommand(c)
    BY Zenon DEF Proved!ComesDue, Store!ComesDue, Proved!MarkCommandDelivered,
       Store!MarkCommandDelivered, Proved!ReleaseCommand, Store!ReleaseCommand
  <1>5. \A r, n, e, th, tu :
          Proved!AppendAgentEvent(r, n, e, th, tu) <=> Store!AppendAgentEvent(r, n, e, th, tu)
    BY DEF Proved!AppendAgentEvent, Store!AppendAgentEvent, Proved!FirstCopy,
       Store!FirstCopy, Proved!BreaksUniqueness, Store!BreaksUniqueness,
       Proved!statusForEvent, Store!statusForEvent, Proved!RunAfter, Store!RunAfter,
       Proved!StatusAfter, Store!StatusAfter, Proved!VersionAfter, Store!VersionAfter,
       Proved!ThroughAfter, Store!ThroughAfter, Proved!FinalAfter, Store!FinalAfter
  <1> QED BY <1>1, <1>2, <1>3, <1>4, <1>5, Zenon DEF Proved!Next, Store!Next

\* The assumption of RunStore holds of its instance.
LEMMA StoreConstants ==
  /\ Sequence \subseteq Nat \ {0}
  /\ Null \notin Run \cup Run \cup Session \cup Key
  /\ ClaimLimit \in Nat \ {0}
  BY DeliveryAssumption DEF Sequence

\* Every step of the store keeps its types.
LEMMA StoreTypes ==
  /\ Store!Init => Store!TypeOK
  /\ Store!TypeOK /\ [Store!Next]_storeVars => Store!TypeOK'
  <1>1. Proved!Init => Proved!TypeOK
    BY StoreConstants, Proved!InitType
  <1>2. Proved!TypeOK /\ [Proved!Next]_(Proved!storeVars) => Proved!TypeOK'
    BY StoreConstants, Proved!NextType
  <1>3. Proved!TypeOK' <=> Store!TypeOK'
    BY SameStates, PTL
  <1> QED BY <1>1, <1>2, <1>3, SameStates, SameSteps DEF Proved!storeVars, storeVars

-----------------------------------------------------------------------------
(* The theorems.                                                           *)

\* The inductive invariant of the delivery holds in every regime.
THEOREM DeliveryCorrect == Spec => []DeliveryInv
  <1>1. Init => DeliveryInv
    <2>1. Init => Store!TypeOK
      BY StoreTypes DEF Init
    <2> QED BY <2>1, DeliveryInit
  <1>2. DeliveryInv /\ [Next]_vars => DeliveryInv'
    <2>1. DeliveryInv => CoreInv /\ Store!TypeOK
      BY TypesOf DEF DeliveryInv
    <2>2. DeliveryInv /\ [Next]_vars => Store!TypeOK'
      BY <2>1, StoreStep, StoreTypes
    <2> QED BY <2>2, DeliveryStep
  <1> QED BY <1>1, <1>2, PTL DEF Spec

\* No durable ack, held or under way, is of an event that is not stored: the
\* coordinator acknowledges after AppendAgentEvent has returned.
THEOREM AcksAreDurable == Spec => []DurableAckSound
  <1>1. DeliveryInv => DurableAckSound
    <2> SUFFICES ASSUME DeliveryInv, NEW r \in Run, NEW n \in Sequence,
                        n \in acked[r] \/ InQueue(DurableAck(r, n))
                 PROVE  journal[r][n] # "none"
      BY DEF DurableAckSound
    <2>1. CASE n \in acked[r]
      BY <2>1 DEF DeliveryInv, CoreInv, AckInv
    <2>2. CASE InQueue(DurableAck(r, n))
      <3>1. PICK c \in Conn : \E i \in 1 .. Len(queue[c]) : queue[c][i] = DurableAck(r, n)
        BY <2>2 DEF InQueue
      <3>2. PICK i \in 1 .. Len(queue[c]) : queue[c][i] = DurableAck(r, n)
        BY <3>1
      <3>3. queue[c][i].type = "durable_ack" /\ queue[c][i].run = r /\ queue[c][i].seq = n
        <4>1. LET a == DurableAck(r, n) IN a.type = "durable_ack" /\ a.run = r /\ a.seq = n
          BY DEF DurableAck
        <4> QED BY <3>2, <4>1
      <3>4. QueueInv
        BY DEF DeliveryInv, CoreInv
      <3> QED BY <3>3, <3>4 DEF QueueInv
    <2> QED BY <2>1, <2>2
  <1> QED BY <1>1, DeliveryCorrect, PTL

\* No run.start is finalised before the acceptance of its run is stored.
THEOREM StartsAreAccepted == Spec => []DeliveredStartWasAccepted
  <1>1. DeliveryInv => DeliveredStartWasAccepted
    BY DEF DeliveryInv
  <1> QED BY <1>1, DeliveryCorrect, PTL

\* In orderly circumstances the events of a run are stored without a gap.
THEOREM PrefixStored == Spec => []JournalIsPrefix
  <1>1. DeliveryInv => JournalIsPrefix
    BY DEF DeliveryInv, OrderInv
  <1> QED BY <1>1, DeliveryCorrect, PTL

\* The dispatcher, the handlers and the clients use the store as RunStore
\* allows any caller to: one transaction of RunStore, or none, in each step.
THEOREM UsesTheStore == Spec => Store!Spec
  <1>1. Init => Store!Init
    BY DEF Init
  <1>2. DeliveryInv /\ [Next]_vars => [Store!Next]_(Store!storeVars)
    BY StoreStep DEF DeliveryInv, storeVars, Store!storeVars
  <1> QED BY <1>1, <1>2, DeliveryCorrect, PTL DEF Spec, Store!Spec

\* So all that RunStoreProofs shows of the store holds while it is in use.
THEOREM StoreInvHolds == Spec => []Proved!StoreInv
  <1>1. Proved!Spec => []Proved!StoreInv
    BY StoreConstants, Proved!StoreCorrect
  <1>2. Store!Init => Proved!Init
    BY SameStates
  <1>3. [Store!Next]_(Store!storeVars) => [Proved!Next]_(Proved!storeVars)
    BY SameSteps DEF Store!storeVars, Proved!storeVars
  <1> QED BY <1>1, <1>2, <1>3, UsesTheStore, PTL DEF Store!Spec, Proved!Spec

-----------------------------------------------------------------------------
(* The delivery implements ReliableJournal.                                *)

\* Through every failure of the regimes the delivery implements the journal
\* promised to the Agent: an event is stored once, under its number and for
\* ever, and acknowledged only when it is stored.  (That every event is stored
\* in the end is liveness, which ImplementsJournal adds.)
THEOREM JournalImplemented == Spec => Journal!Spec
  <1>1. Init => Journal!Init
    BY DEF Init, Journal!Init, Produced, Stored, Store!Init
  <1> QED BY <1>1, JournalNext, DeliveryCorrect, PTL DEF Spec, Journal!Spec

-----------------------------------------------------------------------------
(* In orderly circumstances a terminal status is final.                    *)

\* All that is known of the store and of the delivery.
AllInv == DeliveryInv /\ Proved!StoreInv

\* A terminal status comes from the last event the Agent has reported.
LEMMA TerminalIsLast ==
  ASSUME AllInv, NEW r \in Run, Store!isTerminal(runs[r].status)
  PROVE  /\ r \in Proved!Created
         /\ runs[r].final \in Sequence /\ runs[r].final = Len(log[r])
         /\ journal[r][runs[r].final] = EventOf(r, runs[r].final)
         /\ journal[r][runs[r].final] # "none"
         /\ Proved!statusForEvent[journal[r][runs[r].final]] = runs[r].status
  <1> DEFINE f == runs[r].final
  <1>1. r \in Proved!Created
    BY DEF Store!isTerminal, Proved!Created
  <1>2. /\ f \in Sequence /\ journal[r][f] # "none"
        /\ Proved!statusForEvent[journal[r][f]] = runs[r].status
        /\ Proved!statusForEvent[journal[r][f]] \in {"completed", "failed", "canceled"}
    BY <1>1 DEF AllInv, Proved!StoreInv, Proved!TerminalHasEvent, Proved!Rows,
       Store!isTerminal, Proved!isTerminal
  <1> HIDE DEF f
  <1>a. CoreInv
    BY DEF AllInv, DeliveryInv
  <1>3. f <= Len(log[r]) /\ journal[r][f] = EventOf(r, f)
    BY <1>2, <1>a DEF CoreInv, JournalInv
  <1>4. f \in 1 .. Len(log[r]) /\ Len(log[r]) \in Nat
    BY <1>2, <1>3, <1>a, LogType, Numbers
  <1>5. log[r][f] \in AgentEvent
    BY <1>4, <1>a, LogType
  <1>6. log[r][f] \in Terminal
    BY <1>2, <1>3, <1>5, Zenon DEF EventOf, AgentEvent, Terminal, Proved!statusForEvent, Proved!EventType
  <1>7. f = Len(log[r])
    <2>1. f \notin 1 .. Len(log[r]) - 1
      BY <1>6, <1>a DEF CoreInv, LogInv
    <2> QED BY <1>4, <2>1
  <1> QED BY <1>1, <1>2, <1>3, <1>7, Zenon DEF f

\* With the terminal event of a run stored, so is everything the Agent has
\* reported: nothing is left that could change the status.
LEMMA TerminalMeansAllStored ==
  ASSUME AllInv, Orderly, NEW r \in Run, Store!isTerminal(runs[r].status),
         NEW n \in Sequence, n <= Len(log[r])
  PROVE  journal[r][n] # "none"
  <1> DEFINE f == runs[r].final
  <1>1. f \in Sequence /\ f = Len(log[r]) /\ journal[r][f] # "none"
    BY TerminalIsLast, Zenon
  <1> HIDE DEF f
  <1>2. n \in 1 .. f
    BY <1>1, DeliveryAssumption DEF Sequence
  <1> QED BY <1>1, <1>2 DEF AllInv, DeliveryInv, OrderInv, JournalIsPrefix

\* Whatever is replayed, a run that is completed, failed or canceled stays so.
THEOREM TerminalStays == Spec => TerminalIsFinal
  <1>1. AllInv /\ [Next]_vars => TerminalStep
    <2> SUFFICES ASSUME AllInv, [Next]_vars, Orderly, NEW r \in Run,
                        Store!isTerminal(runs[r].status),
                        runs'[r].status # runs[r].status
                 PROVE  FALSE
      BY DEF TerminalStep
    <2>1. CoreInv /\ Proved!TypeOK
      BY DEF AllInv, DeliveryInv, Proved!StoreInv
    <2>2. Next /\ Proved!Next
      BY <2>1, StoreStep, SameSteps DEF vars, storeVars
    <2>3. PICK n \in Sequence : journal[r][n] = "none" /\ journal'[r][n] # "none"
      BY <2>1, <2>2, StoreConstants, Proved!StatusNeedsEvent
         DEF Store!isTerminal, Proved!isTerminal
    <2>4. PICK c \in Conn : Stores(c)
      BY <2>1, <2>2, <2>3, JournalAndLog DEF Reports
    <2>5. handler[c].run = r /\ handler[c].seq = n /\ handler[c].stage = "received"
      BY <2>1, <2>3, <2>4, StoresOnly
    <2>6. n <= Len(log[r])
      BY <2>1, <2>5 DEF CoreInv, HandlerInv
    <2> QED BY <2>3, <2>6, TerminalMeansAllStored
  <1> QED BY <1>1, DeliveryCorrect, StoreInvHolds, PTL DEF AllInv, Spec, TerminalIsFinal

-----------------------------------------------------------------------------
(* What the Agent has reported, and what the relay still has to do for it. *)

\* A run the relay shows as ended was ended by the Agent: the status is the one
\* of the last event the Agent reported, whatever was lost, repeated or refused
\* on the way, and nothing else (no timeout, no cancellation) ends a run.
EndedIsReported ==
  \A r \in Store!Created :
    Store!isTerminal(runs[r].status) =>
      /\ runs[r].final = Len(log[r]) /\ log[r] # <<>>
      /\ runs[r].status = Store!statusForEvent[EventOf(r, Len(log[r]))]

\* While the Agent has not answered the start of a run, the outbox keeps the
\* command: it is waiting or claimed, so a lost message is sent again.
StartKept ==
  \A r \in Store!Created :
    log[r] = <<>> => outbox[Store!Start(r)].status \in {"pending", "claimed"}

\* In every circumstance a status shown as terminal is the Agent's last word.
THEOREM EndsAreReported == Spec => []EndedIsReported
  <1>1. AllInv => EndedIsReported
    <2> SUFFICES ASSUME AllInv, NEW r \in Store!Created, Store!isTerminal(runs[r].status)
                 PROVE  /\ runs[r].final = Len(log[r]) /\ log[r] # <<>>
                        /\ runs[r].status = Store!statusForEvent[EventOf(r, Len(log[r]))]
      BY Zenon DEF EndedIsReported
    <2>1. r \in Run
      BY DEF Store!Created
    <2> DEFINE f == runs[r].final
    <2>2. /\ f \in Sequence /\ f = Len(log[r])
          /\ journal[r][f] = EventOf(r, f)
          /\ Proved!statusForEvent[journal[r][f]] = runs[r].status
      BY <2>1, TerminalIsLast, Zenon
    <2> HIDE DEF f
    <2>3. f # 0
      BY <2>2, Numbers
    <2>4. log[r] # <<>>
      BY <2>2, <2>3
    <2>5. Proved!statusForEvent = Store!statusForEvent
      BY Zenon DEF Proved!statusForEvent, Store!statusForEvent, Proved!EventType, Store!EventType
    <2> QED BY <2>2, <2>4, <2>5, Zenon DEF f
  <1> QED BY <1>1, DeliveryCorrect, StoreInvHolds, PTL DEF AllInv

\* The start of a run is not given up before the Agent has answered it.
THEOREM StartsAreKept == Spec => []StartKept
  <1>1. AllInv => StartKept
    <2> SUFFICES ASSUME AllInv, NEW r \in Store!Created, log[r] = <<>>
                 PROVE  outbox[Store!Start(r)].status \in {"pending", "claimed"}
      BY Zenon DEF StartKept
    <2>1. r \in Run /\ CoreInv /\ DeliveredStartWasAccepted /\ Proved!OutboxMatchesRuns
      BY Zenon DEF Store!Created, AllInv, DeliveryInv, Proved!StoreInv
    <2>2. Store!Start(r) \in Store!Command
      BY <2>1 DEF Store!Start, Store!Command
    <2>3. outbox[Store!Start(r)].status \in {"absent", "pending", "claimed", "delivered"}
      BY <2>1, <2>2, OutboxType DEF Store!CommandRow
    <2>4. outbox[Store!Start(r)].status # "absent"
      BY <2>1 DEF Proved!OutboxMatchesRuns, Proved!Created, Store!Created,
         Proved!Start, Store!Start
    <2>5. outbox[Store!Start(r)].status # "delivered"
      <3>1. \A n \in Sequence : journal[r][n] = "none"
        <4>1. \A n \in Sequence : ~ (n <= Len(log[r]))
          BY Numbers
        <4> QED BY <2>1, <4>1, Zenon DEF CoreInv, JournalInv
      <3> QED BY <2>1, <3>1, Zenon DEF DeliveredStartWasAccepted
    <2> QED BY <2>3, <2>4, <2>5
  <1> QED BY <1>1, DeliveryCorrect, StoreInvHolds, PTL DEF AllInv

-----------------------------------------------------------------------------
(* Only runs that exist are on their way.                                  *)

\* AppendAgentEvent finds the run of every event a handler brings it: the Agent
\* reports on no run that CreateRun has not committed.
EventsHaveRuns ==
  \A c \in Conn : handler[c].stage # "idle" => handler[c].run \in Store!Created

\* No step takes a run away.
LEMMA CreatedStays ==
  ASSUME AllInv, Next
  PROVE  Store!Created \subseteq Store!Created'
  <1>1. CoreInv /\ Proved!TypeOK
    BY DEF AllInv, DeliveryInv, Proved!StoreInv
  <1>2. Store!Next \/ UNCHANGED storeVars
    BY <1>1, StoreStep
  <1>3. CASE Store!Next
    <2>1. Proved!VersionStep
      BY <1>1, <1>3, SameSteps, StoreConstants, Proved!VersionsStep
    <2> QED BY <2>1 DEF Proved!VersionStep, Proved!Created, Store!Created
  <1>4. CASE UNCHANGED storeVars
    BY <1>4 DEF storeVars, Store!Created
  <1> QED BY <1>2, <1>3, <1>4

\* A command that can be claimed is of a run that exists.
LEMMA ClaimedIsCreated ==
  ASSUME AllInv, NEW B \in SUBSET Store!Command, Store!ClaimCommands(B), NEW x \in B
  PROVE  x[2] \in Store!Created
  <1>1. outbox[x].status # "absent"
    <2>1. B \subseteq Store!Claimable
      BY Zenon DEF Store!ClaimCommands, Store!OldestClaimable
    <2> QED BY <2>1 DEF Store!Claimable
  <1>2. PICK r \in Run : x[2] = r /\ (x = Store!Start(r) \/ x = Store!Cancel(r))
    BY DEF Store!Command, Store!Start, Store!Cancel
  <1>3. Proved!OutboxMatchesRuns /\ Proved!BlankUntilCreated
    BY DEF AllInv, Proved!StoreInv
  <1>4. CASE x = Store!Start(r)
    BY <1>1, <1>2, <1>3, <1>4 DEF Proved!OutboxMatchesRuns, Proved!Created,
       Store!Created, Proved!Start, Store!Start
  <1>5. CASE x = Store!Cancel(r)
    <2>1. runs[r].cancel
      BY <1>1, <1>3, <1>5 DEF Proved!OutboxMatchesRuns, Proved!Cancel, Store!Cancel
    <2>2. r \in Proved!Created
      BY <1>3, <2>1 DEF Proved!BlankUntilCreated, Proved!AbsentRun
    <2> QED BY <1>2, <2>2 DEF Proved!Created, Store!Created
  <1> QED BY <1>2, <1>4, <1>5

\* Every step keeps it so: commands are claimed for runs that exist, messages
\* are made of those commands or of stored events, and a log begins with a
\* message.
LEMMA KnownStep ==
  ASSUME AllInv, KnownInv, Next
  PROVE  KnownInv'
  <1>0. CoreInv
    BY DEF AllInv, DeliveryInv
  <1>1. Store!Created \subseteq Store!Created'
    BY CreatedStays
  <1>2. \A x \in dispatcher'.batch : x[2] \in Store!Created
    <2>1. CASE dispatcher'.batch \subseteq dispatcher.batch
      BY <2>1, Zenon DEF KnownInv
    <2>2. ASSUME NEW B \in SUBSET Store!Command, Store!ClaimCommands(B),
                 dispatcher'.batch = B, NEW x \in dispatcher'.batch
          PROVE  x[2] \in Store!Created
      BY <2>2, ClaimedIsCreated, Zenon
    <2> QED BY <1>0, <2>1, <2>2, BatchMoves, Zenon
  <1>3. ASSUME NEW c \in Conn, NEW i \in 1 .. Len(queue'[c])
        PROVE  queue'[c][i].run \in Store!Created
    <2>1. CASE \E j \in 1 .. Len(queue[c]) : queue'[c][i] = queue[c][j]
      BY <2>1, Zenon DEF KnownInv
    <2>2. ASSUME NEW x \in dispatcher.batch, queue'[c][i] = CommandMessage(x)
          PROVE  queue'[c][i].run \in Store!Created
      <3>1. CommandMessage(x).run = x[2]
        BY DEF CommandMessage
      <3> QED BY <2>2, <3>1, Zenon DEF KnownInv
    <2>3. ASSUME NEW r \in Run, NEW n \in Sequence, journal[r][n] # "none",
                 queue'[c][i] = DurableAck(r, n)
          PROVE  queue'[c][i].run \in Store!Created
      <3>1. DurableAck(r, n).run = r
        BY DEF DurableAck
      <3>2. n <= Len(log[r])
        BY <1>0, <2>3, Zenon DEF CoreInv, JournalInv
      <3>3. log[r] # <<>>
        BY <3>2, Numbers
      <3> QED BY <2>3, <3>1, <3>3, Zenon DEF KnownInv
    <2> QED BY <1>0, <2>1, <2>2, <2>3, QueueEntries, Zenon
  <1>4. ASSUME NEW r \in Run, log'[r] # <<>>
        PROVE  r \in Store!Created
    <2>1. CASE log[r] # <<>>
      BY <2>1, Zenon DEF KnownInv
    <2>2. CASE log[r] = <<>>
      <3>1. PICK c \in Conn : queue[c] # <<>> /\ Head(queue[c]).run = r
        BY <1>0, <1>4, <2>2, LogMoves, Zenon
      <3>2. queue[c] \in Seq(Message)
        BY <1>0, QueueType
      <3>3. 1 \in 1 .. Len(queue[c]) /\ Head(queue[c]) = queue[c][1]
        BY <3>1, <3>2
      <3> QED BY <3>1, <3>3, Zenon DEF KnownInv
    <2> QED BY <2>1, <2>2
  <1> QED BY <1>1, <1>2, <1>3, <1>4, Zenon DEF KnownInv

\* The dispatcher, the queues and the Agent deal with created runs only.
THEOREM KnownCorrect == Spec => []KnownInv
  <1>1. AllInv /\ KnownInv /\ [Next]_vars => KnownInv'
    <2>1. CASE Next
      BY <2>1, KnownStep
    <2>2. CASE UNCHANGED vars
      BY <2>2 DEF vars, relayVars, agentVars, storeVars, KnownInv, Store!Created
    <2> QED BY <2>1, <2>2
  <1> QED BY <1>1, KnownInit, DeliveryCorrect, StoreInvHolds, PTL DEF AllInv, Spec

\* Nothing the Agent sends about a run meets a store without that run.
THEOREM EventsFindTheirRun == Spec => []EventsHaveRuns
  <1>1. AllInv /\ KnownInv => EventsHaveRuns
    <2> SUFFICES ASSUME AllInv, KnownInv, NEW c \in Conn, handler[c].stage # "idle"
                 PROVE  handler[c].run \in Store!Created
      BY Zenon DEF EventsHaveRuns
    <2> DEFINE r == handler[c].run
               n == handler[c].seq
    <2>1. CoreInv
      BY DEF AllInv, DeliveryInv
    <2>2. r \in Run /\ n \in Sequence
      BY <2>1, Busy, Zenon
    <2>3. n <= Len(log[r])
      BY <2>1, Zenon DEF CoreInv, HandlerInv
    <2> HIDE DEF r, n
    <2>4. log[r] # <<>>
      BY <2>2, <2>3, Numbers
    <2>5. r \in Store!Created
      BY <2>2, <2>4, Zenon DEF KnownInv
    <2> QED BY <2>5 DEF r
  <1> QED BY <1>1, KnownCorrect, DeliveryCorrect, StoreInvHolds, PTL DEF AllInv
=============================================================================
