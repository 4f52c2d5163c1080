------------------------------ MODULE AppTurn -------------------------------
(***************************************************************************)
(* What an App asks of the Agent over the router, without a Run: relayctl  *)
(* either starts a turn and follows it until it is over, or sends one      *)
(* request and waits for the answer, while relayctl watch may take the     *)
(* place of the registered App and the Agent's connections come and go.    *)
(* The Agent's events about such turns are not stored: the relay forwards  *)
(* them to the App registered at that time and acknowledges them.          *)
(*                                                                         *)
(* The registry is that of Hub, with Connect and Disconnect in one step    *)
(* each.  The Run Server is configured.  The Agent, outside this           *)
(* repository, keeps a log of events per turn and sends again what is not  *)
(* acknowledged; besides relayctl's own turn it still has the last event   *)
(* of a turn that another App started before.                              *)
(***************************************************************************)
EXTENDS Integers, Sequences, Functions

CONSTANTS
  QueueSize,   \* capacity of a send queue
  MaxLink,     \* bound: Agent connections in a behaviour
  Setups       \* the circumstances a behaviour may be set in

Nil == <<>>
TurnStart == <<"turn.start", 0>>
TurnInterrupt == <<"turn.interrupt", 0>>
Request == <<"request", 0>>

ASSUME AppTurnAssumption ==
  /\ QueueSize \in Nat \ {0}
  /\ MaxLink \in Nat \ {0}
  /\ Setups \subseteq
       [command : {TurnStart, Request},  \* what relayctl is called for
        other : BOOLEAN,                 \* the Agent still has an event of another turn
        watch : BOOLEAN,                 \* relayctl watch connects too
        links : 1 .. MaxLink]            \* the connections the Agent may open

VARIABLES
  setup,      \* the circumstances of this behaviour, chosen once
  reg,        \* Registry.app and Registry.agent
  conn,       \* state of each connection: "unused", "open", "closed", "ended"
  queue,      \* by connection, its outbound channel
  holds,      \* by connection, the message its handler forwards, and to whom
  sent,       \* what relayctl has written and the relay has not read
  started,    \* relayctl: the turn's identifiers are known
  asked,      \* relayctl: an interrupt was sent
  exit,       \* relayctl: <<exit code, cause>>, Nil while it runs
  log,        \* Agent: its events by turn
  acked,      \* Agent: the acknowledged ones
  cursor,     \* Agent: the last one sent on the current connection
  answer,     \* Agent: the answer to a request, "none", "ready" or "sent"
  gone        \* events an App has received, or had in its queue when its connection ended

relayVars == <<setup, reg, conn, queue, holds>>
ctlVars == <<sent, started, asked, exit>>
agentVars == <<log, acked, cursor, answer>>
vars == <<relayVars, ctlVars, agentVars, gone>>

Relayctl == <<"relayctl", 0>>
Watch == <<"watch", 0>>
App == {Relayctl, Watch}
Link == {"agent"} \X (1 .. MaxLink)
Conn == App \cup Link
Turn == {"own", "other"}
Terminal == {"turn.completed", "turn.failed", "turn.interrupted", "turn.rejected"}

\* Messages.  An event is <<turn, number>>, and so is its acknowledgement.  A
\* turn is started and ends, or is rejected; its output and its items, which the
\* relay treats like turn.started and relayctl prints, are left out.
Event == Turn \X (1 .. 2)
ProjectList == <<"project.list", 0>>
Offline == <<"agent.status", 0>>
Rejection == <<"turn.rejected", 0>>
Answer == <<"answer", 0>>

Init ==
  /\ setup \in Setups
  /\ reg = [app |-> Nil, agent |-> Nil]
  /\ conn = [p \in Conn |-> "unused"]
  /\ queue = [p \in Conn |-> <<>>]
  /\ holds = [p \in Conn |-> Nil]
  /\ sent = <<>>
  /\ started = FALSE
  /\ asked = FALSE
  /\ exit = Nil
  /\ log = [t \in Turn |-> IF t = "other" /\ setup.other THEN <<"turn.completed">> ELSE <<>>]
  /\ acked = [t \in Turn |-> {}]
  /\ cursor = [t \in Turn |-> 0]
  /\ answer = "none"
  /\ gone = {}

-----------------------------------------------------------------------------
(* Connections, as in Hub.                                                 *)

HasRoom(p) == Len(queue[p]) < QueueSize
Refuses(p) == conn[p] # "open" \/ ~ HasRoom(p)
Enqueued(p, m) == [queue EXCEPT ![p] = Append(@, m)]
Closed(p) == [conn EXCEPT ![p] = IF @ = "open" THEN "closed" ELSE @]

\* The new connection, and the end of the one it replaces.
Replaced(p, old) ==
  [c \in Conn |-> IF c = p THEN "open" ELSE IF c = old THEN Closed(c)[c] ELSE conn[c]]

\* dial and Connect; relayctl writes its command at once.
ConnectApp(p) ==
  /\ conn[p] = "unused"
  /\ p = Watch => setup.watch
  /\ reg' = [reg EXCEPT !.app = p]
  /\ conn' = Replaced(p, reg.app)
  /\ queue' = IF reg.agent = Nil THEN Enqueued(p, Offline) ELSE queue
  /\ sent' = IF p = Relayctl THEN <<setup.command>> ELSE sent
  /\ UNCHANGED <<setup, holds, started, asked, exit, agentVars, gone>>

\* The Agent opens its next connection, and sends from the first event that is
\* not acknowledged; the coordinator asks it for its projects.
ConnectAgent(l) ==
  /\ conn[l] = "unused"
  /\ l[2] <= setup.links
  /\ \A k \in Link : conn[k] = "unused" => l[2] <= k[2]
  /\ reg' = [reg EXCEPT !.agent = l]
  /\ conn' = Replaced(l, reg.agent)
  /\ queue' = Enqueued(l, ProjectList)
  /\ cursor' = [t \in Turn |-> 0]
  /\ UNCHANGED <<setup, holds, ctlVars, log, acked, answer, gone>>

\* A write or a ping fails, or the remote end is gone.
Break(p) ==
  /\ conn[p] = "open"
  /\ conn' = Closed(p)
  /\ UNCHANGED <<setup, reg, queue, holds, ctlVars, agentVars, gone>>

\* ServeRole returns: Remove, and for an Agent the App is told.  What is left
\* in the queue is lost.
End(p) ==
  LET emptied == [queue EXCEPT ![p] = <<>>]
      ends(c) == [c EXCEPT ![p] = "ended"]
      told == IF reg.agent = p THEN reg.app ELSE Nil
  IN /\ conn[p] = "closed"
     /\ holds[p] = Nil
     /\ reg' = [r \in {"app", "agent"} |-> IF reg[r] = p THEN Nil ELSE reg[r]]
     /\ \/ told = Nil /\ queue' = emptied /\ conn' = ends(conn)
        \/ /\ told # Nil /\ HasRoom(told)
           /\ queue' = [emptied EXCEPT ![told] = Append(@, Offline)]
           /\ conn' = ends(conn)
        \/ /\ told # Nil /\ Refuses(told)
           /\ queue' = emptied
           /\ conn' = ends(Closed(told))
     /\ gone' = IF p \in App THEN gone \cup Range(queue[p]) ELSE gone
     /\ UNCHANGED <<setup, holds, ctlVars, agentVars>>

-----------------------------------------------------------------------------
(* From relayctl to the Agent.                                             *)

\* Handle finds the Agent; what it found may be replaced or closed before it
\* is used.
RouteToAgent ==
  /\ conn[Relayctl] = "open"
  /\ holds[Relayctl] = Nil
  /\ sent # <<>>
  /\ holds' = [holds EXCEPT ![Relayctl] = <<Head(sent), reg.agent>>]
  /\ sent' = Tail(sent)
  /\ UNCHANGED <<setup, reg, conn, queue, started, asked, exit, agentVars, gone>>

\* Reject, after the target was closed or when there is none.
Rejects(closed) ==
  \/ /\ HasRoom(Relayctl)
     /\ queue' = Enqueued(Relayctl, Rejection)
     /\ conn' = closed
  \/ /\ Refuses(Relayctl)
     /\ conn' = [closed EXCEPT ![Relayctl] = Closed(Relayctl)[Relayctl]]
     /\ UNCHANGED queue

ForwardCommand ==
  /\ holds[Relayctl] # Nil
  /\ LET target == holds[Relayctl][2]
     IN  \/ target = Nil /\ Rejects(conn)
         \/ /\ target # Nil
            /\ HasRoom(target)
            /\ queue' = Enqueued(target, holds[Relayctl][1])
            /\ UNCHANGED conn
         \/ target # Nil /\ Refuses(target) /\ Rejects(Closed(target))
  /\ holds' = [holds EXCEPT ![Relayctl] = Nil]
  /\ UNCHANGED <<setup, reg, ctlVars, agentVars, gone>>

-----------------------------------------------------------------------------
(* From the Agent to the App registered when Handle looks.                 *)

\* The Agent uses the connection it opened last.
Current(l) == conn[l] = "open" /\ \A k \in Link : conn[k] # "unused" => k[2] <= l[2]

Unsent(t) == {n \in 1 .. Len(log[t]) : n > cursor[t] /\ n \notin acked[t]}

Ready(m) ==
  IF m = Answer THEN answer = "ready"
  ELSE m[2] \in Unsent(m[1]) /\ \A n \in Unsent(m[1]) : m[2] <= n

Sent(m) ==
  IF m = Answer
  THEN answer' = "sent" /\ UNCHANGED cursor
  ELSE cursor' = [cursor EXCEPT ![m[1]] = m[2]] /\ UNCHANGED answer

\* AgentMessage finds that the turn is no Run (ownsRuntimeRun), Handle finds
\* the App.  Without one nothing happens, and there is no acknowledgement.
RouteToApp(l, m) ==
  /\ Current(l)
  /\ holds[l] = Nil
  /\ Ready(m)
  /\ Sent(m)
  /\ holds' = [holds EXCEPT ![l] = IF reg.app = Nil THEN Nil ELSE <<m, reg.app>>]
  /\ UNCHANGED <<setup, reg, conn, queue, ctlVars, log, acked, gone>>

\* The lookup fails: the event is taken for one of a Run and dropped.
OwnerUnknown(l, m) ==
  /\ Current(l)
  /\ holds[l] = Nil
  /\ m # Answer
  /\ Ready(m)
  /\ Sent(m)
  /\ UNCHANGED <<relayVars, ctlVars, log, acked, gone>>

\* The acknowledgement is lost when the Agent's queue has no room.
AgentMessageForwarded(q, l, m) ==
  IF m = Answer \/ Len(q[l]) >= QueueSize THEN q ELSE [q EXCEPT ![l] = Append(@, m)]

\* Altered for mutation testing: acknowledged although the App did not take it.
ForwardToAppAcked(l) ==
  /\ holds[l] # Nil
  /\ LET m == holds[l][1]
         target == holds[l][2]
     IN  \/ /\ HasRoom(target)
            /\ queue' = AgentMessageForwarded(Enqueued(target, m), l, m)
            /\ UNCHANGED conn
         \/ /\ Refuses(target)
            /\ conn' = Closed(target)
            /\ queue' = AgentMessageForwarded(queue, l, m)
  /\ holds' = [holds EXCEPT ![l] = Nil]
  /\ UNCHANGED <<setup, reg, ctlVars, agentVars, gone>>

\* Send to the App, then the acknowledgement of an event, to another queue.
ForwardToApp(l) ==
  /\ holds[l] # Nil
  /\ LET m == holds[l][1]
         target == holds[l][2]
     IN  \/ /\ HasRoom(target)
            /\ queue' = AgentMessageForwarded(Enqueued(target, m), l, m)
            /\ UNCHANGED conn
         \/ /\ Refuses(target)
            /\ conn' = Closed(target)
            /\ UNCHANGED queue
  /\ holds' = [holds EXCEPT ![l] = Nil]
  /\ UNCHANGED <<setup, reg, ctlVars, agentVars, gone>>

-----------------------------------------------------------------------------
(* relayctl.                                                               *)

TypeOf(m) == IF m \in Event THEN log[m[1]][m[2]] ELSE m[1]

\* Altered for mutation testing: events of any turn are taken.
ConcernsAny(m) == TRUE

\* The trace id is that of the command.
Concerns(m) == m \notin Event \/ m[1] = "own"

\* Altered for mutation testing: a refusal does not end the command.
ExitCodeRefusalMissed(type) ==
  CASE type \in {"turn.completed", "answer"} -> <<0>>
    [] type = "turn.failed" -> <<1>>
    [] type = "turn.interrupted" -> <<130>>
    [] OTHER -> Nil

\* printTurnEvent, and the cases of request: the exit code, if the message
\* ends the command.
ExitCode(type) ==
  CASE type \in {"turn.completed", "answer"} -> <<0>>
    [] type \in {"turn.failed", "turn.rejected"} -> <<1>>
    [] type = "turn.interrupted" -> <<130>>
    [] OTHER -> Nil

\* A message goes out of the queue and is read by relayctl.
Receive ==
  LET m == Head(queue[Relayctl])
      code == IF Concerns(m) THEN ExitCode(TypeOf(m)) ELSE Nil
  IN /\ conn[Relayctl] = "open"
     /\ queue[Relayctl] # <<>>
     /\ exit = Nil
     /\ queue' = [queue EXCEPT ![Relayctl] = Tail(@)]
     /\ gone' = gone \cup {m}
     /\ started' = (started \/ (Concerns(m) /\ TypeOf(m) = "turn.started"))
     /\ exit' = IF code = Nil THEN Nil
                ELSE Append(code, IF m = Rejection THEN "relay" ELSE "Agent")
     /\ UNCHANGED <<setup, reg, conn, holds, sent, asked, agentVars>>

\* A signal interrupts the turn, once, and not before it is known.
Signal ==
  /\ conn[Relayctl] = "open"
  /\ exit = Nil
  /\ started
  /\ ~ asked
  /\ asked' = TRUE
  /\ sent' = Append(sent, TurnInterrupt)
  /\ UNCHANGED <<relayVars, started, exit, agentVars, gone>>

\* The connection is gone, or the 15 seconds of a request are over.
GiveUp ==
  /\ exit = Nil
  /\ \/ conn[Relayctl] \in {"closed", "ended"}
     \/ conn[Relayctl] = "open" /\ setup.command = Request
  /\ exit' = <<1, "relayctl">>
  /\ UNCHANGED <<relayVars, sent, started, asked, agentVars, gone>>

\* relayctl watch prints whatever comes.
WatchReceive ==
  /\ conn[Watch] = "open"
  /\ queue[Watch] # <<>>
  /\ queue' = [queue EXCEPT ![Watch] = Tail(@)]
  /\ gone' = gone \cup {Head(queue[Watch])}
  /\ UNCHANGED <<setup, reg, conn, holds, ctlVars, agentVars>>

-----------------------------------------------------------------------------
(* The Agent.                                                              *)

Latest == log["own"][Len(log["own"])]
Over == log["own"] # <<>> /\ Latest \in Terminal
Running == log["own"] # <<>> /\ ~ Over
Logged(e) == log' = [log EXCEPT !["own"] = Append(@, e)]

AgentReceive(l) ==
  LET m == Head(queue[l])
  IN /\ Current(l)
     /\ queue[l] # <<>>
     /\ queue' = [queue EXCEPT ![l] = Tail(@)]
     /\ \/ m = TurnStart /\ \E e \in {"turn.started", "turn.rejected"} : Logged(e)
        \/ m = TurnInterrupt /\ Running /\ Logged("turn.interrupted")
        \/ ~ (m = TurnStart \/ (m = TurnInterrupt /\ Running)) /\ UNCHANGED log
     /\ acked' = [t \in Turn |-> acked[t] \cup {n \in 1 .. 2 : m = <<t, n>>}]
     /\ answer' = IF m = Request THEN "ready" ELSE answer
     /\ UNCHANGED <<setup, reg, conn, holds, ctlVars, cursor, gone>>

AgentProgress ==
  /\ Running
  /\ \E e \in {"turn.completed", "turn.failed"} : Logged(e)
  /\ UNCHANGED <<relayVars, ctlVars, acked, cursor, answer, gone>>

\* With nothing left to send and nothing on its way on its connection, the Agent
\* starts again from the first event that is not acknowledged.
AgentReplay(t) ==
  /\ Unsent(t) = {}
  /\ \E l \in Link : Current(l) /\ queue[l] = <<>> /\ holds[l] = Nil
  /\ \E n \in 1 .. cursor[t] : n \notin acked[t]
  /\ cursor' = [cursor EXCEPT ![t] = 0]
  /\ UNCHANGED <<relayVars, ctlVars, log, acked, answer, gone>>

-----------------------------------------------------------------------------
Next ==
  \/ \E p \in App : ConnectApp(p)
  \/ \E l \in Link : ConnectAgent(l)
  \/ \E p \in Conn : Break(p) \/ End(p)
  \/ RouteToAgent \/ ForwardCommand
  \/ \E l \in Link, m \in Event \cup {Answer} : RouteToApp(l, m) \/ OwnerUnknown(l, m)
  \/ \E l \in Link : ForwardToApp(l) \/ AgentReceive(l)
  \/ Receive \/ Signal \/ GiveUp \/ WatchReceive
  \/ AgentProgress
  \/ \E t \in Turn : AgentReplay(t)

Spec == Init /\ [][Next]_vars

\* Goroutines, relayctl and the Agent take the steps they can; a closed
\* connection's read returns; the connection of a relayctl that has exited
\* breaks.  A lookup of the owner tried again and again succeeds at some time.
Fairness ==
  /\ \A p \in Conn : WF_vars(End(p))
  /\ WF_vars(exit # Nil /\ Break(Relayctl))
  /\ WF_vars(RouteToAgent \/ ForwardCommand)
  /\ \A t \in Turn :
       SF_vars(\E l \in Link, n \in 1 .. 2 : RouteToApp(l, <<t, n>>))
  /\ \A l \in Link : WF_vars(ForwardToApp(l)) /\ WF_vars(AgentReceive(l))
  /\ WF_vars(Receive)
  /\ WF_vars(GiveUp)
  /\ \A t \in Turn : WF_vars(AgentReplay(t))

FairSpec == Spec /\ Fairness

-----------------------------------------------------------------------------
\* The exit of relayctl agrees with what the Agent did, whatever events of other
\* turns arrive in between: 0 and 130 only for its own turn completed, or
\* interrupted at the user's wish (or its own request answered), 1 by a message
\* of the Agent only for a failure or a refusal.  After a rejection by the relay,
\* unless it may have been the interrupt's, the Agent has not got the command,
\* nor is it on its way on any connection.
ReportIsTrue ==
  /\ exit = <<0, "Agent">> =>
       IF setup.command = Request THEN answer = "sent"
       ELSE Over /\ Latest = "turn.completed"
  /\ exit = <<130, "Agent">> => asked /\ Over /\ Latest = "turn.interrupted"
  /\ exit = <<1, "Agent">> => Over /\ Latest \in {"turn.failed", "turn.rejected"}
  /\ (exit = <<1, "relay">> /\ ~ asked) =>
       /\ log["own"] = <<>> /\ answer = "none"
       /\ \A l \in Link : setup.command \notin Range(queue[l])

\* An event the Agent may forget, because it holds the acknowledgement or will
\* receive it, was taken by an App: received, still in its queue, or lost with
\* the queue of a connection that ended.
AckedWasForwarded ==
  \A m \in Event :
    (m[2] \in acked[m[1]] \/ \E l \in Link : m \in Range(queue[l]))
      => m \in gone \/ \E p \in App : m \in Range(queue[p])

\* A request ends.  A turn that is over at the Agent ends relayctl's wait,
\* provided the Agent stays connected in the end: events are repeated until
\* an App has taken them, and an App that loses its place learns of it.
RelayctlEnds ==
  <>[](reg.agent # Nil /\ conn[reg.agent] = "open") =>
    ((conn[Relayctl] # "unused" /\ (setup.command = Request \/ Over)) ~> (exit # Nil))
=============================================================================
