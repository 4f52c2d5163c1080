--------------------------------- MODULE Hub --------------------------------
(***************************************************************************)
(* The WebSocket side of the relay: the connection handler, the router and *)
(* the registry that holds at most one App and one Agent connection.       *)
(*                                                                         *)
(* Every connection has a goroutine that runs ServeRole: it enters the     *)
(* registry, closes whom it replaced, tells the observer or restores the   *)
(* Agent's state for an App, reads messages, and in the end leaves the     *)
(* registry.  A second goroutine empties its bounded send queue.  A step   *)
(* of this module is what one goroutine does between two accesses to       *)
(* shared state, so that connections interleave as they do in the code.    *)
(*                                                                         *)
(* agent.hello stands for the three state messages of an Agent (hello,     *)
(* status, capabilities), which the code treats alike.  With setup.runtime *)
(* the coordinator observes the router and keeps the presence key.         *)
(***************************************************************************)
EXTENDS Integers, Sequences, FiniteSets

CONSTANTS
  App, Agent,      \* connections of either role, in the order they may come
  QueueSize,       \* capacity of a send queue
  Setups,          \* the circumstances a behaviour may be set in
  Nil

ASSUME HubAssumption ==
  /\ App \cap Agent = {}
  /\ Nil \notin App \cup Agent
  /\ QueueSize \in Nat \ {0}
  /\ Setups \subseteq
       [conns : SUBSET (App \cup Agent),  \* the connections that come
        runtime : BOOLEAN,   \* the Run Server is configured: the router has an observer
        commander : SUBSET App,  \* the App connections that send commands
        shutdown : BOOLEAN]      \* the relay may be shut down

VARIABLES
  reg,        \* Registry.app and Registry.agent
  cache,      \* the connection whose agent.hello the registry remembers
  pc,         \* by connection, where its ServeRole goroutine is
  open,       \* by connection, its context is not cancelled
  queue,      \* by connection, its outbound channel
  old,        \* by connection, the other connection its goroutine holds
  said,       \* by Agent connection, it has sent its hello
  seen,       \* by App connection, the Agent state messages received so far
  presence,   \* the presence key exists
  ticking,    \* the presence ticker has seen an Agent and sets the key next
  shutdown,   \* CloseConnections has run
  setup       \* the circumstances of this behaviour, chosen once

vars == <<reg, cache, pc, open, queue, old, said, seen, presence, ticking, shutdown, setup>>

Conn == App \cup Agent
Runtime == setup.runtime
Role(p) == IF p \in App THEN "app" ELSE "agent"
Hello(a) == <<"agent.hello", a>>
Offline == <<"agent.status", "offline">>
Rejected == <<"turn.rejected", "">>
ProjectList == <<"project.list", "">>
Command == <<"turn.start", "">>
Message == {Hello(a) : a \in Agent} \cup {Offline, Rejected, ProjectList, Command}

Init ==
  /\ reg = [app |-> Nil, agent |-> Nil]
  /\ cache = Nil
  /\ pc = [p \in Conn |-> "absent"]
  /\ open = [p \in Conn |-> FALSE]
  /\ queue = [p \in Conn |-> <<>>]
  /\ old = [p \in Conn |-> Nil]
  /\ said = [a \in Agent |-> FALSE]
  /\ seen = [p \in App |-> <<>>]
  /\ presence = FALSE
  /\ ticking = FALSE
  /\ shutdown = FALSE
  /\ setup \in Setups

-----------------------------------------------------------------------------
At(p, label) == pc[p] = label
Goto(p, label) == pc' = [pc EXCEPT ![p] = label]

\* peer.Send: with room in the queue of a cancelled connection select takes
\* either branch; with no room the message is refused.
Accepts(p) == Len(queue[p]) < QueueSize
Refuses(p) == ~ open[p] \/ Len(queue[p]) >= QueueSize
Enqueue(p, m) == queue' = [queue EXCEPT ![p] = Append(@, m)]

\* Send whose failure closes the connection that would not take the message.
SendOrClose(p, m) ==
  \/ /\ Accepts(p)
     /\ Enqueue(p, m)
     /\ UNCHANGED open
  \/ /\ Refuses(p)
     /\ open' = [open EXCEPT ![p] = FALSE]
     /\ UNCHANGED queue

\* ServeRole up to router.Connect.
Accept(p) ==
  /\ At(p, "absent")
  /\ p \in setup.conns
  /\ ~ shutdown
  /\ Goto(p, "accepted")
  /\ open' = [open EXCEPT ![p] = TRUE]
  /\ UNCHANGED <<reg, cache, queue, old, said, seen, presence, ticking, shutdown, setup>>

\* Registry.Replace
Replace(p) ==
  /\ At(p, "accepted")
  /\ old' = [old EXCEPT ![p] = reg[Role(p)]]
  /\ reg' = [reg EXCEPT ![Role(p)] = p]
  /\ cache' = IF p \in Agent THEN Nil ELSE cache
  /\ Goto(p, "replaced")
  /\ UNCHANGED <<open, queue, said, seen, presence, ticking, shutdown, setup>>

\* Connect: the replaced connection is closed.
CloseOld(p) ==
  /\ At(p, "replaced")
  /\ open' = IF old[p] = Nil THEN open ELSE [open EXCEPT ![old[p]] = FALSE]
  /\ old' = [old EXCEPT ![p] = Nil]
  /\ Goto(p, IF p \in App THEN "lookup" ELSE IF Runtime THEN "observe" ELSE "reading")
  /\ UNCHANGED <<reg, cache, queue, said, seen, presence, ticking, shutdown, setup>>

\* AgentConnected: presence (a Redis error is ignored, and the cancelled
\* context of a closed coordinator is one), and the project refresh.
SetPresence == presence' \in {presence, presence \/ ~ shutdown}
AgentConnected(p) ==
  /\ At(p, "observe")
  /\ SetPresence
  /\ \/ Accepts(p) /\ Enqueue(p, ProjectList)
     \/ Refuses(p) /\ UNCHANGED queue
  /\ Goto(p, "reading")
  /\ UNCHANGED <<reg, cache, open, old, said, seen, ticking, shutdown, setup>>

\* Connect of an App: is there an Agent; if so, what is remembered of it.
LookUpAgent(p) ==
  /\ At(p, "lookup")
  /\ Goto(p, IF reg.agent = Nil THEN "offline" ELSE "restore")
  /\ UNCHANGED <<reg, cache, open, queue, old, said, seen, presence, ticking, shutdown, setup>>
SendAgentOffline(p) ==
  /\ At(p, "offline")
  /\ SendOrClose(p, Offline)
  /\ Goto(p, "reading")
  /\ UNCHANGED <<reg, cache, old, said, seen, presence, ticking, shutdown, setup>>
AgentState(p) ==
  /\ At(p, "restore")
  /\ old' = [old EXCEPT ![p] = cache]
  /\ Goto(p, IF cache = Nil THEN "reading" ELSE "restoring")
  /\ UNCHANGED <<reg, cache, open, queue, said, seen, presence, ticking, shutdown, setup>>
SendAgentState(p) ==
  /\ At(p, "restoring")
  /\ SendOrClose(p, Hello(old[p]))
  /\ old' = [old EXCEPT ![p] = Nil]
  /\ Goto(p, "reading")
  /\ UNCHANGED <<reg, cache, said, seen, presence, ticking, shutdown, setup>>

-----------------------------------------------------------------------------
\* The connection is read: an Agent says hello, an App sends a command.
ReadHello(a) ==
  /\ At(a, "reading")
  /\ a \in Agent
  /\ open[a]
  /\ ~ said[a]
  /\ said' = [said EXCEPT ![a] = TRUE]
  /\ Goto(a, "hello")
  /\ UNCHANGED <<reg, cache, open, queue, old, seen, presence, ticking, shutdown, setup>>
ReadCommand(p) ==
  /\ At(p, "reading")
  /\ p \in setup.commander
  /\ open[p]
  /\ Goto(p, "command")
  /\ UNCHANGED <<reg, cache, open, queue, old, said, seen, presence, ticking, shutdown, setup>>

\* The observer consumes the Agent's state messages.
AgentMessage(a) ==
  /\ At(a, "hello")
  /\ Runtime
  /\ SetPresence
  /\ Goto(a, "reading")
  /\ UNCHANGED <<reg, cache, open, queue, old, said, seen, ticking, shutdown, setup>>

\* Altered for mutation testing: the message is forwarded and not remembered.
RememberNothing(a) ==
  /\ At(a, "hello")
  /\ ~ Runtime
  /\ Goto(a, "route")
  /\ UNCHANGED <<reg, cache, open, queue, old, said, seen, presence, ticking, shutdown, setup>>

RememberAgentState(a) ==
  /\ At(a, "hello")
  /\ ~ Runtime
  /\ cache' = a
  /\ Goto(a, "route")
  /\ UNCHANGED <<reg, open, queue, old, said, seen, presence, ticking, shutdown, setup>>

\* Handle looks its target up and sends; the target may be replaced or closed
\* in between.
RouteToApp(a) ==
  /\ At(a, "route")
  /\ old' = [old EXCEPT ![a] = reg.app]
  /\ Goto(a, IF reg.app = Nil THEN "reading" ELSE "forward")
  /\ UNCHANGED <<reg, cache, open, queue, said, seen, presence, ticking, shutdown, setup>>
ForwardHello(a) ==
  /\ At(a, "forward")
  /\ SendOrClose(old[a], Hello(a))
  /\ old' = [old EXCEPT ![a] = Nil]
  /\ Goto(a, "reading")
  /\ UNCHANGED <<reg, cache, said, seen, presence, ticking, shutdown, setup>>

RouteToAgent(p) ==
  /\ At(p, "command")
  /\ old' = [old EXCEPT ![p] = reg.agent]
  /\ Goto(p, IF reg.agent = Nil THEN "reject" ELSE "forward command")
  /\ UNCHANGED <<reg, cache, open, queue, said, seen, presence, ticking, shutdown, setup>>
ForwardCommand(p) ==
  /\ At(p, "forward command")
  /\ \/ /\ Accepts(old[p])
        /\ Enqueue(old[p], Command)
        /\ Goto(p, "reading")
        /\ UNCHANGED open
     \/ /\ Refuses(old[p])
        /\ open' = [open EXCEPT ![old[p]] = FALSE]
        /\ Goto(p, "reject")
        /\ UNCHANGED queue
  /\ old' = [old EXCEPT ![p] = Nil]
  /\ UNCHANGED <<reg, cache, said, seen, presence, ticking, shutdown, setup>>
Reject(p) ==
  /\ At(p, "reject")
  /\ SendOrClose(p, Rejected)
  /\ Goto(p, "reading")
  /\ UNCHANGED <<reg, cache, old, said, seen, presence, ticking, shutdown, setup>>

-----------------------------------------------------------------------------
\* Read fails, because the remote end is gone or the context is cancelled: the
\* deferred calls run.
End(p) ==
  /\ At(p, "reading")
  /\ open' = [open EXCEPT ![p] = FALSE]
  /\ Goto(p, "ended")
  /\ UNCHANGED <<reg, cache, queue, old, said, seen, presence, ticking, shutdown, setup>>

\* Altered for mutation testing: whoever is registered is removed.
RegisteredAnyone(p) == reg[Role(p)] # Nil

\* Altered for mutation testing: a connection already closed is passed over.
RegisteredOpen(p) == reg[Role(p)] = p /\ open[p]

\* Registry.Remove compares the connection's id.
Registered(p) == reg[Role(p)] = p

\* Disconnect
Remove(p) ==
  /\ At(p, "ended")
  /\ IF Registered(p)
     THEN /\ reg' = [reg EXCEPT ![Role(p)] = Nil]
          /\ cache' = IF p \in Agent THEN Nil ELSE cache
          /\ Goto(p, IF p \in App THEN "done" ELSE IF Runtime THEN "unobserve" ELSE "find app")
     ELSE /\ Goto(p, "done")
          /\ UNCHANGED <<reg, cache>>
  /\ UNCHANGED <<open, queue, old, said, seen, presence, ticking, shutdown, setup>>

\* AgentDisconnected: the key is deleted, unless Redis fails.
AgentDisconnected(p) ==
  /\ At(p, "unobserve")
  /\ presence' \in {presence, FALSE}
  /\ Goto(p, "find app")
  /\ UNCHANGED <<reg, cache, open, queue, old, said, seen, ticking, shutdown, setup>>

FindApp(p) ==
  /\ At(p, "find app")
  /\ old' = [old EXCEPT ![p] = reg.app]
  /\ Goto(p, IF reg.app = Nil THEN "done" ELSE "tell app")
  /\ UNCHANGED <<reg, cache, open, queue, said, seen, presence, ticking, shutdown, setup>>

\* Altered for mutation testing: the App is not told.
TellAppNothing(p) ==
  /\ At(p, "tell app")
  /\ old' = [old EXCEPT ![p] = Nil]
  /\ Goto(p, "done")
  /\ UNCHANGED <<reg, cache, open, queue, said, seen, presence, ticking, shutdown, setup>>

TellApp(p) ==
  /\ At(p, "tell app")
  /\ SendOrClose(old[p], Offline)
  /\ old' = [old EXCEPT ![p] = Nil]
  /\ Goto(p, "done")
  /\ UNCHANGED <<reg, cache, said, seen, presence, ticking, shutdown, setup>>

-----------------------------------------------------------------------------
\* writeLoop: a queued message goes out while the connection lives.
Write(p) ==
  /\ open[p]
  /\ queue[p] # <<>>
  /\ queue' = [queue EXCEPT ![p] = Tail(@)]
  /\ seen' = IF p \in App /\ Head(queue[p])[1] \in {"agent.hello", "agent.status"}
             THEN [seen EXCEPT ![p] = Append(@, Head(queue[p]))] ELSE seen
  /\ UNCHANGED <<reg, cache, pc, open, old, said, presence, ticking, shutdown, setup>>

\* writeLoop: a write or a ping fails.
WriteFails(p) ==
  /\ open[p]
  /\ open' = [open EXCEPT ![p] = FALSE]
  /\ UNCHANGED <<reg, cache, pc, queue, old, said, seen, presence, ticking, shutdown, setup>>

\* Altered for mutation testing: the ticker does not look for an Agent.
PresenceLookAnyway ==
  /\ Runtime
  /\ ~ shutdown
  /\ ~ ticking
  /\ ticking' = TRUE
  /\ UNCHANGED <<reg, cache, pc, open, queue, old, said, seen, presence, shutdown, setup>>

\* The presence ticker of the dispatch loop: look, then set the key.
PresenceLook ==
  /\ Runtime
  /\ ~ shutdown
  /\ ~ ticking
  /\ reg.agent # Nil
  /\ ticking' = TRUE
  /\ UNCHANGED <<reg, cache, pc, open, queue, old, said, seen, presence, shutdown, setup>>
PresenceSet ==
  /\ ticking
  /\ presence' = (presence \/ ~ shutdown)
  /\ ticking' = FALSE
  /\ UNCHANGED <<reg, cache, pc, open, queue, old, said, seen, shutdown, setup>>
PresenceSetFails ==
  /\ ticking
  /\ ticking' = FALSE
  /\ UNCHANGED <<reg, cache, pc, open, queue, old, said, seen, presence, shutdown, setup>>

\* The key lives 45 s and the ticker renews it every 15 s: it runs out only
\* while there is no Agent.
PresenceExpires ==
  /\ presence
  /\ reg.agent = Nil
  /\ presence' = FALSE
  /\ UNCHANGED <<reg, cache, pc, open, queue, old, said, seen, ticking, shutdown, setup>>

\* Server.CloseConnections: CloseAll, then Coordinator.Close.
CloseConnections ==
  /\ setup.shutdown
  /\ ~ shutdown
  /\ shutdown' = TRUE
  /\ open' = [p \in Conn |-> open[p] /\ p # reg.app /\ p # reg.agent]
  /\ reg' = [app |-> Nil, agent |-> Nil]
  /\ cache' = Nil
  /\ presence' \in IF Runtime THEN {presence, FALSE} ELSE {presence}
  /\ UNCHANGED <<pc, queue, old, said, seen, ticking, setup>>

\* One goroutine's steps.
Serve(p) ==
  \/ Replace(p)
  \/ CloseOld(p)
  \/ AgentConnected(p)
  \/ LookUpAgent(p)
  \/ SendAgentOffline(p)
  \/ AgentState(p)
  \/ SendAgentState(p)
  \/ AgentMessage(p)
  \/ RememberAgentState(p)
  \/ RouteToApp(p)
  \/ ForwardHello(p)
  \/ RouteToAgent(p)
  \/ ForwardCommand(p)
  \/ Reject(p)
  \/ Remove(p)
  \/ AgentDisconnected(p)
  \/ FindApp(p)
  \/ TellApp(p)

Next ==
  \/ \E p \in Conn : Serve(p) \/ Accept(p) \/ End(p) \/ Write(p) \/ WriteFails(p)
  \/ \E a \in Agent : ReadHello(a)
  \/ \E p \in App : ReadCommand(p)
  \/ PresenceLook
  \/ PresenceSet
  \/ PresenceSetFails
  \/ PresenceExpires
  \/ CloseConnections

Spec == Init /\ [][Next]_vars

-----------------------------------------------------------------------------
\* Goroutines run, a closed connection's read returns, the writer writes, the
\* ticker ticks, keys expire.  Setting the presence key may fail, not for
\* ever.  Nothing is assumed of the remote ends.
Fairness ==
  /\ \A p \in Conn : /\ WF_vars(Serve(p))
                     /\ WF_vars(~ open[p] /\ End(p))
                     /\ WF_vars(Write(p))
  /\ WF_vars(PresenceLook)
  /\ SF_vars(PresenceSet)
  /\ WF_vars(PresenceExpires)

FairSpec == Spec /\ Fairness

Label == {"absent", "accepted", "replaced", "observe", "lookup", "offline",
          "restore", "restoring", "reading", "hello", "route", "forward",
          "command", "forward command", "reject", "ended", "unobserve",
          "find app", "tell app", "done"}

\* The registry's fields hold connections of their role, queues keep their
\* bound, a goroutine that is about to use a connection has one.
TypeOK ==
  /\ reg.app \in App \cup {Nil}
  /\ reg.agent \in Agent \cup {Nil}
  /\ cache \in Agent \cup {Nil}
  /\ pc \in [Conn -> Label]
  /\ \A p \in Conn : Len(queue[p]) <= QueueSize
  /\ \A p \in Conn : pc[p] \in {"forward", "forward command", "restoring", "tell app"}
                       => old[p] # Nil

\* A connection that is neither registered nor closed is about to be closed
\* by the one that replaced it: Replace hands every predecessor to Close, and
\* Remove takes out its own, closed connection only, so a late Disconnect of
\* a replaced connection never throws its successor out of the registry.
NoneLingers ==
  \A p \in Conn :
    (open[p] /\ pc[p] \notin {"absent", "accepted"} /\ ~ reg[Role(p)] = p)
      => \E q \in Conn : pc[q] = "replaced" /\ old[q] = p

\* A registered connection that is closed, by whomever, leaves the registry.
ClosedIsUnregistered ==
  \A p \in Conn : (reg[Role(p)] = p /\ ~ open[p]) ~> (reg[Role(p)] # p)

\* With the Run Server, once the same Agent stays connected the presence key
\* exists for good, and without an Agent it is gone for good, whatever the late
\* steps of earlier connections do to it: the ticker repairs the one, expiry
\* the other.
PresenceConverges ==
  Runtime =>
    /\ \A a \in Agent : <>[](reg.agent = a /\ ~ shutdown) => <>[]presence
    /\ <>[](reg.agent = Nil) => <>[](~ presence)

\* An App that stays connected while there is no Agent has been told so, in
\* its own Connect or in the Agent's Disconnect, however the two overlap.
AgentGoneIsTold ==
  \A p \in App :
    <>[](reg.agent = Nil /\ reg.app = p /\ open[p])
      => <>(\E i \in 1 .. Len(seen[p]) : seen[p][i] = Offline)

\* Without the Run Server and with one Agent connection, an App that stays
\* connected together with an Agent that has said hello learns of it: the
\* message is forwarded, or remembered and restored, whichever comes first.
\* (With the Run Server the observer consumes it; the hello of a connection
\* that is replaced meanwhile may overwrite what is remembered.)
AppLearnsAgent ==
  (~ Runtime /\ Cardinality(setup.conns \cap Agent) = 1) =>
  \A p \in App, a \in Agent :
    <>[](reg = [app |-> p, agent |-> a] /\ open[p] /\ open[a] /\ said[a])
      => <>(\E i \in 1 .. Len(seen[p]) : seen[p][i] = Hello(a))
=============================================================================
