----------------------------- MODULE HubProofs ------------------------------
(***************************************************************************)
(* NoneLingers is an invariant of Hub, for any number of connections of    *)
(* either role, any queue size and any circumstances.  So is what the hub  *)
(* owes its peers: a registered connection has a goroutine that will take  *)
(* it out, and an App that has not been sent the Agent's state has one     *)
(* that will send it.                                                      *)
(***************************************************************************)
EXTENDS Hub, TLAPS

\* A goroutine whose read loop is over.
EndLabel == {"ended", "unobserve", "find app", "tell app", "done"}

\* The inductive invariant: the registry's fields hold connections of their role,
\* a goroutine past its read loop has closed its connection, and no connection
\* lingers.
HubInv ==
  /\ reg \in [{"app", "agent"} -> Conn \cup {Nil}]
  /\ reg.app \in App \cup {Nil}
  /\ reg.agent \in Agent \cup {Nil}
  /\ pc \in [Conn -> Label]
  /\ open \in [Conn -> BOOLEAN]
  /\ old \in [Conn -> Conn \cup {Nil}]
  /\ cache \in Conn \cup {Nil}
  /\ \A p \in Conn : pc[p] \in EndLabel => ~ open[p]
  /\ NoneLingers

\* The field of the registry that belongs to a connection's role.
LEMMA RegOfRole ==
  ASSUME NEW p \in Conn
  PROVE  /\ p \in App => reg[Role(p)] = reg.app /\ reg[Role(p)]' = reg'.app
         /\ p \in Agent => reg[Role(p)] = reg.agent /\ reg[Role(p)]' = reg'.agent
  BY HubAssumption DEF Role, Conn

\* Before the first connection.
LEMMA InitInv == Init => HubInv
  <1> SUFFICES ASSUME Init PROVE HubInv
    OBVIOUS
  <1>1. reg \in [{"app", "agent"} -> Conn \cup {Nil}] /\ reg.app = Nil /\ reg.agent = Nil
    BY DEF Init
  <1>2. pc \in [Conn -> Label] /\ \A p \in Conn : pc[p] = "absent"
    BY DEF Init, Label
  <1>3. open \in [Conn -> BOOLEAN] /\ old \in [Conn -> Conn \cup {Nil}] /\ cache = Nil
    BY DEF Init
  <1>4. \A p \in Conn : pc[p] \in EndLabel => ~ open[p]
    BY <1>2 DEF EndLabel
  <1>5. NoneLingers
    BY <1>2 DEF NoneLingers
  <1> QED BY <1>1, <1>2, <1>3, <1>4, <1>5 DEF HubInv

\* A goroutine in Connect, in its read loop or in Disconnect goes on, changes what
\* it holds, and closes connections; the registry stays as it is.
LEMMA GoesOn ==
  ASSUME HubInv, NEW p \in Conn, NEW label \in Label \ {"absent", "accepted", "replaced"},
         pc[p] \notin {"absent", "accepted", "replaced"},
         pc' = [pc EXCEPT ![p] = label],
         label \in EndLabel => ~ open'[p],
         old' \in [Conn -> Conn \cup {Nil}],
         \A q \in Conn \ {p} : old'[q] = old[q],
         open' \in [Conn -> BOOLEAN],
         \A q \in Conn : open'[q] => open[q],
         cache' \in Conn \cup {Nil},
         reg' = reg
  PROVE  HubInv'
  <1>1. pc' \in [Conn -> Label]
    BY DEF HubInv
  <1>2. \A q \in Conn : pc'[q] \in EndLabel => ~ open'[q]
    BY DEF HubInv
  <1>3. NoneLingers'
    <2> SUFFICES ASSUME NEW q \in Conn, open'[q], pc'[q] \notin {"absent", "accepted"},
                        ~ reg[Role(q)] = q
                 PROVE  \E w \in Conn : pc'[w] = "replaced" /\ old'[w] = q
      BY DEF NoneLingers
    <2>1. PICK w \in Conn : pc[w] = "replaced" /\ old[w] = q
      BY DEF HubInv, NoneLingers
    <2> QED BY <2>1 DEF HubInv
  <1> QED BY <1>1, <1>2, <1>3 DEF HubInv

\* Connections are closed, and no goroutine moves.
LEMMA Closes ==
  ASSUME HubInv, UNCHANGED <<pc, old, reg, cache>>,
         open' \in [Conn -> BOOLEAN], \A q \in Conn : open'[q] => open[q]
  PROVE  HubInv'
  BY DEF HubInv, NoneLingers, Role

\* A new connection is not registered yet.
LEMMA AcceptInv ==
  ASSUME HubInv, NEW p \in Conn, Accept(p)
  PROVE  HubInv'
  <1>1. pc' = [pc EXCEPT ![p] = "accepted"] /\ open' = [open EXCEPT ![p] = TRUE]
        /\ UNCHANGED <<reg, cache, old>> /\ pc[p] = "absent"
    BY DEF Accept, At, Goto
  <1>2. pc' \in [Conn -> Label] /\ open' \in [Conn -> BOOLEAN]
    BY <1>1 DEF HubInv, Label
  <1>3. \A q \in Conn : pc'[q] \in EndLabel => ~ open'[q]
    BY <1>1 DEF HubInv, EndLabel
  <1>4. NoneLingers'
    <2> SUFFICES ASSUME NEW q \in Conn, open'[q], pc'[q] \notin {"absent", "accepted"},
                        ~ reg[Role(q)] = q
                 PROVE  \E w \in Conn : pc'[w] = "replaced" /\ old'[w] = q
      BY <1>1 DEF NoneLingers, Role
    <2>1. q # p
      BY <1>1 DEF HubInv
    <2>2. PICK w \in Conn : pc[w] = "replaced" /\ old[w] = q
      BY <1>1, <2>1 DEF HubInv, NoneLingers
    <2> QED BY <1>1, <2>2 DEF HubInv
  <1> QED BY <1>1, <1>2, <1>3, <1>4 DEF HubInv

\* Replace keeps hold of the connection it takes out of the registry.
LEMMA ReplaceInv ==
  ASSUME HubInv, NEW p \in Conn, Replace(p)
  PROVE  HubInv'
  <1>1. /\ pc[p] = "accepted" /\ pc' = [pc EXCEPT ![p] = "replaced"]
        /\ old' = [old EXCEPT ![p] = reg[Role(p)]]
        /\ reg' = [reg EXCEPT ![Role(p)] = p]
        /\ open' = open
        /\ cache' \in Conn \cup {Nil}
    BY DEF Replace, At, Goto, HubInv
  <1>2. /\ reg'.app = IF p \in App THEN p ELSE reg.app
        /\ reg'.agent = IF p \in App THEN reg.agent ELSE p
    BY <1>1 DEF HubInv, Role
  <1>3. /\ pc' \in [Conn -> Label]
        /\ old' \in [Conn -> Conn \cup {Nil}]
        /\ reg' \in [{"app", "agent"} -> Conn \cup {Nil}]
    BY <1>1 DEF HubInv, Label, Role
  <1>4. reg'.app \in App \cup {Nil} /\ reg'.agent \in Agent \cup {Nil}
    BY <1>2 DEF HubInv, Conn
  <1>5. \A q \in Conn : pc'[q] \in EndLabel => ~ open'[q]
    BY <1>1 DEF HubInv, EndLabel
  <1>6. NoneLingers'
    <2> SUFFICES ASSUME NEW q \in Conn, open'[q], pc'[q] \notin {"absent", "accepted"},
                        ~ reg'[Role(q)] = q
                 PROVE  \E w \in Conn : pc'[w] = "replaced" /\ old'[w] = q
      BY DEF NoneLingers, Role
    <2>1. q # p
      BY <1>1 DEF HubInv, Role
    <2>2. CASE reg[Role(q)] = q
      <3>1. Role(q) = Role(p)
        BY <1>1, <2>2 DEF HubInv, Role
      <3> QED BY <1>1, <2>2, <3>1 DEF HubInv
    <2>3. CASE ~ reg[Role(q)] = q
      <3>1. PICK w \in Conn : pc[w] = "replaced" /\ old[w] = q
        BY <1>1, <2>1, <2>3 DEF HubInv, NoneLingers
      <3> QED BY <1>1, <3>1 DEF HubInv
    <2> QED BY <2>2, <2>3
  <1> QED BY <1>1, <1>3, <1>4, <1>5, <1>6 DEF HubInv

\* Whom Connect lets go of, it has closed.
LEMMA CloseOldInv ==
  ASSUME HubInv, NEW p \in Conn, CloseOld(p)
  PROVE  HubInv'
  <1>1. PICK label \in {"lookup", "observe", "reading"} : pc' = [pc EXCEPT ![p] = label]
    BY Zenon DEF CloseOld, Goto
  <1>2. /\ pc[p] = "replaced"
        /\ old' = [old EXCEPT ![p] = Nil]
        /\ open' = IF old[p] = Nil THEN open ELSE [open EXCEPT ![old[p]] = FALSE]
        /\ UNCHANGED <<reg, cache>>
    BY DEF CloseOld, At
  <1>3. /\ pc' \in [Conn -> Label]
        /\ old' \in [Conn -> Conn \cup {Nil}]
    BY <1>1, <1>2 DEF HubInv, Label
  <1>4. open' \in [Conn -> BOOLEAN] /\ \A q \in Conn : open'[q] => open[q]
    BY <1>2 DEF HubInv
  <1>5. \A q \in Conn : pc'[q] \in EndLabel => ~ open'[q]
    BY <1>1, <1>4 DEF HubInv, EndLabel
  <1>6. NoneLingers'
    <2> SUFFICES ASSUME NEW q \in Conn, open'[q], pc'[q] \notin {"absent", "accepted"},
                        ~ reg[Role(q)] = q
                 PROVE  \E w \in Conn : pc'[w] = "replaced" /\ old'[w] = q
      BY <1>2 DEF NoneLingers, Role
    <2>1. pc[q] \notin {"absent", "accepted"}
      BY <1>1, <1>2 DEF HubInv
    <2>2. PICK w \in Conn : pc[w] = "replaced" /\ old[w] = q
      BY <1>4, <2>1 DEF HubInv, NoneLingers
    <2>3. w # p
      BY <1>2, <2>2, HubAssumption DEF HubInv, Conn
    <2> QED BY <1>1, <1>2, <2>2, <2>3 DEF HubInv
  <1> QED BY <1>2, <1>3, <1>4, <1>5, <1>6 DEF HubInv

\* Remove takes out a closed connection, and none but its own.
LEMMA RemoveInv ==
  ASSUME HubInv, NEW p \in Conn, Remove(p)
  PROVE  HubInv'
  <1>1. pc[p] = "ended" /\ open' = open /\ old' = old
    BY DEF Remove, At
  <1>2. ~ open[p]
    BY <1>1 DEF HubInv, EndLabel
  <1>3. CASE ~ Registered(p)
    <2>1. reg' = reg /\ cache' = cache /\ pc' = [pc EXCEPT ![p] = "done"]
      BY <1>3 DEF Remove, Goto
    <2> QED BY <1>1, <1>2, <2>1, GoesOn DEF HubInv, Label, EndLabel
  <1>4. CASE Registered(p)
    <2>1. /\ reg[Role(p)] = p
          /\ reg' = [reg EXCEPT ![Role(p)] = Nil]
          /\ cache' \in Conn \cup {Nil}
      BY <1>4 DEF Remove, Registered, HubInv
    <2>2. PICK label \in {"done", "unobserve", "find app"} : pc' = [pc EXCEPT ![p] = label]
      BY <1>4 DEF Remove, Goto
    <2>3. /\ reg' \in [{"app", "agent"} -> Conn \cup {Nil}]
          /\ reg'.app \in App \cup {Nil}
          /\ reg'.agent \in Agent \cup {Nil}
      BY <2>1 DEF HubInv, Role
    <2>4. pc' \in [Conn -> Label] /\ \A q \in Conn : pc'[q] \in EndLabel => ~ open'[q]
      BY <1>1, <1>2, <2>2 DEF HubInv, Label, EndLabel
    <2>5. NoneLingers'
      <3> SUFFICES ASSUME NEW q \in Conn, open'[q], pc'[q] \notin {"absent", "accepted"},
                          ~ reg'[Role(q)] = q
                   PROVE  \E w \in Conn : pc'[w] = "replaced" /\ old'[w] = q
        BY DEF NoneLingers, Role
      <3>1. q # p
        BY <1>1, <1>2
      <3>2. ~ reg[Role(q)] = q
        <4>1. CASE Role(q) = Role(p)
          BY <2>1, <3>1, <4>1
        <4>2. CASE Role(q) # Role(p)
          <5>1. Role(p) \in {"app", "agent"} /\ Role(q) \in {"app", "agent"}
            BY DEF Role
          <5> QED BY <2>1, <4>2, <5>1 DEF HubInv
        <4> QED BY <4>1, <4>2
      <3>3. PICK w \in Conn : pc[w] = "replaced" /\ old[w] = q
        BY <1>1, <2>2, <3>1, <3>2 DEF HubInv, NoneLingers
      <3>4. w # p
        BY <1>1, <3>3
      <3> QED BY <1>1, <2>2, <3>3, <3>4 DEF HubInv
    <2> QED BY <1>1, <2>1, <2>3, <2>4, <2>5 DEF HubInv
  <1> QED BY <1>3, <1>4

\* Shutdown empties the registry and closes what was in it.
LEMMA ShutdownInv ==
  ASSUME HubInv, CloseConnections
  PROVE  HubInv'
  <1>1. /\ open' = [p \in Conn |-> open[p] /\ p # reg.app /\ p # reg.agent]
        /\ reg' = [app |-> Nil, agent |-> Nil]
        /\ cache' = Nil
        /\ UNCHANGED <<pc, old>>
    BY DEF CloseConnections
  <1>2. open' \in [Conn -> BOOLEAN] /\ \A q \in Conn : open'[q] => open[q]
    BY <1>1 DEF HubInv
  <1>3. /\ reg' \in [{"app", "agent"} -> Conn \cup {Nil}]
        /\ reg'.app = Nil /\ reg'.agent = Nil
    BY <1>1
  <1>4. NoneLingers'
    <2> SUFFICES ASSUME NEW q \in Conn, open'[q], pc[q] \notin {"absent", "accepted"}
                 PROVE  \E w \in Conn : pc[w] = "replaced" /\ old[w] = q
      BY <1>1 DEF NoneLingers
    <2>1. open[q] /\ ~ reg[Role(q)] = q
      BY <1>1, Zenon DEF Role
    <2> QED BY <2>1 DEF HubInv, NoneLingers
  <1> QED BY <1>1, <1>2, <1>3, <1>4 DEF HubInv

\* Every step of a goroutine, of a writer or of the coordinator.
LEMMA NextInv ==
  ASSUME HubInv, [Next]_vars
  PROVE  HubInv'
  <1> USE DEF HubInv, Label, EndLabel, At, Goto
  <1>1. CASE UNCHANGED vars
    BY <1>1, Closes DEF vars
  <1>2. ASSUME NEW p \in Conn, Accept(p) PROVE HubInv'
    BY <1>2, AcceptInv
  <1>3. ASSUME NEW p \in Conn, Replace(p) PROVE HubInv'
    BY <1>3, ReplaceInv
  <1>4. ASSUME NEW p \in Conn, CloseOld(p) PROVE HubInv'
    BY <1>4, CloseOldInv
  <1>5. ASSUME NEW p \in Conn, AgentConnected(p) PROVE HubInv'
    BY <1>5, GoesOn DEF AgentConnected
  <1>6. ASSUME NEW p \in Conn, LookUpAgent(p) PROVE HubInv'
    BY <1>6, GoesOn DEF LookUpAgent
  <1>7. ASSUME NEW p \in Conn, SendAgentOffline(p) PROVE HubInv'
    BY <1>7, GoesOn DEF SendAgentOffline, SendOrClose
  <1>8. ASSUME NEW p \in Conn, AgentState(p) PROVE HubInv'
    BY <1>8, GoesOn DEF AgentState
  <1>9. ASSUME NEW p \in Conn, SendAgentState(p) PROVE HubInv'
    BY <1>9, GoesOn DEF SendAgentState, SendOrClose
  <1>10. ASSUME NEW p \in Conn, ReadHello(p) PROVE HubInv'
    BY <1>10, GoesOn DEF ReadHello
  <1>11. ASSUME NEW p \in Conn, ReadCommand(p) PROVE HubInv'
    BY <1>11, GoesOn DEF ReadCommand
  <1>12. ASSUME NEW p \in Conn, AgentMessage(p) PROVE HubInv'
    BY <1>12, GoesOn DEF AgentMessage
  <1>13. ASSUME NEW p \in Conn, RememberAgentState(p) PROVE HubInv'
    BY <1>13, GoesOn DEF RememberAgentState
  <1>14. ASSUME NEW p \in Conn, RouteToApp(p) PROVE HubInv'
    BY <1>14, GoesOn DEF RouteToApp
  <1>15. ASSUME NEW p \in Conn, ForwardHello(p) PROVE HubInv'
    BY <1>15, GoesOn, ZenonT(30) DEF ForwardHello, SendOrClose
  <1>16. ASSUME NEW p \in Conn, RouteToAgent(p) PROVE HubInv'
    BY <1>16, GoesOn DEF RouteToAgent
  <1>17. ASSUME NEW p \in Conn, ForwardCommand(p) PROVE HubInv'
    <2>1. PICK label \in {"reading", "reject"} : pc' = [pc EXCEPT ![p] = label]
      BY <1>17 DEF ForwardCommand
    <2>2. /\ pc[p] = "forward command"
          /\ old' = [old EXCEPT ![p] = Nil]
          /\ open' = open \/ open' = [open EXCEPT ![old[p]] = FALSE]
          /\ UNCHANGED <<reg, cache>>
      BY <1>17 DEF ForwardCommand
    <2> QED BY <2>1, <2>2, GoesOn
  <1>18. ASSUME NEW p \in Conn, Reject(p) PROVE HubInv'
    BY <1>18, GoesOn DEF Reject, SendOrClose
  <1>19. ASSUME NEW p \in Conn, End(p) PROVE HubInv'
    BY <1>19, GoesOn DEF End
  <1>20. ASSUME NEW p \in Conn, AgentDisconnected(p) PROVE HubInv'
    BY <1>20, GoesOn DEF AgentDisconnected
  <1>21. ASSUME NEW p \in Conn, FindApp(p) PROVE HubInv'
    BY <1>21, GoesOn DEF FindApp
  <1>22. ASSUME NEW p \in Conn, TellApp(p) PROVE HubInv'
    BY <1>22, GoesOn, ZenonT(30) DEF TellApp, SendOrClose
  <1>23. ASSUME NEW p \in Conn, Remove(p) PROVE HubInv'
    BY <1>23, RemoveInv
  <1>24. ASSUME NEW p \in Conn, Write(p) \/ WriteFails(p) PROVE HubInv'
    BY <1>24, Closes DEF Write, WriteFails
  <1>25. CASE PresenceLook \/ PresenceSet \/ PresenceSetFails \/ PresenceExpires
    BY <1>25, Closes DEF PresenceLook, PresenceSet, PresenceSetFails, PresenceExpires
  <1>26. CASE CloseConnections
    BY <1>26, ShutdownInv
  <1>27. ASSUME NEW p \in Conn, Serve(p) PROVE HubInv'
    BY <1>27, <1>3, <1>4, <1>5, <1>6, <1>7, <1>8, <1>9, <1>12, <1>13, <1>14, <1>15,
       <1>16, <1>17, <1>18, <1>20, <1>21, <1>22, <1>23 DEF Serve
  <1> QED BY <1>1, <1>2, <1>10, <1>11, <1>19, <1>24, <1>25, <1>26, <1>27 DEF Next, Conn

\* Under every interleaving of connections that come, replace each other, fill up,
\* break and end, HubInv holds.
THEOREM HubCorrect == Spec => []HubInv
  BY InitInv, NextInv, PTL DEF Spec

\* A connection that is neither registered nor closed is about to be closed by the
\* one that replaced it: Connect and Disconnect leave none behind.
THEOREM NoConnectionLingers == Spec => []NoneLingers
  <1>1. HubInv => NoneLingers
    BY DEF HubInv
  <1> QED BY <1>1, HubCorrect, PTL

-----------------------------------------------------------------------------
(* What is owed to an App: the non-temporal part of ClosedIsUnregistered,  *)
(* AgentGoneIsTold and AppLearnsAgent.                                     *)

Holds(s, m) == \E i \in 1 .. Len(s) : s[i] = m

\* The App has received the message, or its writer has it.
Told(p, m) == Holds(seen[p], m) \/ Holds(queue[p], m)

\* A registered connection has a goroutine that still has to take it out of the
\* registry.
RegisteredIsServed ==
  \A p \in Conn :
    reg[Role(p)] = p =>
      pc[p] \notin {"absent", "accepted", "unobserve", "find app", "tell app", "done"}

\* Where the goroutine of an App has yet to look for the Agent or to say that there
\* is none, and that of an Agent to look for the App or to tell App p.
FindsNone(label) == label \in {"replaced", "lookup", "offline"}
TellsOf(p, label, held) ==
  label \in {"unobserve", "find app"} \/ (label = "tell app" /\ held = p)

\* An App connected while there is no Agent has been told so, or its own Connect
\* has yet to find out, or the Disconnect of an Agent has yet to tell it.
OfflineIsOwed ==
  \A p \in App :
    (reg.agent = Nil /\ reg.app = p /\ open[p]) =>
      \/ Told(p, Offline)
      \/ FindsNone(pc[p])
      \/ \E a \in Agent : TellsOf(p, pc[a], old[a])

\* There is no observer that consumes an Agent's hello, and no second Agent.
Alone == ~ Runtime /\ \A a, b \in setup.conns \cap Agent : a = b

\* What a registered Agent has said is remembered.
HelloIsRemembered ==
  Alone => \A a \in Agent : (reg.agent = a /\ said[a] /\ pc[a] # "hello") => cache = a

\* Where the goroutine of an Agent has yet to forward its hello to App p, and that
\* of an App to restore the hello of Agent a.
Forwards(p, label, held) ==
  label \in {"hello", "route"} \/ (label = "forward" /\ held = p)
Restores(a, label, held) ==
  label \in {"replaced", "lookup", "restore"} \/ (label = "restoring" /\ held = a)

\* An App connected together with an Agent that has said hello has been told, or
\* the Agent's goroutine has yet to forward the hello, or the App's own Connect has
\* yet to restore it.
HelloIsOwed ==
  Alone =>
    \A p \in App, a \in Agent :
      (reg.app = p /\ reg.agent = a /\ open[p] /\ said[a]) =>
        \/ Told(p, Hello(a))
        \/ Forwards(p, pc[a], old[a])
        \/ Restores(a, pc[p], old[p])

\* Messages as the queues hold them.
Item == {Hello(a) : a \in Conn \cup {Nil}} \cup {Offline, Rejected, ProjectList, Command}

\* Who has come and has said hello.
SaidInv ==
  /\ queue \in [Conn -> Seq(Item)]
  /\ seen \in [App -> Seq(Item)]
  /\ said \in [Agent -> BOOLEAN]
  /\ \A p \in Conn : pc[p] # "absent" => p \in setup.conns
  /\ \A a \in Agent : said[a] => pc[a] \notin {"absent", "accepted"}
  /\ \A p \in App : pc[p] # "hello"

OwedInv ==
  SaidInv /\ RegisteredIsServed /\ OfflineIsOwed /\ HelloIsRemembered /\ HelloIsOwed

-----------------------------------------------------------------------------
\* The messages about an Agent's state.
News == {Offline} \cup {Hello(a) : a \in Agent}
Kept == \A p \in App, m \in News : Told(p, m) => Told(p, m)'

\* A sequence holds what is appended to it, and what it held before.
LEMMA HoldsAppended ==
  ASSUME NEW S, NEW s \in Seq(S), NEW x \in S
  PROVE  /\ Append(s, x) \in Seq(S) /\ Holds(Append(s, x), x)
         /\ \A m : Holds(s, m) => Holds(Append(s, x), m)
  <1>1. Append(s, x) \in Seq(S) /\ Len(Append(s, x)) = Len(s) + 1
    OBVIOUS
  <1>2. Append(s, x)[Len(s) + 1] = x /\ \A i \in 1 .. Len(s) : Append(s, x)[i] = s[i]
    OBVIOUS
  <1>3. Len(s) \in Nat
    OBVIOUS
  <1> QED BY <1>1, <1>2, <1>3 DEF Holds

\* A sequence without its head holds the rest.
LEMMA HoldsTail ==
  ASSUME NEW S, NEW s \in Seq(S), s # <<>>
  PROVE  /\ Tail(s) \in Seq(S) /\ Head(s) \in S
         /\ \A m : Holds(s, m) => m = Head(s) \/ Holds(Tail(s), m)
  <1>1. Tail(s) \in Seq(S) /\ Head(s) \in S /\ Len(Tail(s)) = Len(s) - 1 /\ Len(s) \in Nat
    OBVIOUS
  <1>2. ASSUME NEW m, Holds(s, m), m # Head(s) PROVE Holds(Tail(s), m)
    <2>1. PICK i \in 1 .. Len(s) : s[i] = m
      BY <1>2 DEF Holds
    <2>2. i # 1
      BY <1>2, <2>1
    <2>3. i - 1 \in 1 .. Len(Tail(s)) /\ Tail(s)[i - 1] = m
      BY <1>1, <2>1, <2>2
    <2> QED BY <2>3 DEF Holds
  <1> QED BY <1>1, <1>2

\* Sending adds to a queue.
LEMMA SendKeeps ==
  ASSUME SaidInv, NEW q, NEW x \in Item, UNCHANGED seen,
         UNCHANGED queue \/ Enqueue(q, x)
  PROVE  Kept /\ queue' \in [Conn -> Seq(Item)] /\ seen' \in [App -> Seq(Item)]
  <1>1. CASE UNCHANGED queue
    BY <1>1 DEF SaidInv, Kept, Told
  <1>2. CASE Enqueue(q, x)
    <2>1. queue' = [queue EXCEPT ![q] = Append(queue[q], x)]
      BY <1>2 DEF Enqueue
    <2>2. ASSUME NEW r \in Conn
          PROVE  queue'[r] \in Seq(Item) /\ \A m : Holds(queue[r], m) => Holds(queue'[r], m)
      <3>1. queue[r] \in Seq(Item)
        BY DEF SaidInv
      <3>2. CASE r = q
        BY <2>1, <3>1, <3>2, HoldsAppended DEF SaidInv
      <3>3. CASE r # q
        BY <2>1, <3>1, <3>3 DEF SaidInv
      <3> QED BY <3>2, <3>3
    <2>3. queue' \in [Conn -> Seq(Item)]
      BY <2>1, <2>2, Zenon DEF SaidInv
    <2> QED BY <2>2, <2>3, Zenon DEF SaidInv, Kept, Told, Conn
  <1> QED BY <1>1, <1>2

\* Writing moves news from an App's queue to what it has seen.
LEMMA WriteKeeps ==
  ASSUME SaidInv, NEW q \in Conn, Write(q)
  PROVE  Kept /\ queue' \in [Conn -> Seq(Item)] /\ seen' \in [App -> Seq(Item)]
  <1>1. /\ queue[q] \in Seq(Item) /\ queue[q] # <<>>
        /\ queue' = [queue EXCEPT ![q] = Tail(queue[q])]
    BY DEF Write, SaidInv
  <1>2. Tail(queue[q]) \in Seq(Item) /\ Head(queue[q]) \in Item
        /\ \A m : Holds(queue[q], m) => m = Head(queue[q]) \/ Holds(Tail(queue[q]), m)
    BY <1>1, HoldsTail
  <1>3. queue' \in [Conn -> Seq(Item)]
    BY <1>1, <1>2 DEF SaidInv
  <1>4. \A m \in News : m[1] \in {"agent.hello", "agent.status"}
    BY DEF News, Hello, Offline
  <1>5. CASE q \in App /\ Head(queue[q])[1] \in {"agent.hello", "agent.status"}
    <2>1. seen' = [seen EXCEPT ![q] = Append(seen[q], Head(queue[q]))] /\ seen[q] \in Seq(Item)
      BY <1>5 DEF Write, SaidInv
    <2>2. /\ Append(seen[q], Head(queue[q])) \in Seq(Item)
          /\ Holds(Append(seen[q], Head(queue[q])), Head(queue[q]))
          /\ \A m : Holds(seen[q], m) => Holds(Append(seen[q], Head(queue[q])), m)
      BY <1>2, <2>1, HoldsAppended
    <2>3. seen' \in [App -> Seq(Item)] /\ seen'[q] = Append(seen[q], Head(queue[q]))
      BY <1>5, <2>1, <2>2 DEF SaidInv
    <2>4. ASSUME NEW p \in App, NEW m \in News, Told(p, m) PROVE Told(p, m)'
      <3>1. CASE p = q
        <4>1. queue'[p] = Tail(queue[q]) /\ seen'[p] = Append(seen[q], Head(queue[q]))
          BY <1>1, <2>3, <3>1 DEF SaidInv
        <4> QED BY <1>2, <2>2, <2>4, <3>1, <4>1 DEF Told
      <3>2. CASE p # q
        <4>1. queue'[p] = queue[p] /\ seen'[p] = seen[p]
          BY <1>1, <2>1, <3>2 DEF SaidInv, Conn
        <4> QED BY <2>4, <4>1 DEF Told
      <3> QED BY <3>1, <3>2
    <2> QED BY <1>3, <2>3, <2>4 DEF Kept
  <1>6. CASE ~ (q \in App /\ Head(queue[q])[1] \in {"agent.hello", "agent.status"})
    <2>1. seen' = seen
      BY <1>6 DEF Write
    <2>2. ASSUME NEW p \in App, NEW m \in News, Told(p, m) PROVE Told(p, m)'
      <3>1. CASE p = q
        <4>1. queue'[p] = Tail(queue[q]) /\ m # Head(queue[q])
          BY <1>1, <1>4, <1>6, <3>1 DEF SaidInv
        <4> QED BY <1>2, <2>1, <2>2, <3>1, <4>1 DEF Told
      <3>2. CASE p # q
        <4>1. queue'[p] = queue[p]
          BY <1>1, <3>2 DEF SaidInv, Conn
        <4> QED BY <2>1, <2>2, <4>1 DEF Told
      <3> QED BY <3>1, <3>2
    <2> QED BY <1>3, <2>1, <2>2 DEF Kept, SaidInv
  <1> QED BY <1>5, <1>6

-----------------------------------------------------------------------------
\* A goroutine goes on; the registry and what Agents have said stay, and with
\* Passes the cache too.
Moves(q, label) ==
  /\ pc' = [pc EXCEPT ![q] = label]
  /\ \A r \in Conn \ {q} : old'[r] = old[r]
  /\ \A r \in Conn : open'[r] => open[r]
  /\ UNCHANGED <<reg, said, setup>>
Passes(q, label) == Moves(q, label) /\ UNCHANGED cache

\* A goroutine that has yet to bring the news that there is no Agent brings it or
\* goes on to do so.
BringsOffline(q, label) ==
  \A p \in App :
    (reg.agent = Nil /\ reg.app = p /\ open'[p]) =>
      /\ (p = q /\ FindsNone(pc[q])) => Told(p, Offline)' \/ FindsNone(label)
      /\ (q \in Agent /\ TellsOf(p, pc[q], old[q])) =>
           Told(p, Offline)' \/ TellsOf(p, label, old'[q])

\* The same for an Agent's hello; an App that finds nothing remembered comes before
\* the Agent has looked for it.
BringsHello(q, label) ==
  \A p \in App, a \in Agent :
    (Alone /\ reg.app = p /\ reg.agent = a /\ open'[p] /\ said[a]) =>
      /\ (q = a /\ Forwards(p, pc[q], old[q])) =>
           Told(p, Hello(a))' \/ Forwards(p, label, old'[q])
      /\ (q = p /\ Restores(a, pc[q], old[q])) =>
           Told(p, Hello(a))' \/ Restores(a, label, old'[q]) \/ pc[a] = "hello"

Away == {"absent", "accepted", "unobserve", "find app", "tell app", "done"}

\* Only Remove leads a registered connection's goroutine to where it no longer
\* removes it.
LEMMA ServedPasses ==
  ASSUME HubInv, OwedInv, NEW q \in Conn, NEW label, Moves(q, label),
         label \in Away => pc[q] \in Away
  PROVE  RegisteredIsServed'
  BY DEF HubInv, OwedInv, RegisteredIsServed, Moves, Away, Role

\* A goroutine that is already here and has said hello remains so.
LEMMA SaidPasses ==
  ASSUME HubInv, OwedInv, NEW q \in Conn, NEW label, Moves(q, label),
         label \notin {"absent", "accepted"}, pc[q] # "absent", label # "hello",
         queue' \in [Conn -> Seq(Item)], seen' \in [App -> Seq(Item)]
  PROVE  SaidInv'
  BY DEF HubInv, OwedInv, SaidInv, Moves, Conn

\* A goroutine that goes on to the next label passes the offline news on to it.
LEMMA OfflinePasses ==
  ASSUME HubInv, OwedInv, Kept, NEW q \in Conn, NEW label, Moves(q, label),
         BringsOffline(q, label)
  PROVE  OfflineIsOwed'
  <1> SUFFICES ASSUME NEW p \in App, reg.agent = Nil, reg.app = p, open'[p]
               PROVE  \/ Told(p, Offline)'
                      \/ FindsNone(pc'[p])
                      \/ \E a \in Agent : TellsOf(p, pc'[a], old'[a])
    BY DEF OfflineIsOwed, Moves, FindsNone, TellsOf
  <1>1. \/ Told(p, Offline)
        \/ FindsNone(pc[p])
        \/ \E a \in Agent : TellsOf(p, pc[a], old[a])
    BY DEF OwedInv, OfflineIsOwed, Moves, Conn
  <1>2. pc'[q] = label /\ \A w \in Conn \ {q} : pc'[w] = pc[w] /\ old'[w] = old[w]
    BY DEF Moves, HubInv
  <1>3. CASE Told(p, Offline)
    BY <1>3 DEF Kept, News
  <1>4. CASE FindsNone(pc[p])
    BY <1>2, <1>4 DEF Conn, BringsOffline
  <1>5. ASSUME NEW a \in Agent, TellsOf(p, pc[a], old[a])
        PROVE  Told(p, Offline)' \/ TellsOf(p, pc'[a], old'[a])
    BY <1>2, <1>5 DEF Conn, BringsOffline
  <1> QED BY <1>1, <1>3, <1>4, <1>5

\* The same for the hello the App is owed.
LEMMA HelloOwedPasses ==
  ASSUME HubInv, OwedInv, Kept, NEW q \in Conn, NEW label, Moves(q, label),
         BringsHello(q, label)
  PROVE  HelloIsOwed'
  <1>1. Alone' = Alone
    BY DEF Moves, Alone, Runtime
  <1>2. ASSUME Alone, NEW p \in App, NEW a \in Agent,
               reg.app = p, reg.agent = a, open'[p], said[a]
        PROVE  \/ Told(p, Hello(a))'
               \/ Forwards(p, pc'[a], old'[a])
               \/ Restores(a, pc'[p], old'[p])
    <2>1. \/ Told(p, Hello(a))
          \/ Forwards(p, pc[a], old[a])
          \/ Restores(a, pc[p], old[p])
      BY <1>2 DEF OwedInv, HelloIsOwed, Moves, Conn
    <2>2. /\ pc'[q] = label /\ \A w \in Conn \ {q} : pc'[w] = pc[w] /\ old'[w] = old[w]
          /\ a \in Conn /\ p \in Conn
      BY DEF Moves, HubInv, Conn
    <2>3. CASE Told(p, Hello(a))
      BY <2>3 DEF Kept, News
    <2>4. CASE Forwards(p, pc[a], old[a])
      BY <1>2, <2>2, <2>4 DEF BringsHello
    <2>5. CASE Restores(a, pc[p], old[p])
      <3>1. CASE q = p
        <4>1. pc[a] = "hello" => pc'[a] = "hello"
          BY <2>2, <3>1, HubAssumption
        <4> QED BY <1>2, <2>2, <2>5, <3>1, <4>1 DEF Forwards, BringsHello
      <3>2. CASE q # p
        BY <2>2, <2>5, <3>2
      <3> QED BY <3>1, <3>2
    <2> QED BY <2>1, <2>3, <2>4, <2>5
  <1> QED BY <1>1, <1>2 DEF HelloIsOwed, Moves, Forwards, Restores

\* The same for the hello remembered in the cache.
LEMMA HelloPasses ==
  ASSUME HubInv, OwedInv, Kept, NEW q \in Conn, NEW label, Passes(q, label),
         pc[q] # "hello",
         BringsHello(q, label)
  PROVE  HelloIsRemembered' /\ HelloIsOwed'
  <1>1. Alone' = Alone
    BY DEF Passes, Moves, Alone, Runtime
  <1>2. HelloIsRemembered'
    BY <1>1 DEF OwedInv, HelloIsRemembered, Passes, Moves, HubInv, Conn
  <1> QED BY <1>2, HelloOwedPasses DEF Passes

\* A step of a goroutine between the points where something is owed.
LEMMA OwedPasses ==
  ASSUME HubInv, OwedInv, NEW q \in Conn, NEW label, Passes(q, label),
         Kept, queue' \in [Conn -> Seq(Item)], seen' \in [App -> Seq(Item)],
         pc[q] \in {"observe", "reading", "command", "forward command", "reject"},
         label \notin Away \cup {"hello"}
  PROVE  OwedInv'
  <1>1. SaidInv' /\ RegisteredIsServed'
    BY SaidPasses, ServedPasses DEF Away, Passes
  <1>2. OfflineIsOwed'
    BY OfflinePasses DEF Passes, BringsOffline, FindsNone, TellsOf
  <1>3. HelloIsRemembered' /\ HelloIsOwed'
    BY HelloPasses DEF BringsHello, Forwards, Restores
  <1> QED BY <1>1, <1>2, <1>3 DEF OwedInv

\* Nothing but a queue, the presence key or a closed connection changes.
LEMMA OwedStays ==
  ASSUME HubInv, OwedInv, Kept, queue' \in [Conn -> Seq(Item)], seen' \in [App -> Seq(Item)],
         UNCHANGED <<pc, old, reg, cache, said, setup>>, \A r \in Conn : open'[r] => open[r]
  PROVE  OwedInv'
  <1>1. SaidInv' /\ RegisteredIsServed'
    BY DEF OwedInv, SaidInv, RegisteredIsServed, Role
  <1>2. OfflineIsOwed'
    BY DEF OwedInv, OfflineIsOwed, Kept, News, Conn, FindsNone, TellsOf
  <1>3. Alone' = Alone
    BY DEF Alone, Runtime
  <1>4. HelloIsRemembered'
    BY <1>3 DEF OwedInv, HelloIsRemembered
  <1>5. \A p \in App, a \in Agent : Told(p, Hello(a)) => Told(p, Hello(a))'
    BY DEF Kept, News
  <1>6. HelloIsOwed'
    BY <1>3, <1>5 DEF OwedInv, HelloIsOwed, Conn, Forwards, Restores
  <1> QED BY <1>1, <1>2, <1>4, <1>6 DEF OwedInv

\* At first nobody is registered and nothing is owed.
LEMMA OwedInit == Init => OwedInv
  <1> SUFFICES ASSUME Init PROVE OwedInv
    OBVIOUS
  <1>1. /\ reg.app = Nil /\ reg.agent = Nil
        /\ \A p \in Conn : pc[p] = "absent"
        /\ \A a \in Agent : said[a] = FALSE
    BY DEF Init, Conn
  <1>2. queue \in [Conn -> Seq(Item)] /\ seen \in [App -> Seq(Item)] /\ said \in [Agent -> BOOLEAN]
    BY DEF Init
  <1>3. SaidInv
    BY <1>1, <1>2 DEF SaidInv, Conn
  <1>4. RegisteredIsServed
    BY <1>1, HubAssumption, RegOfRole DEF RegisteredIsServed, Conn
  <1>5. OfflineIsOwed /\ HelloIsRemembered /\ HelloIsOwed
    BY <1>1, HubAssumption DEF OfflineIsOwed, HelloIsRemembered, HelloIsOwed
  <1> QED BY <1>3, <1>4, <1>5 DEF OwedInv

\* Who is sent a message has it in the queue or is closed.
LEMMA SendTells ==
  ASSUME HubInv, SaidInv, NEW q \in Conn \cup {Nil}, NEW m \in Item, SendOrClose(q, m),
         UNCHANGED seen
  PROVE  /\ Kept /\ queue' \in [Conn -> Seq(Item)] /\ seen' \in [App -> Seq(Item)]
         /\ \A r \in Conn : open'[r] => open[r]
         /\ q \in App /\ open'[q] => Told(q, m)'
  <1>1. UNCHANGED queue \/ Enqueue(q, m)
    BY DEF SendOrClose
  <1>2. \A r \in Conn : open'[r] => open[r]
    BY DEF SendOrClose, HubInv
  <1>3. ASSUME q \in App, open'[q] PROVE Told(q, m)'
    <2>1. q \in Conn /\ queue[q] \in Seq(Item)
      BY <1>3 DEF Conn, SaidInv
    <2>2. Enqueue(q, m)
      BY <1>3, <2>1 DEF SendOrClose, HubInv
    <2>3. queue'[q] = Append(queue[q], m)
      BY <2>1, <2>2 DEF Enqueue, SaidInv
    <2>4. Holds(queue'[q], m)
      BY <2>1, <2>3, HoldsAppended
    <2> QED BY <2>4 DEF Told
  <1> QED BY <1>1, <1>2, <1>3, SendKeeps

\* A new connection is owed nothing until Connect registers it.
LEMMA OwedAccept ==
  ASSUME HubInv, OwedInv, NEW q \in Conn, Accept(q)
  PROVE  OwedInv'
  <1>1. /\ pc[q] = "absent" /\ pc' = [pc EXCEPT ![q] = "accepted"] /\ q \in setup.conns
        /\ open' = [open EXCEPT ![q] = TRUE]
        /\ UNCHANGED <<reg, cache, queue, old, said, seen, setup>>
    BY DEF Accept, At, Goto
  <1>2. pc'[q] = "accepted" /\ \A r \in Conn \ {q} : pc'[r] = pc[r] /\ open'[r] = open[r]
    BY <1>1 DEF HubInv
  <1>3. reg[Role(q)] # q
    BY <1>1 DEF OwedInv, RegisteredIsServed
  <1>4. reg.app # q /\ reg.agent # q
    BY <1>3, HubAssumption, RegOfRole DEF Conn, HubInv
  <1>5. SaidInv'
    BY <1>1, <1>2 DEF OwedInv, SaidInv, Conn
  <1>6. RegisteredIsServed'
    BY <1>1, <1>2, <1>3 DEF OwedInv, RegisteredIsServed, Role
  <1>7. OfflineIsOwed'
    <2> SUFFICES ASSUME NEW p \in App, reg.agent = Nil, reg.app = p, open'[p]
                 PROVE  \/ Told(p, Offline)
                        \/ FindsNone(pc'[p])
                        \/ \E a \in Agent : TellsOf(p, pc'[a], old[a])
      BY <1>1 DEF OfflineIsOwed, Told, FindsNone, TellsOf
    <2>1. open[p] /\ pc'[p] = pc[p]
      BY <1>2, <1>4 DEF Conn
    <2>2. \A a \in Agent : TellsOf(p, pc[a], old[a]) => TellsOf(p, pc'[a], old[a])
      BY <1>1, <1>2 DEF TellsOf, Conn
    <2> QED BY <2>1, <2>2 DEF OwedInv, OfflineIsOwed
  <1>8. Alone' = Alone
    BY <1>1 DEF Alone, Runtime
  <1>9. HelloIsRemembered'
    BY <1>1, <1>2, <1>8 DEF OwedInv, HelloIsRemembered, Conn
  <1>10. HelloIsOwed'
    <2> SUFFICES ASSUME Alone, NEW p \in App, NEW a \in Agent,
                        reg.app = p, reg.agent = a, open'[p], said[a]
                 PROVE  \/ Told(p, Hello(a))
                        \/ Forwards(p, pc'[a], old[a])
                        \/ Restores(a, pc'[p], old[p])
      BY <1>1, <1>8 DEF HelloIsOwed, Told, Forwards, Restores
    <2>1. open[p] /\ pc'[p] = pc[p] /\ pc'[a] = pc[a]
      BY <1>2, <1>4 DEF Conn
    <2> QED BY <2>1 DEF OwedInv, HelloIsOwed
  <1> QED BY <1>5, <1>6, <1>7, <1>9, <1>10 DEF OwedInv

\* Connect registers the connection: from here on it owes what it will send.
LEMMA OwedReplace ==
  ASSUME HubInv, OwedInv, NEW q \in Conn, Replace(q)
  PROVE  OwedInv'
  <1>1. /\ pc[q] = "accepted" /\ pc' = [pc EXCEPT ![q] = "replaced"]
        /\ reg' = [reg EXCEPT ![Role(q)] = q]
        /\ cache' = IF q \in Agent THEN Nil ELSE cache
        /\ \A r \in Conn \ {q} : old'[r] = old[r]
        /\ UNCHANGED <<open, queue, said, seen, setup>>
    BY DEF Replace, At, Goto, HubInv
  <1>2. pc'[q] = "replaced" /\ \A r \in Conn \ {q} : pc'[r] = pc[r]
    BY <1>1 DEF HubInv
  <1>3. /\ q \in App => reg'.app = q /\ reg'.agent = reg.agent
        /\ q \in Agent => reg'.agent = q /\ reg'.app = reg.app
    BY <1>1, HubAssumption DEF HubInv, Role
  <1>4. SaidInv'
    BY <1>1, <1>2 DEF OwedInv, SaidInv, Conn
  <1>5. RegisteredIsServed'
    <2> SUFFICES ASSUME NEW r \in Conn, reg'[Role(r)] = r, r # q PROVE pc'[r] \notin Away
      BY <1>2 DEF RegisteredIsServed, Role, Away
    <2>1. reg[Role(r)] = r
      BY <1>1 DEF HubInv, Role
    <2> QED BY <1>2, <2>1 DEF OwedInv, RegisteredIsServed, Away
  <1>6. OfflineIsOwed'
    <2> SUFFICES ASSUME NEW p \in App, reg'.agent = Nil, reg'.app = p, open[p], p # q
                 PROVE  \/ Told(p, Offline)
                        \/ FindsNone(pc'[p])
                        \/ \E a \in Agent : TellsOf(p, pc'[a], old'[a])
      BY <1>1, <1>2 DEF OfflineIsOwed, Told, FindsNone, TellsOf
    <2>1. FALSE
      BY <1>3, HubAssumption DEF Conn
    <2> QED BY <2>1
  <1>7. Alone' = Alone
    BY <1>1 DEF Alone, Runtime
  <1>8. HelloIsRemembered'
    <2> SUFFICES ASSUME Alone, NEW a \in Agent, reg'.agent = a, said[a], pc'[a] # "hello"
                 PROVE  cache' = a
      BY <1>1, <1>7 DEF HelloIsRemembered
    <2>1. a # q
      BY <1>1 DEF OwedInv, SaidInv
    <2>2. q \in App /\ reg.agent = a /\ pc[a] = pc'[a]
      BY <1>2, <1>3, <2>1 DEF Conn
    <2>3. cache' = cache
      BY <1>1, <2>2, HubAssumption
    <2> QED BY <2>2, <2>3 DEF OwedInv, HelloIsRemembered
  <1>9. HelloIsOwed'
    <2> SUFFICES ASSUME Alone, NEW p \in App, NEW a \in Agent,
                        reg'.app = p, reg'.agent = a, open[p], said[a], p # q
                 PROVE  FALSE
      BY <1>1, <1>2, <1>7 DEF HelloIsOwed, Told, Forwards, Restores
    <2>1. q = a
      BY <1>3 DEF Conn
    <2> QED BY <1>1, <2>1 DEF OwedInv, SaidInv
  <1> QED BY <1>4, <1>5, <1>6, <1>8, <1>9 DEF OwedInv

\* What becomes of an owed message when a goroutine goes on: a summary of the
\* lemmas above.
LEMMA OwedGoesOn ==
  ASSUME HubInv, OwedInv, NEW q \in Conn, NEW label, Passes(q, label),
         Kept, queue' \in [Conn -> Seq(Item)], seen' \in [App -> Seq(Item)],
         pc[q] \notin {"absent", "hello"}, label \notin {"absent", "accepted", "hello"},
         label \in Away => pc[q] \in Away,
         BringsOffline(q, label),
         BringsHello(q, label)
  PROVE  OwedInv'
  <1>1. SaidInv' /\ RegisteredIsServed'
    BY SaidPasses, ServedPasses DEF Passes
  <1>2. OfflineIsOwed'
    BY OfflinePasses DEF Passes
  <1>3. HelloIsRemembered' /\ HelloIsOwed'
    BY HelloPasses
  <1> QED BY <1>1, <1>2, <1>3 DEF OwedInv

\* No queue changes.
LEMMA QueuesKept ==
  ASSUME OwedInv, UNCHANGED <<queue, seen>>
  PROVE  Kept /\ queue' \in [Conn -> Seq(Item)] /\ seen' \in [App -> Seq(Item)]
  BY DEF OwedInv, SaidInv, Kept, Told

\* The rest of Connect: the App is told what the registry and the cache held.
LEMMA OwedConnect ==
  ASSUME HubInv, OwedInv, NEW q \in Conn,
         CloseOld(q) \/ LookUpAgent(q) \/ SendAgentOffline(q) \/ AgentState(q) \/ SendAgentState(q)
  PROVE  OwedInv'
  <1> USE DEF At, Goto
  <1>1. CASE CloseOld(q)
    <2>1. PICK label \in {"lookup", "observe", "reading"} :
            Passes(q, label) /\ (q \in App => label = "lookup")
      BY <1>1, Zenon DEF CloseOld, Passes, Moves, HubInv
    <2>2. pc[q] = "replaced" /\ UNCHANGED <<queue, seen>>
      BY <1>1 DEF CloseOld
    <2>3. BringsOffline(q, label) /\ BringsHello(q, label)
      BY <2>1, <2>2 DEF BringsOffline, BringsHello, FindsNone, TellsOf, Forwards, Restores
    <2> QED BY <2>1, <2>2, <2>3, QueuesKept, OwedGoesOn DEF Away
  <1>2. CASE LookUpAgent(q)
    <2>1. PICK label \in {"offline", "restore"} :
            Passes(q, label) /\ (IF reg.agent = Nil THEN label = "offline" ELSE label = "restore")
      BY <1>2, Zenon DEF LookUpAgent, Passes, Moves
    <2>2. pc[q] = "lookup" /\ UNCHANGED <<queue, seen>>
      BY <1>2 DEF LookUpAgent
    <2>3. BringsOffline(q, label)
      BY <2>1, <2>2 DEF BringsOffline, FindsNone, TellsOf
    <2>4. BringsHello(q, label)
      BY <2>1, <2>2, HubAssumption DEF BringsHello, Forwards, Restores
    <2> QED BY <2>1, <2>2, <2>3, <2>4, QueuesKept, OwedGoesOn DEF Away
  <1>3. CASE SendAgentOffline(q)
    <2>1. pc[q] = "offline" /\ SendOrClose(q, Offline) /\ UNCHANGED seen
      BY <1>3 DEF SendAgentOffline
    <2>2. /\ Kept /\ queue' \in [Conn -> Seq(Item)] /\ seen' \in [App -> Seq(Item)]
          /\ \A r \in Conn : open'[r] => open[r]
          /\ q \in App /\ open'[q] => Told(q, Offline)'
      BY <2>1, SendTells DEF Item, OwedInv
    <2>3. Passes(q, "reading")
      BY <1>3, <2>2 DEF SendAgentOffline, Passes, Moves
    <2>4. BringsOffline(q, "reading") /\ BringsHello(q, "reading")
      BY <2>1, <2>2 DEF BringsOffline, BringsHello, FindsNone, TellsOf, Forwards, Restores
    <2> QED BY <2>1, <2>2, <2>3, <2>4, OwedGoesOn DEF Away
  <1>4. CASE AgentState(q)
    <2>1. PICK label \in {"reading", "restoring"} :
            Passes(q, label) /\ (IF cache = Nil THEN label = "reading" ELSE label = "restoring")
      BY <1>4, Zenon DEF AgentState, Passes, Moves, HubInv
    <2>2. pc[q] = "restore" /\ UNCHANGED <<queue, seen>> /\ old'[q] = cache
      BY <1>4 DEF AgentState, HubInv
    <2>3. ASSUME NEW a \in Agent, Alone, reg.agent = a, said[a], pc[a] # "hello"
          PROVE  label = "restoring" /\ old'[q] = a
      <3>1. cache = a
        BY <2>3 DEF OwedInv, HelloIsRemembered
      <3> QED BY <2>1, <2>2, <3>1, HubAssumption
    <2>4. BringsOffline(q, label)
      BY <2>2 DEF BringsOffline, FindsNone, TellsOf
    <2>5. BringsHello(q, label)
      BY <2>2, <2>3 DEF BringsHello, Forwards, Restores
    <2> QED BY <2>1, <2>2, <2>4, <2>5, QueuesKept, OwedGoesOn DEF Away
  <1>5. CASE SendAgentState(q)
    <2>1. PICK x \in Conn \cup {Nil} : x = old[q]
      BY DEF HubInv
    <2>2. pc[q] = "restoring" /\ SendOrClose(q, Hello(x)) /\ UNCHANGED seen
      BY <1>5, <2>1 DEF SendAgentState
    <2>3. Hello(x) \in Item
      BY DEF Item
    <2>4. /\ Kept /\ queue' \in [Conn -> Seq(Item)] /\ seen' \in [App -> Seq(Item)]
          /\ \A r \in Conn : open'[r] => open[r]
          /\ q \in App /\ open'[q] => Told(q, Hello(x))'
      BY <2>2, <2>3, SendTells DEF OwedInv
    <2>5. Passes(q, "reading")
      BY <1>5, <2>4 DEF SendAgentState, Passes, Moves, HubInv
    <2>6. BringsOffline(q, "reading")
      BY <2>2 DEF BringsOffline, FindsNone, TellsOf
    <2>7. BringsHello(q, "reading")
      BY <2>1, <2>2, <2>4 DEF BringsHello, Forwards, Restores
    <2> QED BY <2>2, <2>4, <2>5, <2>6, <2>7, OwedGoesOn DEF Away
  <1> QED BY <1>1, <1>2, <1>3, <1>4, <1>5

\* An Agent's hello is read, remembered and forwarded, or consumed by the observer.
LEMMA OwedReadHello ==
  ASSUME HubInv, OwedInv, NEW q \in Agent, ReadHello(q)
  PROVE  OwedInv'
  <1>1. /\ pc[q] = "reading" /\ pc' = [pc EXCEPT ![q] = "hello"]
        /\ said' = [said EXCEPT ![q] = TRUE]
        /\ UNCHANGED <<reg, cache, open, queue, old, seen, setup>>
    BY DEF ReadHello, At, Goto
  <1>2. /\ pc'[q] = "hello" /\ \A r \in Conn \ {q} : pc'[r] = pc[r]
        /\ \A a \in Agent \ {q} : said'[a] = said[a]
    BY <1>1 DEF HubInv, OwedInv, SaidInv, Conn
  <1>3. SaidInv'
    BY <1>1, <1>2, HubAssumption DEF OwedInv, SaidInv, Conn
  <1>4. RegisteredIsServed'
    BY <1>1, <1>2 DEF OwedInv, RegisteredIsServed, Role
  <1>5. OfflineIsOwed'
    <2> SUFFICES ASSUME NEW p \in App, reg.agent = Nil, reg.app = p, open[p]
                 PROVE  \/ Told(p, Offline)
                        \/ FindsNone(pc'[p])
                        \/ \E a \in Agent : TellsOf(p, pc'[a], old[a])
      BY <1>1 DEF OfflineIsOwed, Told, FindsNone, TellsOf
    <2>1. pc'[p] = pc[p]
      BY <1>2, HubAssumption DEF Conn
    <2>2. \A a \in Agent : TellsOf(p, pc[a], old[a]) => TellsOf(p, pc'[a], old[a])
      BY <1>1, <1>2 DEF TellsOf, Conn
    <2> QED BY <2>1, <2>2 DEF OwedInv, OfflineIsOwed
  <1>6. Alone' = Alone
    BY <1>1 DEF Alone, Runtime
  <1>7. HelloIsRemembered'
    BY <1>1, <1>2, <1>6 DEF OwedInv, HelloIsRemembered, Conn
  <1>8. HelloIsOwed'
    <2> SUFFICES ASSUME Alone, NEW p \in App, NEW a \in Agent,
                        reg.app = p, reg.agent = a, open[p], said'[a]
                 PROVE  \/ Told(p, Hello(a))
                        \/ Forwards(p, pc'[a], old[a])
                        \/ Restores(a, pc'[p], old[p])
      BY <1>1, <1>6 DEF HelloIsOwed, Told, Forwards, Restores
    <2>1. pc'[p] = pc[p]
      BY <1>2, HubAssumption DEF Conn
    <2>2. CASE a = q
      BY <1>2, <2>2 DEF Forwards
    <2>3. CASE a # q
      BY <1>2, <2>1, <2>3 DEF OwedInv, HelloIsOwed, Conn
    <2> QED BY <2>2, <2>3
  <1> QED BY <1>3, <1>4, <1>5, <1>7, <1>8 DEF OwedInv

\* Handle remembers the hello, or finds the Agent replaced.
LEMMA OwedRemember ==
  ASSUME HubInv, OwedInv, NEW q \in Conn, AgentMessage(q) \/ RememberAgentState(q)
  PROVE  OwedInv'
  <1> USE DEF At, Goto
  <1>1. pc[q] = "hello" /\ UNCHANGED <<queue, seen>>
    BY DEF AgentMessage, RememberAgentState
  <1>2. PICK label \in {"reading", "route"} :
          /\ Moves(q, label)
          /\ (AgentMessage(q) /\ Runtime) \/ (RememberAgentState(q) /\ label = "route")
    BY DEF AgentMessage, RememberAgentState, Moves
  <1>3. Kept /\ queue' \in [Conn -> Seq(Item)] /\ seen' \in [App -> Seq(Item)]
    BY <1>1, QueuesKept
  <1>4. SaidInv' /\ RegisteredIsServed'
    BY <1>1, <1>2, <1>3, SaidPasses, ServedPasses DEF Away
  <1>5. BringsOffline(q, label)
    BY <1>1 DEF BringsOffline, FindsNone, TellsOf
  <1>6. OfflineIsOwed'
    BY <1>2, <1>3, <1>5, OfflinePasses
  <1>7. CASE AgentMessage(q) /\ Runtime
    <2>1. ~ Alone'
      BY <1>2, <1>7 DEF Alone, Runtime, Moves
    <2> QED BY <1>4, <1>6, <2>1 DEF OwedInv, HelloIsRemembered, HelloIsOwed
  <1>8. CASE RememberAgentState(q) /\ label = "route"
    <2>1. BringsHello(q, label)
      BY <1>1, <1>8 DEF BringsHello, Forwards, Restores
    <2>2. HelloIsOwed'
      BY <1>2, <1>3, <2>1, HelloOwedPasses
    <2>3. cache' = q /\ UNCHANGED <<reg, said, setup>>
      BY <1>8 DEF RememberAgentState
    <2>4. ASSUME Alone, NEW a \in Agent, reg.agent = a, said[a] PROVE a = q
      <3>1. a \in setup.conns /\ q \in setup.conns /\ q \in Agent
        BY <1>1, <2>4 DEF OwedInv, SaidInv, Conn
      <3> QED BY <2>4, <3>1 DEF Alone
    <2>5. Alone' = Alone
      BY <2>3 DEF Alone, Runtime
    <2>6. HelloIsRemembered'
      BY <2>3, <2>4, <2>5 DEF HelloIsRemembered
    <2> QED BY <1>4, <1>6, <2>2, <2>6 DEF OwedInv
  <1> QED BY <1>2, <1>7, <1>8

\* Handle forwards the hello to the App that is registered then.
LEMMA OwedForward ==
  ASSUME HubInv, OwedInv, NEW q \in Conn, RouteToApp(q) \/ ForwardHello(q)
  PROVE  OwedInv'
  <1> USE DEF At, Goto
  <1>1. CASE RouteToApp(q)
    <2>1. PICK label \in {"reading", "forward"} :
            Passes(q, label) /\ (IF reg.app = Nil THEN label = "reading" ELSE label = "forward")
      BY <1>1, Zenon DEF RouteToApp, Passes, Moves, HubInv
    <2>2. pc[q] = "route" /\ UNCHANGED <<queue, seen>> /\ old'[q] = reg.app
      BY <1>1 DEF RouteToApp, HubInv
    <2>3. BringsOffline(q, label)
      BY <2>2 DEF BringsOffline, FindsNone, TellsOf
    <2>4. BringsHello(q, label)
      BY <2>1, <2>2, HubAssumption DEF BringsHello, Forwards, Restores, Conn
    <2> QED BY <2>1, <2>2, <2>3, <2>4, QueuesKept, OwedGoesOn DEF Away
  <1>2. CASE ForwardHello(q)
    <2>1. PICK x \in Conn \cup {Nil} : x = old[q]
      BY DEF HubInv
    <2>2. pc[q] = "forward" /\ SendOrClose(x, Hello(q)) /\ UNCHANGED seen
      BY <1>2, <2>1 DEF ForwardHello
    <2>3. Hello(q) \in Item
      BY DEF Item
    <2>4. /\ Kept /\ queue' \in [Conn -> Seq(Item)] /\ seen' \in [App -> Seq(Item)]
          /\ \A r \in Conn : open'[r] => open[r]
          /\ x \in App /\ open'[x] => Told(x, Hello(q))'
      BY <2>2, <2>3, SendTells DEF OwedInv
    <2>5. Passes(q, "reading")
      BY <1>2, <2>4 DEF ForwardHello, Passes, Moves, HubInv
    <2>6. BringsOffline(q, "reading")
      BY <2>2 DEF BringsOffline, FindsNone, TellsOf
    <2>7. BringsHello(q, "reading")
      BY <2>1, <2>2, <2>4 DEF BringsHello, Forwards, Restores
    <2> QED BY <2>2, <2>4, <2>5, <2>6, <2>7, OwedGoesOn DEF Away
  <1> QED BY <1>1, <1>2

\* The steps of a goroutine that owes nothing.
LEMMA OwedCommand ==
  ASSUME HubInv, OwedInv, NEW q \in Conn,
         \/ AgentConnected(q) \/ RouteToAgent(q) \/ ForwardCommand(q) \/ Reject(q)
         \/ ReadCommand(q) \/ End(q)
  PROVE  OwedInv'
  <1> USE DEF At, Goto
  <1>1. CASE AgentConnected(q)
    <2>1. /\ pc[q] = "observe" /\ Passes(q, "reading") /\ UNCHANGED seen
          /\ UNCHANGED queue \/ Enqueue(q, ProjectList)
      BY <1>1 DEF AgentConnected, Passes, Moves
    <2>2. Kept /\ queue' \in [Conn -> Seq(Item)] /\ seen' \in [App -> Seq(Item)]
      BY <2>1, SendKeeps DEF Item, OwedInv
    <2> QED BY <2>1, <2>2, OwedPasses DEF Away
  <1>2. CASE RouteToAgent(q)
    <2>1. PICK label \in {"reject", "forward command"} : Passes(q, label)
      BY <1>2 DEF RouteToAgent, Passes, Moves, HubInv
    <2>2. pc[q] = "command" /\ UNCHANGED <<queue, seen>>
      BY <1>2 DEF RouteToAgent
    <2> QED BY <2>1, <2>2, QueuesKept, OwedPasses DEF Away
  <1>3. CASE ForwardCommand(q)
    <2>1. PICK x \in Conn \cup {Nil} : x = old[q]
      BY DEF HubInv
    <2>2. PICK label \in {"reject", "reading"} : Passes(q, label)
      BY <1>3, <2>1 DEF ForwardCommand, Passes, Moves, HubInv
    <2>3. pc[q] = "forward command" /\ UNCHANGED seen /\ (UNCHANGED queue \/ Enqueue(x, Command))
      BY <1>3, <2>1 DEF ForwardCommand
    <2>4. Kept /\ queue' \in [Conn -> Seq(Item)] /\ seen' \in [App -> Seq(Item)]
      BY <2>3, SendKeeps DEF Item, OwedInv
    <2> QED BY <2>2, <2>3, <2>4, OwedPasses DEF Away
  <1>4. CASE Reject(q)
    <2>1. pc[q] = "reject" /\ SendOrClose(q, Rejected) /\ UNCHANGED seen
      BY <1>4 DEF Reject
    <2>2. /\ Kept /\ queue' \in [Conn -> Seq(Item)] /\ seen' \in [App -> Seq(Item)]
          /\ \A r \in Conn : open'[r] => open[r]
      BY <2>1, SendTells DEF Item, OwedInv
    <2>3. Passes(q, "reading")
      BY <1>4, <2>2 DEF Reject, Passes, Moves
    <2> QED BY <2>1, <2>2, <2>3, OwedPasses DEF Away
  <1>5. CASE ReadCommand(q)
    <2>1. pc[q] = "reading" /\ Passes(q, "command") /\ UNCHANGED <<queue, seen>>
      BY <1>5 DEF ReadCommand, Passes, Moves
    <2> QED BY <2>1, QueuesKept, OwedPasses DEF Away
  <1>6. CASE End(q)
    <2>1. pc[q] = "reading" /\ Passes(q, "ended") /\ UNCHANGED <<queue, seen>>
      BY <1>6 DEF End, Passes, Moves, HubInv
    <2> QED BY <2>1, QueuesKept, OwedPasses DEF Away
  <1> QED BY <1>1, <1>2, <1>3, <1>4, <1>5, <1>6

\* Disconnect: who is removed owes the App the news.
LEMMA OwedRemove ==
  ASSUME HubInv, OwedInv, NEW q \in Conn, Remove(q)
  PROVE  OwedInv'
  <1>1. pc[q] = "ended" /\ UNCHANGED <<open, queue, old, said, seen, setup>>
    BY DEF Remove, At
  <1>2. Kept /\ queue' \in [Conn -> Seq(Item)] /\ seen' \in [App -> Seq(Item)]
    BY <1>1, QueuesKept
  <1>3. CASE ~ Registered(q)
    <2>1. Passes(q, "done") /\ Moves(q, "done")
      BY <1>1, <1>3 DEF Remove, Goto, Passes, Moves
    <2>2. RegisteredIsServed'
      BY <1>3, <2>1 DEF OwedInv, RegisteredIsServed, Registered, Moves, Role, HubInv
    <2>3. SaidInv'
      BY <1>1, <1>2, <2>1, SaidPasses
    <2>4. BringsOffline(q, "done") /\ BringsHello(q, "done")
      BY <1>1 DEF BringsOffline, BringsHello, FindsNone, TellsOf, Forwards, Restores
    <2>5. OfflineIsOwed'
      BY <1>2, <2>1, <2>4, OfflinePasses
    <2>6. HelloIsRemembered' /\ HelloIsOwed'
      BY <1>1, <1>2, <2>1, <2>4, HelloPasses
    <2> QED BY <2>2, <2>3, <2>5, <2>6 DEF OwedInv
  <1>4. CASE Registered(q)
    <2>1. PICK label \in {"done", "unobserve", "find app"} :
            /\ pc' = [pc EXCEPT ![q] = label]
            /\ q \in Agent => label # "done"
      BY <1>4, HubAssumption DEF Remove, Goto
    <2>2. pc'[q] = label /\ \A r \in Conn \ {q} : pc'[r] = pc[r]
      BY <2>1 DEF HubInv
    <2>3. /\ reg' = [reg EXCEPT ![Role(q)] = Nil]
          /\ cache' = IF q \in Agent THEN Nil ELSE cache
      BY <1>4 DEF Remove
    <2>4. /\ q \in App => reg'.app = Nil /\ reg'.agent = reg.agent
          /\ q \in Agent => reg'.agent = Nil /\ reg'.app = reg.app
      BY <2>3, HubAssumption DEF HubInv, Role
    <2>5. SaidInv'
      BY <1>1, <1>2, <2>2 DEF OwedInv, SaidInv, Conn
    <2>6. RegisteredIsServed'
      <3> SUFFICES ASSUME NEW r \in Conn, reg'[Role(r)] = r PROVE pc'[r] \notin Away
        BY DEF RegisteredIsServed, Role, Away
      <3>1. r # q /\ reg[Role(r)] = r
        BY <2>3, HubAssumption DEF HubInv, Role, Conn
      <3> QED BY <2>2, <3>1 DEF OwedInv, RegisteredIsServed, Away
    <2>7. OfflineIsOwed'
      <3> SUFFICES ASSUME NEW p \in App, reg'.agent = Nil, reg'.app = p
                   PROVE  \E a \in Agent : TellsOf(p, pc'[a], old[a])
        BY <1>1 DEF OfflineIsOwed, TellsOf
      <3>1. q \in Agent
        BY <2>4, HubAssumption DEF Conn
      <3> QED BY <2>1, <2>2, <3>1 DEF TellsOf
    <2>8. Alone' = Alone
      BY <1>1 DEF Alone, Runtime
    <2>9. HelloIsRemembered'
      <3> SUFFICES ASSUME Alone, NEW a \in Agent, reg'.agent = a, said[a], pc'[a] # "hello"
                   PROVE  cache' = a
        BY <1>1, <2>8 DEF HelloIsRemembered
      <3>1. q \in App /\ a # q
        BY <2>4, HubAssumption DEF Conn
      <3>2. cache' = cache /\ reg.agent = a /\ pc[a] = pc'[a]
        BY <2>2, <2>3, <2>4, <3>1, HubAssumption DEF Conn
      <3> QED BY <3>2 DEF OwedInv, HelloIsRemembered
    <2>10. HelloIsOwed'
      <3> SUFFICES ASSUME NEW p \in App, NEW a \in Agent, reg'.app = p, reg'.agent = a
                   PROVE  FALSE
        BY DEF HelloIsOwed
      <3> QED BY <2>4, HubAssumption DEF Conn
    <2> QED BY <2>5, <2>6, <2>7, <2>9, <2>10 DEF OwedInv
  <1> QED BY <1>3, <1>4

\* The rest of Disconnect: the App is looked for and told.
LEMMA OwedDisconnect ==
  ASSUME HubInv, OwedInv, NEW q \in Conn, AgentDisconnected(q) \/ FindApp(q) \/ TellApp(q)
  PROVE  OwedInv'
  <1> USE DEF At, Goto
  <1>1. CASE AgentDisconnected(q)
    <2>1. pc[q] = "unobserve" /\ Passes(q, "find app") /\ UNCHANGED <<queue, seen>>
      BY <1>1 DEF AgentDisconnected, Passes, Moves
    <2>2. BringsOffline(q, "find app") /\ BringsHello(q, "find app")
      BY <2>1 DEF BringsOffline, BringsHello, FindsNone, TellsOf, Forwards, Restores
    <2> QED BY <2>1, <2>2, QueuesKept, OwedGoesOn DEF Away
  <1>2. CASE FindApp(q)
    <2>1. PICK label \in {"done", "tell app"} :
            Passes(q, label) /\ (IF reg.app = Nil THEN label = "done" ELSE label = "tell app")
      BY <1>2 DEF FindApp, Passes, Moves, HubInv
    <2>2. pc[q] = "find app" /\ UNCHANGED <<queue, seen>> /\ old'[q] = reg.app
      BY <1>2 DEF FindApp, HubInv
    <2>3. BringsOffline(q, label)
      BY <2>1, <2>2, HubAssumption DEF BringsOffline, FindsNone, TellsOf, Conn
    <2>4. BringsHello(q, label)
      BY <2>2 DEF BringsHello, Forwards, Restores
    <2> QED BY <2>1, <2>2, <2>3, <2>4, QueuesKept, OwedGoesOn DEF Away
  <1>3. CASE TellApp(q)
    <2>1. PICK x \in Conn \cup {Nil} : x = old[q]
      BY DEF HubInv
    <2>2. pc[q] = "tell app" /\ SendOrClose(x, Offline) /\ UNCHANGED seen
      BY <1>3, <2>1 DEF TellApp
    <2>3. /\ Kept /\ queue' \in [Conn -> Seq(Item)] /\ seen' \in [App -> Seq(Item)]
          /\ \A r \in Conn : open'[r] => open[r]
          /\ x \in App /\ open'[x] => Told(x, Offline)'
      BY <2>2, SendTells DEF OwedInv, Item
    <2>4. Passes(q, "done")
      BY <1>3, <2>3 DEF TellApp, Passes, Moves, HubInv
    <2>5. BringsOffline(q, "done")
      BY <2>1, <2>2, <2>3 DEF BringsOffline, FindsNone, TellsOf
    <2>6. BringsHello(q, "done")
      BY <2>2 DEF BringsHello, Forwards, Restores
    <2> QED BY <2>2, <2>3, <2>4, <2>5, <2>6, OwedGoesOn DEF Away
  <1> QED BY <1>1, <1>2, <1>3

\* CloseAll empties the registry.
LEMMA OwedCloseConnections ==
  ASSUME HubInv, OwedInv, CloseConnections
  PROVE  OwedInv'
  <1>1. /\ reg'.app = Nil /\ reg'.agent = Nil
        /\ UNCHANGED <<pc, queue, said, seen, setup>>
    BY DEF CloseConnections
  <1>2. SaidInv'
    BY <1>1 DEF OwedInv, SaidInv
  <1>3. RegisteredIsServed'
    BY <1>1, HubAssumption DEF RegisteredIsServed, Role, Conn
  <1>4. OfflineIsOwed' /\ HelloIsRemembered' /\ HelloIsOwed'
    BY <1>1, HubAssumption DEF OfflineIsOwed, HelloIsRemembered, HelloIsOwed, Conn
  <1> QED BY <1>2, <1>3, <1>4 DEF OwedInv

\* Every step keeps what is owed.
LEMMA OwedNext == HubInv /\ OwedInv /\ [Next]_vars => OwedInv'
  <1> SUFFICES ASSUME HubInv, OwedInv, [Next]_vars PROVE OwedInv'
    OBVIOUS
  <1>1. ASSUME NEW p \in Conn, Serve(p) PROVE OwedInv'
    BY <1>1, OwedReplace, OwedConnect, OwedRemember, OwedForward, OwedCommand, OwedRemove,
       OwedDisconnect DEF Serve
  <1>2. ASSUME NEW p \in Conn, Accept(p) \/ End(p) PROVE OwedInv'
    BY <1>2, OwedAccept, OwedCommand
  <1>3. ASSUME NEW p \in Conn, Write(p) PROVE OwedInv'
    <2>1. Kept /\ queue' \in [Conn -> Seq(Item)] /\ seen' \in [App -> Seq(Item)]
      BY <1>3, WriteKeeps DEF OwedInv
    <2>2. UNCHANGED <<pc, old, reg, cache, said, setup>> /\ \A r \in Conn : open'[r] => open[r]
      BY <1>3 DEF Write
    <2> QED BY <2>1, <2>2, OwedStays
  <1>4. ASSUME NEW p \in Conn, WriteFails(p) PROVE OwedInv'
    <2>1. /\ UNCHANGED <<pc, old, reg, cache, said, setup, queue, seen>>
          /\ \A r \in Conn : open'[r] => open[r]
      BY <1>4 DEF WriteFails, HubInv
    <2> QED BY <2>1, OwedStays, QueuesKept
  <1>5. CASE PresenceLook \/ PresenceSet \/ PresenceSetFails \/ PresenceExpires \/ UNCHANGED vars
    <2>1. UNCHANGED <<pc, old, reg, cache, said, setup, queue, seen, open>>
      BY <1>5 DEF PresenceLook, PresenceSet, PresenceSetFails, PresenceExpires, vars
    <2> QED BY <2>1, OwedStays, QueuesKept
  <1>6. ASSUME NEW p \in App, ReadCommand(p) PROVE OwedInv'
    BY <1>6, OwedCommand DEF Conn
  <1> QED BY <1>1, <1>2, <1>3, <1>4, <1>5, <1>6, OwedReadHello, OwedCloseConnections DEF Next

\* The inductive invariant of what the hub still owes its peers: however connections
\* come, are replaced and go, news not sent yet has a goroutine that will send it.
THEOREM OwedCorrect == Spec => []OwedInv
  <1>1. Init => HubInv /\ OwedInv
    BY InitInv, OwedInit
  <1>2. HubInv /\ OwedInv /\ [Next]_vars => (HubInv /\ OwedInv)'
    BY NextInv, OwedNext
  <1> QED BY <1>1, <1>2, PTL DEF Spec

\* Whoever is registered, closed or not, still has a goroutine that will call
\* Disconnect: there is no entry of the registry that nobody takes out.
THEOREM RegisteredHasServer == Spec => []RegisteredIsServed
  <1>1. OwedInv => RegisteredIsServed
    BY DEF OwedInv
  <1> QED BY <1>1, OwedCorrect, PTL

\* While no Agent is registered, the App that is connected has been sent
\* "agent offline", or a goroutine that will send it is under way: its own, in
\* Connect, or that of an Agent, in Disconnect.
THEOREM OfflineNewsIsOwed == Spec => []OfflineIsOwed
  <1>1. OwedInv => OfflineIsOwed
    BY DEF OwedInv
  <1> QED BY <1>1, OwedCorrect, PTL

\* While an App and the only Agent are registered and the Agent has said hello, the
\* App has been sent that hello, or a goroutine that will send it is under way: the
\* Agent's, in Handle, or the App's own, in Connect.  An App that looks before the
\* hello is remembered is found by the Agent, which looks after.
THEOREM HelloNewsIsOwed == Spec => []HelloIsOwed
  <1>1. OwedInv => HelloIsOwed
    BY DEF OwedInv
  <1> QED BY <1>1, OwedCorrect, PTL
=============================================================================
