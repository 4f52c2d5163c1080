--------------------------- MODULE AppTurnProofs ---------------------------
(***************************************************************************)
(* What AppTurn guarantees for every size of the send queues, every number *)
(* of Agent connections and every set of circumstances: an event the Agent *)
(* may forget was taken by an App, and the exit of relayctl agrees with    *)
(* what the Agent did.  The argument follows relayctl's command as a       *)
(* token: it is not read yet, held by the handler of its connection, in    *)
(* the queue of one Agent connection, or with the Agent, and never in two  *)
(* of these places.                                                        *)
(***************************************************************************)
EXTENDS AppTurn, TLAPS

-----------------------------------------------------------------------------
(* The inductive invariant.                                                *)

Message ==
  Event \cup {TurnStart, TurnInterrupt, Request, ProjectList, Offline, Rejection, Answer}

\* The Agent's events about a turn.
EventType == {"turn.started"} \cup Terminal

TypeInv ==
  /\ setup \in Setups
  /\ reg \in [app : App \cup {Nil}, agent : Link \cup {Nil}]
  /\ conn \in [Conn -> {"unused", "open", "closed", "ended"}]
  /\ queue \in [Conn -> Seq(Message)]
  /\ holds \in [Conn -> {Nil} \cup (Message \X (Conn \cup {Nil}))]
  /\ sent \in {<<>>, <<setup.command>>, <<TurnInterrupt>>}
  /\ started \in BOOLEAN /\ asked \in BOOLEAN
  /\ log \in [Turn -> Seq(EventType)]
  /\ acked \in [Turn -> SUBSET (1 .. 2)]
  /\ answer \in {"none", "ready", "sent"}

\* The events the Agent has logged, which are the only ones it sends.
Reported == {m \in Event : m[2] <= Len(log[m[1]])}

\* Who may send what to whom.
ContentInv ==
  /\ \A l \in Link :
       Range(queue[l]) \subseteq {ProjectList, setup.command, TurnInterrupt} \cup Event
  /\ \A p \in App : Range(queue[p]) \subseteq {Offline, Rejection, Answer} \cup Reported
  /\ \A l \in Link : holds[l] # Nil => holds[l] \in ({Answer} \cup Reported) \X App
  /\ holds[Relayctl] # Nil =>
       holds[Relayctl] \in {setup.command, TurnInterrupt} \X (Link \cup {Nil})

\* An answer under way was sent, an interrupt under way was asked for.
CauseInv ==
  /\ \A p \in App : Answer \in Range(queue[p]) => answer = "sent"
  /\ \A l \in Link : (holds[l] # Nil /\ holds[l][1] = Answer) => answer = "sent"
  /\ sent = <<TurnInterrupt>> => asked
  /\ (holds[Relayctl] # Nil /\ holds[Relayctl][1] = TurnInterrupt) => asked
  /\ \A l \in Link : TurnInterrupt \in Range(queue[l]) => asked

\* A turn is refused, or started and brought to one end.
OwnLogs ==
  {<<>>, <<"turn.started">>, <<"turn.rejected">>} \cup
  {<<"turn.started", e>> : e \in {"turn.completed", "turn.failed", "turn.interrupted"}}

LogInv ==
  /\ log["own"] \in OwnLogs
  /\ log["own"] # <<>> => setup.command = TurnStart
  /\ answer # "none" => setup.command = Request
  /\ log["own"] = <<"turn.started", "turn.interrupted">> => asked
  /\ started => log["own"] # <<>>

\* Where relayctl's command may be: not read yet, held by the handler, on its way
\* on a connection, or with the Agent.
Got == log["own"] # <<>> \/ answer # "none"
OnItsWay == \E l \in Link : setup.command \in Range(queue[l])
InHand == holds[Relayctl] # Nil /\ holds[Relayctl][1] = setup.command

\* Element m is in the sequence at most once.
Once(s, m) == \A i, j \in 1 .. Len(s) : (s[i] = m /\ s[j] = m) => i = j

\* The command is in at most one of these places, and there once.
TokenInv ==
  /\ sent = <<setup.command>> => ~ InHand /\ ~ OnItsWay /\ ~ Got
  /\ InHand => ~ OnItsWay /\ ~ Got
  /\ OnItsWay => ~ Got
  /\ \A l, k \in Link :
       (setup.command \in Range(queue[l]) /\ setup.command \in Range(queue[k])) => l = k
  /\ \A l \in Link : Once(queue[l], setup.command)

\* The command is nowhere: relayctl is not connected yet, or it was refused.
Nowhere == sent = <<>> /\ holds[Relayctl] = Nil /\ ~ OnItsWay /\ ~ Got

RefusalInv ==
  /\ conn[Relayctl] = "unused" => Nowhere
  /\ (~ asked /\ (Rejection \in Range(queue[Relayctl]) \/ exit = <<1, "relay">>)) =>
       conn[Relayctl] # "unused" /\ Nowhere

\* What relayctl was told by the Agent is so.
ExitInv ==
  /\ exit = <<0, "Agent">> =>
       IF setup.command = Request THEN answer = "sent"
       ELSE Over /\ Latest = "turn.completed"
  /\ exit = <<130, "Agent">> => asked /\ Over /\ Latest = "turn.interrupted"
  /\ exit = <<1, "Agent">> => Over /\ Latest \in {"turn.failed", "turn.rejected"}

AppTurnInv ==
  /\ TypeInv /\ ContentInv /\ CauseInv /\ LogInv /\ TokenInv /\ RefusalInv /\ ExitInv
  /\ AckedWasForwarded

-----------------------------------------------------------------------------
(* Parties, messages and queues.                                           *)

\* Apps and Agent connections are different, and none is Nil.
LEMMA Parties ==
  /\ Relayctl \in App /\ Watch \in App /\ Relayctl # Watch
  /\ \A p \in App : p = Relayctl \/ p = Watch
  /\ \A p \in App, l \in Link : p # l
  /\ \A p \in Conn : p # Nil /\ (p \in App \/ p \in Link)
  /\ App \subseteq Conn /\ Link \subseteq Conn
  <1>1. Relayctl # Watch
    BY DEF Relayctl, Watch
  <1>2. \A l \in Link : l[1] = "agent" /\ l # Nil
    BY DEF Link, Nil
  <1>3. Relayctl[1] = "relayctl" /\ Watch[1] = "watch" /\ Relayctl # Nil /\ Watch # Nil
    BY DEF Relayctl, Watch, Nil
  <1> QED BY <1>1, <1>2, <1>3 DEF App, Conn

\* The commands and the messages of the relay are no events, and all different.
LEMMA Messages ==
  /\ \A m \in {TurnStart, TurnInterrupt, Request, ProjectList, Offline, Rejection, Answer} :
       m \notin Event
  /\ TurnStart \notin {TurnInterrupt, Request, ProjectList, Offline, Rejection, Answer}
  /\ TurnInterrupt \notin {Request, ProjectList, Offline, Rejection, Answer}
  /\ Request \notin {ProjectList, Offline, Rejection, Answer}
  /\ ProjectList \notin {Offline, Rejection, Answer}
  /\ Offline \notin {Rejection, Answer}
  /\ Rejection # Answer
  <1>1. \A m \in Event : m[1] \in {"own", "other"}
    BY DEF Event, Turn
  <1>2. /\ TurnStart[1] = "turn.start" /\ TurnInterrupt[1] = "turn.interrupt"
        /\ Request[1] = "request" /\ ProjectList[1] = "project.list"
        /\ Offline[1] = "agent.status" /\ Rejection[1] = "turn.rejected"
        /\ Answer[1] = "answer"
    BY DEF TurnStart, TurnInterrupt, Request, ProjectList, Offline, Rejection, Answer
  <1> QED BY <1>1, <1>2

\* The command of the circumstances is one of two.
LEMMA CommandIs ==
  ASSUME setup \in Setups
  PROVE  setup.command \in {TurnStart, Request}
  BY AppTurnAssumption

\* What the queues hold after m was appended to that of p ...
Added(Q, R, p, m) ==
  /\ R \in [Conn -> Seq(Message)]
  /\ \A c \in Conn : Range(R[c]) = IF c = p THEN Range(Q[c]) \cup {m} ELSE Range(Q[c])
  /\ \A c \in Conn : \A x : (Once(Q[c], x) /\ ~ (c = p /\ x = m /\ x \in Range(Q[c])))
                              => Once(R[c], x)

\* ... after the first message was taken from that of p ...
Taken(Q, R, p) ==
  /\ R \in [Conn -> Seq(Message)]
  /\ Head(Q[p]) \in Message
  /\ \A c \in Conn : c # p => Range(R[c]) = Range(Q[c])
  /\ Range(Q[p]) = Range(R[p]) \cup {Head(Q[p])}
  /\ \A c \in Conn : \A x : Once(Q[c], x) => Once(R[c], x)
  /\ \A x : (Once(Q[p], x) /\ x = Head(Q[p])) => x \notin Range(R[p])

\* ... and after that of p was lost.
Lost(Q, R, p) ==
  /\ R \in [Conn -> Seq(Message)]
  /\ \A c \in Conn : Range(R[c]) = IF c = p THEN {} ELSE Range(Q[c])
  /\ \A c \in Conn : \A x : Once(Q[c], x) => Once(R[c], x)

\* Appending to a queue.
LEMMA Enqueue ==
  ASSUME NEW Q \in [Conn -> Seq(Message)], NEW p \in Conn, NEW m \in Message,
         NEW R, R = [Q EXCEPT ![p] = Append(@, m)]
  PROVE  Added(Q, R, p, m)
  <1>1. Append(Q[p], m) \in Seq(Message) /\ Q[p] \in Seq(Message)
    OBVIOUS
  <1>2. \A c \in Conn : R[c] = IF c = p THEN Append(Q[p], m) ELSE Q[c]
    OBVIOUS
  <1>3. R \in [Conn -> Seq(Message)]
    BY <1>1
  <1>4. /\ Len(Append(Q[p], m)) = Len(Q[p]) + 1 /\ Len(Q[p]) \in Nat
        /\ \A i \in 1 .. Len(Q[p]) : Append(Q[p], m)[i] = Q[p][i]
        /\ Append(Q[p], m)[Len(Q[p]) + 1] = m
    BY <1>1
  <1>5. Range(Append(Q[p], m)) = Range(Q[p]) \cup {m}
    <2>1. DOMAIN Q[p] = 1 .. Len(Q[p]) /\ DOMAIN Append(Q[p], m) = 1 .. Len(Q[p]) + 1
      BY <1>1, <1>4
    <2>2. 1 .. Len(Q[p]) + 1 = (1 .. Len(Q[p])) \cup {Len(Q[p]) + 1}
      BY <1>4
    <2> QED BY <1>4, <2>1, <2>2 DEF Range
  <1>6. ASSUME NEW x, Once(Q[p], x), ~ (x = m /\ x \in Range(Q[p]))
        PROVE  Once(Append(Q[p], m), x)
    <2>1. \A i \in 1 .. Len(Q[p]) : Q[p][i] \in Range(Q[p])
      BY <1>1 DEF Range
    <2>2. \A i \in 1 .. Len(Q[p]) + 1 : i \in 1 .. Len(Q[p]) \/ i = Len(Q[p]) + 1
      BY <1>4
    <2> QED BY <1>4, <1>6, <2>1, <2>2 DEF Once
  <1> QED BY <1>2, <1>3, <1>5, <1>6, Zenon DEF Added

\* Taking from a queue.
LEMMA Dequeue ==
  ASSUME NEW Q \in [Conn -> Seq(Message)], NEW p \in Conn, Q[p] # <<>>,
         NEW R, R = [Q EXCEPT ![p] = Tail(@)]
  PROVE  Taken(Q, R, p)
  <1>1. Q[p] \in Seq(Message) /\ Tail(Q[p]) \in Seq(Message) /\ Head(Q[p]) \in Message
    OBVIOUS
  <1>2. \A c \in Conn : R[c] = IF c = p THEN Tail(Q[p]) ELSE Q[c]
    OBVIOUS
  <1>3. R \in [Conn -> Seq(Message)]
    BY <1>1
  <1>4. /\ Len(Tail(Q[p])) = Len(Q[p]) - 1 /\ Len(Q[p]) \in Nat /\ Len(Q[p]) # 0
        /\ \A i \in 1 .. Len(Q[p]) - 1 : Tail(Q[p])[i] = Q[p][i + 1]
        /\ Head(Q[p]) = Q[p][1]
    BY <1>1
  <1>5. /\ DOMAIN Q[p] = 1 .. Len(Q[p]) /\ DOMAIN Tail(Q[p]) = 1 .. Len(Q[p]) - 1
        /\ \A i \in 1 .. Len(Q[p]) - 1 : i + 1 \in 1 .. Len(Q[p]) /\ i + 1 # 1
        /\ \A i \in 1 .. Len(Q[p]) : i = 1 \/ (i - 1 \in 1 .. Len(Q[p]) - 1 /\ (i - 1) + 1 = i)
        /\ 1 \in 1 .. Len(Q[p])
    BY <1>1, <1>4
  <1>6. Range(Q[p]) = Range(Tail(Q[p])) \cup {Head(Q[p])}
    <2>1. \A x \in Range(Q[p]) : x \in Range(Tail(Q[p])) \cup {Head(Q[p])}
      <3> SUFFICES ASSUME NEW i \in 1 .. Len(Q[p])
                   PROVE  Q[p][i] \in Range(Tail(Q[p])) \cup {Head(Q[p])}
        BY <1>5 DEF Range
      <3>1. CASE i = 1
        BY <1>4, <3>1
      <3>2. CASE i # 1
        <4>1. i - 1 \in DOMAIN Tail(Q[p]) /\ Tail(Q[p])[i - 1] = Q[p][i]
          BY <1>4, <1>5, <3>2
        <4> QED BY <4>1, Zenon DEF Range
      <3> QED BY <3>1, <3>2
    <2>2. \A x \in Range(Tail(Q[p])) \cup {Head(Q[p])} : x \in Range(Q[p])
      BY <1>4, <1>5 DEF Range
    <2> QED BY <2>1, <2>2
  <1>7. ASSUME NEW x, Once(Q[p], x)
        PROVE  Once(Tail(Q[p]), x) /\ (x = Head(Q[p]) => x \notin Range(Tail(Q[p])))
    <2>1. Once(Tail(Q[p]), x)
      BY <1>4, <1>5, <1>7 DEF Once
    <2>2. ASSUME x = Head(Q[p]), x \in Range(Tail(Q[p])) PROVE FALSE
      <3>1. PICK i \in 1 .. Len(Q[p]) - 1 : Tail(Q[p])[i] = x
        BY <1>5, <2>2 DEF Range
      <3> QED BY <1>4, <1>5, <1>7, <2>2, <3>1 DEF Once
    <2> QED BY <2>1, <2>2
  <1> QED BY <1>1, <1>2, <1>3, <1>6, <1>7 DEF Taken

\* The queue of a connection that ends.
LEMMA Empty ==
  ASSUME NEW Q \in [Conn -> Seq(Message)], NEW p \in Conn,
         NEW R, R = [Q EXCEPT ![p] = <<>>]
  PROVE  Lost(Q, R, p)
  <1>1. \A c \in Conn : R[c] = IF c = p THEN <<>> ELSE Q[c]
    OBVIOUS
  <1>2. Range(<<>>) = {} /\ \A x : Once(<<>>, x)
    BY DEF Range, Once
  <1>3. <<>> \in Seq(Message)
    OBVIOUS
  <1> QED BY <1>1, <1>2, <1>3, Zenon DEF Lost

\* Closing a connection.
ConnType == [Conn -> {"unused", "open", "closed", "ended"}]

LEMMA Closing ==
  ASSUME conn \in ConnType, NEW t
  PROVE  /\ Closed(t) \in ConnType
         /\ \A c \in Conn : Closed(t)[c] = "unused" <=> conn[c] = "unused"
  BY Zenon DEF Closed, ConnType

-----------------------------------------------------------------------------
(* Steps that put nothing new on its way but the relay's own messages.     *)

QuietQueues ==
  /\ \A p \in App : Range(queue'[p]) \subseteq Range(queue[p]) \cup {Offline}
  /\ \A l \in Link : Range(queue'[l]) \subseteq Range(queue[l]) \cup {ProjectList}
  /\ \A l \in Link : Once(queue[l], setup.command) => Once(queue'[l], setup.command)

\* Such a step keeps what is said of the messages, the command and the log.
LEMMA QuietStep ==
  ASSUME AppTurnInv, QuietQueues,
         UNCHANGED <<setup, log, answer, asked, sent>>,
         started' = started \/ log["own"] # <<>>,
         \A c \in Conn : holds'[c] \in {Nil, holds[c]},
         conn'[Relayctl] = "unused" <=> conn[Relayctl] = "unused",
         exit' = exit \/ exit' # <<1, "relay">> \/ Rejection \in Range(queue[Relayctl])
  PROVE  ContentInv' /\ CauseInv' /\ LogInv' /\ TokenInv' /\ RefusalInv'
  <1>0. /\ TypeInv /\ ContentInv /\ CauseInv /\ LogInv /\ TokenInv /\ RefusalInv
        /\ setup.command \in {TurnStart, Request}
    BY CommandIs DEF AppTurnInv, TypeInv
  <1>1. Reported' = Reported
    BY DEF Reported
  <1>2. ContentInv'
    BY <1>0, <1>1, Parties, Zenon DEF ContentInv, QuietQueues
  <1>3. CauseInv'
    BY <1>0, Parties, Messages DEF CauseInv, QuietQueues
  <1>4. LogInv'
    BY <1>0 DEF LogInv
  <1>5. /\ Got' = Got
        /\ OnItsWay' => OnItsWay
        /\ InHand' => InHand
        /\ holds[Relayctl] = Nil => holds'[Relayctl] = Nil
        /\ \A l \in Link : setup'.command \in Range(queue'[l]) => setup.command \in Range(queue[l])
    <2>1. Got' = Got
      BY DEF Got
    <2>2. \A l \in Link : setup'.command \in Range(queue'[l]) => setup.command \in Range(queue[l])
      BY <1>0, Messages DEF QuietQueues
    <2>3. OnItsWay' => OnItsWay
      BY <2>2 DEF OnItsWay
    <2>4. (InHand' => InHand) /\ (holds[Relayctl] = Nil => holds'[Relayctl] = Nil)
      BY Parties DEF InHand
    <2> QED BY <2>1, <2>2, <2>3, <2>4
  <1>6. TokenInv'
    BY <1>0, <1>5 DEF TokenInv, QuietQueues
  <1>7. RefusalInv'
    <2>1. Nowhere => Nowhere'
      BY <1>5 DEF Nowhere
    <2>2. Rejection \in Range(queue'[Relayctl]) => Rejection \in Range(queue[Relayctl])
      BY Parties, Messages DEF QuietQueues
    <2> QED BY <1>0, <2>1, <2>2 DEF RefusalInv
  <1> QED BY <1>2, <1>3, <1>4, <1>6, <1>7

\* What relayctl was told stays so while the Agent does nothing.
LEMMA SameReport ==
  ASSUME ExitInv, UNCHANGED <<setup, log, answer>>, asked => asked',
         exit' = exit \/ exit' \in {Nil, <<1, "relayctl">>, <<1, "relay">>}
  PROVE  ExitInv'
  <1>1. Over' = Over /\ Latest' = Latest
    BY DEF Over, Latest
  <1>2. CASE exit' = exit
    BY <1>1, <1>2 DEF ExitInv
  <1>3. CASE exit' \in {Nil, <<1, "relayctl">>, <<1, "relay">>}
    <2>1. exit' # <<0, "Agent">> /\ exit' # <<130, "Agent">> /\ exit' # <<1, "Agent">>
      BY <1>3 DEF Nil
    <2> QED BY <2>1 DEF ExitInv
  <1> QED BY <1>2, <1>3

\* Events in the hands of Apps stay there, and no acknowledgement is added.
LEMMA SameAcks ==
  ASSUME AckedWasForwarded, acked' = acked, gone \subseteq gone',
         \A p \in App : Range(queue[p]) \cap Event \subseteq Range(queue'[p]) \cup gone',
         \A l \in Link : Range(queue'[l]) \cap Event \subseteq Range(queue[l])
  PROVE  AckedWasForwarded'
  <1> SUFFICES ASSUME NEW m \in Event,
                      m[2] \in acked'[m[1]] \/ \E l \in Link : m \in Range(queue'[l])
               PROVE  m \in gone' \/ \E p \in App : m \in Range(queue'[p])
    BY DEF AckedWasForwarded
  <1>1. m[2] \in acked[m[1]] \/ \E l \in Link : m \in Range(queue[l])
    OBVIOUS
  <1>2. m \in gone \/ \E p \in App : m \in Range(queue[p])
    BY <1>1 DEF AckedWasForwarded
  <1> QED BY <1>2

-----------------------------------------------------------------------------
(* The actions, one by one.                                                *)

LEMMA ConnectAgentStep ==
  ASSUME AppTurnInv, NEW l \in Link, ConnectAgent(l)
  PROVE  AppTurnInv'
  <1>0. TypeInv
    BY DEF AppTurnInv
  <1>1. ProjectList \in Message /\ l \in Conn
    BY Parties DEF Message
  <1>2. Added(queue, queue', l, ProjectList)
    <2>1. /\ queue \in [Conn -> Seq(Message)]
          /\ queue' = [queue EXCEPT ![l] = Append(@, ProjectList)]
      BY <1>0 DEF TypeInv, ConnectAgent, Enqueued
    <2> QED BY <1>1, <2>1, Enqueue, Zenon
  <1>3. setup.command # ProjectList
    BY <1>0, CommandIs, Messages DEF TypeInv
  <1>4. QuietQueues
    BY <1>2, <1>3, Parties, Zenon DEF QuietQueues, Added
  <1>5. /\ conn' \in [Conn -> {"unused", "open", "closed", "ended"}]
        /\ conn'[Relayctl] = "unused" <=> conn[Relayctl] = "unused"
    BY <1>0, Parties DEF TypeInv, ConnectAgent, Replaced, Closed
  <1>6. TypeInv'
    BY <1>0, <1>2, <1>5, Zenon DEF TypeInv, ConnectAgent, ctlVars, Added
  <1>7. UNCHANGED <<setup, log, answer, asked, sent, started, holds, exit, acked, gone>>
    BY DEF ConnectAgent, ctlVars
  <1>8. ContentInv' /\ CauseInv' /\ LogInv' /\ TokenInv' /\ RefusalInv'
    BY <1>4, <1>5, <1>7, QuietStep
  <1>9. ExitInv' /\ AckedWasForwarded'
    <2>1. \A c \in Conn : /\ Range(queue[c]) \subseteq Range(queue'[c])
                           /\ Range(queue'[c]) \cap Event \subseteq Range(queue[c])
      BY <1>2, Messages DEF Added
    <2> QED BY <1>7, <2>1, SameReport, SameAcks, Parties DEF AppTurnInv
  <1> QED BY <1>6, <1>8, <1>9 DEF AppTurnInv

LEMMA BreakStep ==
  ASSUME AppTurnInv, NEW p \in Conn, Break(p)
  PROVE  AppTurnInv'
  <1>0. TypeInv
    BY DEF AppTurnInv
  <1>1. UNCHANGED <<setup, reg, queue, log, answer, asked, sent, started, holds, exit, acked, gone>>
    BY DEF Break, ctlVars, agentVars
  <1>2. QuietQueues
    BY <1>1 DEF QuietQueues
  <1>3. /\ conn' \in [Conn -> {"unused", "open", "closed", "ended"}]
        /\ conn'[Relayctl] = "unused" <=> conn[Relayctl] = "unused"
    BY <1>0, Parties DEF TypeInv, Break, Closed
  <1>4. TypeInv'
    BY <1>0, <1>1, <1>3 DEF TypeInv
  <1>5. ContentInv' /\ CauseInv' /\ LogInv' /\ TokenInv' /\ RefusalInv'
    BY <1>1, <1>2, <1>3, QuietStep
  <1>6. ExitInv' /\ AckedWasForwarded'
    BY <1>1, SameReport, SameAcks DEF AppTurnInv
  <1> QED BY <1>4, <1>5, <1>6 DEF AppTurnInv

LEMMA EndStep ==
  ASSUME AppTurnInv, NEW p \in Conn, End(p)
  PROVE  AppTurnInv'
  <1> DEFINE E == [queue EXCEPT ![p] = <<>>]
             told == IF reg.agent = p THEN reg.app ELSE Nil
  <1>0. TypeInv
    BY DEF AppTurnInv
  <1>1. Lost(queue, E, p)
    BY <1>0, Empty, Zenon DEF TypeInv
  <1>2. told \in App \cup {Nil} /\ Offline \in Message
    BY <1>0 DEF TypeInv, Message
  <1>3. \/ queue' = E
        \/ told # Nil /\ queue' = [E EXCEPT ![told] = Append(@, Offline)]
    BY DEF End
  <1>4. /\ conn[p] = "closed"
        /\ \/ conn' = [conn EXCEPT ![p] = "ended"]
           \/ told # Nil /\ conn' = [Closed(told) EXCEPT ![p] = "ended"]
    BY DEF End
  <1>5. /\ UNCHANGED <<setup, holds, log, acked, answer, asked, sent, started, exit>>
        /\ reg' = [r \in {"app", "agent"} |-> IF reg[r] = p THEN Nil ELSE reg[r]]
        /\ gone' = IF p \in App THEN gone \cup Range(queue[p]) ELSE gone
    BY DEF End, ctlVars, agentVars
  <1> HIDE DEF E, told
  <1>6. /\ queue' \in [Conn -> Seq(Message)]
        /\ \A c \in Conn : c # p => Range(queue[c]) \subseteq Range(queue'[c])
        /\ \A c \in Conn : Range(queue'[c]) \subseteq Range(queue[c]) \cup {Offline}
        /\ \A c \in Link : Range(queue'[c]) \subseteq Range(queue[c])
        /\ \A c \in Conn : \A x : (x # Offline /\ Once(queue[c], x)) => Once(queue'[c], x)
    <2>1. CASE queue' = E
      BY <1>1, <2>1, Parties, Zenon DEF Lost
    <2>2. CASE told # Nil /\ queue' = [E EXCEPT ![told] = Append(@, Offline)]
      <3>1. told \in App /\ told \in Conn /\ E \in [Conn -> Seq(Message)]
        BY <1>1, <1>2, <2>2, Parties DEF Lost
      <3>2. Added(E, queue', told, Offline)
        BY <1>2, <2>2, <3>1, Enqueue, Zenon
      <3>3. queue' \in [Conn -> Seq(Message)]
        BY <3>2 DEF Added
      <3>4. \A c \in Conn : /\ Range(E[c]) \subseteq Range(queue'[c])
                            /\ Range(queue'[c]) \subseteq Range(E[c]) \cup {Offline}
                            /\ c # told => Range(queue'[c]) = Range(E[c])
        BY <3>2 DEF Added
      <3>5. \A c \in Conn : Range(E[c]) \subseteq Range(queue[c])
                            /\ (c # p => Range(E[c]) = Range(queue[c]))
        BY <1>1 DEF Lost
      <3>6. \A c \in Conn : \A x : (x # Offline /\ Once(queue[c], x)) => Once(queue'[c], x)
        BY <1>1, <3>2 DEF Added, Lost
      <3> QED BY <3>1, <3>3, <3>4, <3>5, <3>6, Parties, Zenon
    <2> QED BY <1>3, <2>1, <2>2, Zenon
  <1>7. QuietQueues
    <2>1. setup.command # Offline
      BY <1>0, CommandIs, Messages DEF TypeInv
    <2> QED BY <1>6, <2>1, Parties, Zenon DEF QuietQueues
  <1>8. /\ conn' \in [Conn -> {"unused", "open", "closed", "ended"}]
        /\ conn'[Relayctl] = "unused" <=> conn[Relayctl] = "unused"
    <2>1. conn \in ConnType
      BY <1>0 DEF TypeInv, ConnType
    <2>2. PICK C \in ConnType :
            /\ conn' = [C EXCEPT ![p] = "ended"]
            /\ \A c \in Conn : C[c] = "unused" <=> conn[c] = "unused"
      BY <1>4, <2>1, Closing
    <2>3. \A c \in Conn : conn'[c] = IF c = p THEN "ended" ELSE C[c]
      BY <2>2 DEF ConnType
    <2> QED BY <1>4, <2>2, <2>3, Parties DEF ConnType
  <1>9. reg' \in [app : App \cup {Nil}, agent : Link \cup {Nil}]
    BY <1>0, <1>5 DEF TypeInv
  <1>10. TypeInv'
    BY <1>0, <1>5, <1>6, <1>8, <1>9 DEF TypeInv
  <1>11. ContentInv' /\ CauseInv' /\ LogInv' /\ TokenInv' /\ RefusalInv'
    BY <1>5, <1>7, <1>8, QuietStep
  <1>12. ExitInv'
    BY <1>5, SameReport DEF AppTurnInv
  <1>13. AckedWasForwarded'
    <2>1. \A q \in App : Range(queue[q]) \cap Event \subseteq Range(queue'[q]) \cup gone'
      BY <1>5, <1>6, Parties, Zenon
    <2> QED BY <1>5, <1>6, <2>1, SameAcks, Zenon DEF AppTurnInv
  <1> QED BY <1>10, <1>11, <1>12, <1>13 DEF AppTurnInv

LEMMA ConnectAppStep ==
  ASSUME AppTurnInv, NEW p \in App, ConnectApp(p)
  PROVE  AppTurnInv'
  <1>0. /\ TypeInv /\ ContentInv /\ CauseInv /\ LogInv /\ TokenInv /\ RefusalInv
        /\ setup.command \in {TurnStart, Request}
    BY CommandIs DEF AppTurnInv, TypeInv
  <1>1. /\ UNCHANGED <<setup, holds, log, acked, answer, asked, started, exit, gone>>
        /\ conn[p] = "unused"
        /\ sent' = IF p = Relayctl THEN <<setup.command>> ELSE sent
        /\ queue' = queue \/ queue' = [queue EXCEPT ![p] = Append(@, Offline)]
    BY DEF ConnectApp, agentVars, Enqueued
  <1>2. /\ queue' \in [Conn -> Seq(Message)]
        /\ \A c \in Conn : Range(queue[c]) \subseteq Range(queue'[c])
        /\ \A c \in Conn : Range(queue'[c]) \subseteq Range(queue[c]) \cup {Offline}
        /\ \A l \in Link : Range(queue'[l]) \subseteq Range(queue[l])
        /\ \A c \in Conn : \A x : (x # Offline /\ Once(queue[c], x)) => Once(queue'[c], x)
    <2>1. CASE queue' = queue
      BY <1>0, <2>1 DEF TypeInv
    <2>2. CASE queue' = [queue EXCEPT ![p] = Append(@, Offline)]
      <3>1. p \in Conn /\ Offline \in Message /\ queue \in [Conn -> Seq(Message)]
        BY <1>0, Parties DEF TypeInv, Message
      <3>2. Added(queue, queue', p, Offline)
        BY <2>2, <3>1, Enqueue, Zenon
      <3> QED BY <3>2, Parties, Zenon DEF Added
    <2> QED BY <1>1, <2>1, <2>2, Zenon
  <1>3. QuietQueues
    BY <1>0, <1>2, Messages, Parties, Zenon DEF QuietQueues
  <1>4. conn' \in [Conn -> {"unused", "open", "closed", "ended"}]
    BY <1>0, Parties DEF TypeInv, ConnectApp, Replaced, Closed
  <1>5. TypeInv'
    BY <1>0, <1>1, <1>2, <1>4, Zenon DEF TypeInv, ConnectApp
  <1>6. ExitInv'
    BY <1>1, SameReport DEF AppTurnInv
  <1>7. AckedWasForwarded'
    <2>1. \A q \in App : Range(queue[q]) \cap Event \subseteq Range(queue'[q]) \cup gone'
      BY <1>2, Parties
    <2> QED BY <1>1, <1>2, <2>1, SameAcks, Zenon DEF AppTurnInv
  <1>8. ContentInv' /\ CauseInv' /\ LogInv' /\ TokenInv' /\ RefusalInv'
    <2>1. CASE p # Relayctl
      <3>1. conn'[Relayctl] = "unused" <=> conn[Relayctl] = "unused"
        BY <1>0, <2>1, Parties DEF TypeInv, ConnectApp, Replaced, Closed
      <3> QED BY <1>1, <1>3, <2>1, <3>1, QuietStep
    <2>2. CASE p = Relayctl
      <3>1. Nowhere /\ conn'[Relayctl] = "open" /\ sent' = <<setup.command>>
        BY <1>0, <1>1, <2>2, Parties DEF RefusalInv, ConnectApp, Replaced
      <3>2. Reported' = Reported
        BY <1>1 DEF Reported
      <3>3. ContentInv'
        BY <1>0, <1>1, <1>2, <3>2, Parties DEF ContentInv
      <3>4. sent' # <<TurnInterrupt>>
        BY <1>0, <3>1, Messages
      <3>5. CauseInv'
        BY <1>0, <1>1, <1>2, <3>4, Parties, Messages DEF CauseInv
      <3>6. LogInv'
        BY <1>0, <1>1 DEF LogInv
      <3>7. \A l \in Link : setup.command \in Range(queue'[l]) => setup.command \in Range(queue[l])
        BY <1>2, Zenon
      <3>8. ~ OnItsWay' /\ ~ InHand' /\ ~ Got'
        BY <1>1, <3>1, <3>7 DEF Nowhere, OnItsWay, InHand, Got
      <3>9. TokenInv'
        BY <1>0, <1>1, <1>3, <3>8 DEF TokenInv, OnItsWay, QuietQueues
      <3>10. asked' \/ ~ (Rejection \in Range(queue'[Relayctl]) \/ exit' = <<1, "relay">>)
        BY <1>0, <1>1, <1>2, <2>2, Parties, Messages DEF RefusalInv
      <3>11. RefusalInv'
        BY <3>1, <3>10 DEF RefusalInv
      <3> QED BY <3>3, <3>5, <3>6, <3>9, <3>11
    <2> QED BY <2>1, <2>2
  <1> QED BY <1>5, <1>6, <1>7, <1>8 DEF AppTurnInv

LEMMA RouteToAgentStep ==
  ASSUME AppTurnInv, RouteToAgent
  PROVE  AppTurnInv'
  <1>0. /\ TypeInv /\ ContentInv /\ CauseInv /\ LogInv /\ TokenInv /\ RefusalInv
        /\ setup.command \in {TurnStart, Request} /\ setup.command # TurnInterrupt
    BY CommandIs, Messages DEF AppTurnInv, TypeInv
  <1>1. /\ UNCHANGED <<setup, reg, conn, queue, log, acked, answer, asked, started, exit, gone>>
        /\ conn[Relayctl] = "open" /\ holds[Relayctl] = Nil
        /\ sent # <<>> /\ sent' = Tail(sent)
        /\ holds' = [holds EXCEPT ![Relayctl] = <<Head(sent), reg.agent>>]
    BY DEF RouteToAgent, agentVars
  <1>2. PICK c \in {setup.command, TurnInterrupt} : sent = <<c>>
    BY <1>0, <1>1 DEF TypeInv
  <1>3. sent' = <<>> /\ Head(sent) = c
    BY <1>1, <1>2
  <1>4. /\ holds'[Relayctl] = <<c, reg.agent>>
        /\ \A l \in Link : holds'[l] = holds[l]
    BY <1>0, <1>1, <1>3, Parties DEF TypeInv
  <1>5. <<c, reg.agent>> # Nil /\ <<c, reg.agent>>[1] = c /\ reg.agent \in Link \cup {Nil}
    BY <1>0 DEF TypeInv, Nil
  <1>6. TypeInv'
    <2>1. <<c, reg.agent>> \in Message \X (Conn \cup {Nil})
      BY <1>0, <1>5, Parties DEF Message
    <2>2. holds' \in [Conn -> {Nil} \cup (Message \X (Conn \cup {Nil}))]
      BY <1>0, <1>1, <1>3, <2>1, Zenon DEF TypeInv
    <2> QED BY <1>0, <1>1, <1>3, <2>2 DEF TypeInv
  <1>7. Reported' = Reported
    BY <1>1 DEF Reported
  <1>8. ContentInv'
    <2>1. <<c, reg.agent>> \in {setup.command, TurnInterrupt} \X (Link \cup {Nil})
      BY <1>5
    <2> QED BY <1>0, <1>1, <1>4, <1>7, <2>1 DEF ContentInv
  <1>9. c = TurnInterrupt => asked
    BY <1>0, <1>2 DEF CauseInv
  <1>10. sent' # <<TurnInterrupt>> /\ sent' # <<setup.command>>
    BY <1>3
  <1>11. CauseInv'
    BY <1>0, <1>1, <1>4, <1>5, <1>9, <1>10 DEF CauseInv
  <1>12. LogInv'
    BY <1>0, <1>1 DEF LogInv
  <1>13. OnItsWay' = OnItsWay /\ Got' = Got /\ (InHand' <=> c = setup.command)
    BY <1>1, <1>4, <1>5 DEF OnItsWay, Got, InHand
  <1>14. TokenInv'
    BY <1>0, <1>1, <1>2, <1>10, <1>13 DEF TokenInv
  <1>15. RefusalInv'
    BY <1>0, <1>1 DEF RefusalInv, Nowhere
  <1>16. ExitInv' /\ AckedWasForwarded'
    BY <1>1, SameReport, SameAcks DEF AppTurnInv
  <1> QED BY <1>6, <1>8, <1>11, <1>12, <1>14, <1>15, <1>16 DEF AppTurnInv

LEMMA SignalStep ==
  ASSUME AppTurnInv, Signal
  PROVE  AppTurnInv'
  <1>0. /\ TypeInv /\ ContentInv /\ CauseInv /\ LogInv /\ TokenInv /\ RefusalInv
        /\ setup.command \in {TurnStart, Request} /\ setup.command # TurnInterrupt
    BY CommandIs, Messages DEF AppTurnInv, TypeInv
  <1>1. /\ UNCHANGED <<setup, reg, conn, queue, holds, log, acked, answer, started, exit, gone>>
        /\ conn[Relayctl] = "open" /\ started /\ ~ asked /\ asked' = TRUE
        /\ sent' = Append(sent, TurnInterrupt)
    BY DEF Signal, relayVars, agentVars
  <1>2. Got
    BY <1>0, <1>1 DEF LogInv, Got
  <1>3. sent = <<>>
    BY <1>0, <1>1, <1>2 DEF TypeInv, TokenInv, CauseInv
  <1>4. sent' = <<TurnInterrupt>>
    BY <1>1, <1>3
  <1>5. TypeInv'
    BY <1>0, <1>1, <1>4 DEF TypeInv
  <1>6. Reported' = Reported /\ OnItsWay' = OnItsWay /\ Got' = Got /\ InHand' = InHand
    BY <1>1 DEF Reported, OnItsWay, Got, InHand
  <1>7. sent' # <<setup.command>>
    BY <1>0, <1>4, Zenon
  <1>8. ContentInv' /\ CauseInv' /\ LogInv'
    BY <1>0, <1>1, <1>6 DEF ContentInv, CauseInv, LogInv
  <1>9. TokenInv'
    BY <1>0, <1>1, <1>6, <1>7 DEF TokenInv
  <1>10. RefusalInv'
    BY <1>1 DEF RefusalInv
  <1>11. ExitInv' /\ AckedWasForwarded'
    BY <1>1, SameReport, SameAcks DEF AppTurnInv
  <1> QED BY <1>5, <1>8, <1>9, <1>10, <1>11 DEF AppTurnInv

LEMMA GiveUpStep ==
  ASSUME AppTurnInv, GiveUp
  PROVE  AppTurnInv'
  <1>1. /\ UNCHANGED <<setup, reg, conn, queue, holds, log, acked, answer, started, asked, sent, gone>>
        /\ exit' = <<1, "relayctl">> /\ exit' # <<1, "relay">>
    BY DEF GiveUp, relayVars, agentVars
  <1>2. QuietQueues
    BY <1>1 DEF QuietQueues
  <1>3. ContentInv' /\ CauseInv' /\ LogInv' /\ TokenInv' /\ RefusalInv'
    BY <1>1, <1>2, QuietStep
  <1>4. TypeInv'
    BY <1>1 DEF AppTurnInv, TypeInv
  <1>5. ExitInv' /\ AckedWasForwarded'
    BY <1>1, SameReport, SameAcks DEF AppTurnInv
  <1> QED BY <1>3, <1>4, <1>5 DEF AppTurnInv

LEMMA ForwardCommandStep ==
  ASSUME AppTurnInv, ForwardCommand
  PROVE  AppTurnInv'
  <1> DEFINE c == holds[Relayctl][1]
             target == holds[Relayctl][2]
  <1>0. /\ TypeInv /\ ContentInv /\ CauseInv /\ LogInv /\ TokenInv /\ RefusalInv
        /\ setup.command \in {TurnStart, Request}
    BY CommandIs DEF AppTurnInv, TypeInv
  <1>1. /\ UNCHANGED <<setup, reg, log, acked, answer, asked, sent, started, exit, gone>>
        /\ holds[Relayctl] # Nil
        /\ holds' = [holds EXCEPT ![Relayctl] = Nil]
    BY DEF ForwardCommand, ctlVars, agentVars
  <1>2. c \in {setup.command, TurnInterrupt} /\ target \in Link \cup {Nil}
    BY <1>0, <1>1 DEF ContentInv
  <1>3. /\ holds'[Relayctl] = Nil
        /\ \A l \in Link : holds'[l] = holds[l]
        /\ holds' \in [Conn -> {Nil} \cup (Message \X (Conn \cup {Nil}))]
    BY <1>0, <1>1, Parties DEF TypeInv
  <1>4. conn[Relayctl] # "unused" /\ (c = TurnInterrupt => asked) /\ (c = setup.command => InHand)
    BY <1>0, <1>1 DEF RefusalInv, Nowhere, CauseInv, InHand
  <1>5. Reported' = Reported /\ Got' = Got /\ ~ InHand'
    BY <1>1, <1>3 DEF Reported, Got, InHand
  <1>6. LogInv'
    BY <1>0, <1>1 DEF LogInv
  <1>7. ExitInv'
    BY <1>1, SameReport DEF AppTurnInv
  <1>8. \/ /\ target # Nil
           /\ queue' = [queue EXCEPT ![target] = Append(@, c)] /\ conn' = conn
        \/ \E C \in {conn, Closed(target)} :
             \/ queue' = [queue EXCEPT ![Relayctl] = Append(@, Rejection)] /\ conn' = C
             \/ queue' = queue /\ conn' = [C EXCEPT ![Relayctl] = Closed(Relayctl)[Relayctl]]
    BY DEF ForwardCommand, Rejects, Enqueued
  <1> HIDE DEF c, target
  <1>9. CASE target # Nil /\ queue' = [queue EXCEPT ![target] = Append(@, c)] /\ conn' = conn
    <2>1. target \in Link /\ target \in Conn /\ c \in Message /\ queue \in [Conn -> Seq(Message)]
      BY <1>0, <1>2, <1>9, Parties DEF TypeInv, Message
    <2>2. Added(queue, queue', target, c)
      BY <1>9, <2>1, Enqueue, Zenon
    <2>3. TypeInv'
      BY <1>0, <1>1, <1>3, <1>9, <2>2 DEF TypeInv, Added
    <2>4. /\ \A p \in App : Range(queue'[p]) = Range(queue[p])
          /\ \A l \in Link : Range(queue'[l]) = IF l = target THEN Range(queue[l]) \cup {c}
                                                ELSE Range(queue[l])
      BY <2>1, <2>2, Parties, Zenon DEF Added
    <2>5. ContentInv'
      <3>1. \A l \in Link :
              Range(queue'[l]) \subseteq {ProjectList, setup.command, TurnInterrupt} \cup Event
        BY <1>0, <1>2, <2>4, Zenon DEF ContentInv
      <3> QED BY <1>0, <1>1, <1>3, <1>5, <2>4, <3>1 DEF ContentInv
    <2>6. CauseInv'
      <3>1. \A l \in Link : TurnInterrupt \in Range(queue'[l]) => asked
        BY <1>0, <1>4, <2>4, Zenon DEF CauseInv
      <3> QED BY <1>0, <1>1, <1>3, <2>4, <3>1 DEF CauseInv
    <2>7. c \notin Event
      BY <1>0, <1>2, Messages
    <2>8. AckedWasForwarded'
      <3>1. \A l \in Link : Range(queue'[l]) \cap Event \subseteq Range(queue[l])
        BY <2>4, <2>7, Zenon
      <3> QED BY <1>1, <2>4, <3>1, SameAcks DEF AppTurnInv
    <2>9. RefusalInv'
      BY <1>0, <1>1, <1>4, <1>9, <2>4, Parties DEF RefusalInv, Nowhere
    <2>10. CASE c = setup.command
      <3>1. ~ OnItsWay /\ ~ Got /\ sent # <<setup.command>>
        BY <1>0, <1>4, <2>10 DEF TokenInv
      <3>2. \A l \in Link : setup.command \in Range(queue'[l]) => l = target
        BY <2>4, <3>1, Zenon DEF OnItsWay
      <3>3. \A l \in Link : Once(queue'[l], setup.command)
        BY <1>0, <2>1, <2>2, <3>1, Parties DEF Added, TokenInv, OnItsWay
      <3> QED BY <1>1, <1>5, <1>6, <1>7, <2>3, <2>5, <2>6, <2>8, <2>9, <3>1, <3>2, <3>3
              DEF TokenInv, AppTurnInv
    <2>11. CASE c # setup.command
      <3>1. \A l \in Link : setup.command \in Range(queue'[l]) <=> setup.command \in Range(queue[l])
        BY <2>4, <2>11, Zenon
      <3>2. OnItsWay' <=> OnItsWay
        BY <1>1, <3>1 DEF OnItsWay
      <3>3. \A l \in Link : Once(queue'[l], setup.command)
        BY <1>0, <2>2, <2>11, Parties DEF Added, TokenInv
      <3>4. TokenInv'
        BY <1>0, <1>1, <1>5, <3>1, <3>2, <3>3, Zenon DEF TokenInv
      <3> QED BY <1>6, <1>7, <2>3, <2>5, <2>6, <2>8, <2>9, <3>4 DEF AppTurnInv
    <2> QED BY <2>10, <2>11
  <1>10. CASE \E C \in {conn, Closed(target)} :
                \/ queue' = [queue EXCEPT ![Relayctl] = Append(@, Rejection)] /\ conn' = C
                \/ queue' = queue /\ conn' = [C EXCEPT ![Relayctl] = Closed(Relayctl)[Relayctl]]
    <2>1. /\ conn' \in ConnType
          /\ conn'[Relayctl] # "unused"
      <3>1. conn \in ConnType
        BY <1>0 DEF TypeInv, ConnType
      <3>2. PICK C \in ConnType :
              /\ conn' = C \/ conn' = [C EXCEPT ![Relayctl] = Closed(Relayctl)[Relayctl]]
              /\ \A x \in Conn : C[x] = "unused" <=> conn[x] = "unused"
        BY <1>10, <3>1, Closing
      <3>3. /\ Closed(Relayctl)[Relayctl] \in {"unused", "open", "closed", "ended"}
            /\ Closed(Relayctl)[Relayctl] # "unused"
        BY <1>4, <3>1, Closing, Parties DEF ConnType
      <3> QED BY <1>4, <3>2, <3>3, Parties DEF ConnType
    <2>2. /\ queue' \in [Conn -> Seq(Message)]
          /\ \A x \in Conn : Range(queue[x]) \subseteq Range(queue'[x])
          /\ \A l \in Link : Range(queue'[l]) = Range(queue[l])
          /\ \A p \in App : Range(queue'[p]) \subseteq Range(queue[p]) \cup {Rejection}
          /\ \A l \in Link : Once(queue[l], setup.command) => Once(queue'[l], setup.command)
      <3>1. CASE queue' = queue
        BY <1>0, <3>1 DEF TypeInv
      <3>2. CASE queue' = [queue EXCEPT ![Relayctl] = Append(@, Rejection)]
        <4>1. Relayctl \in Conn /\ Rejection \in Message /\ queue \in [Conn -> Seq(Message)]
          BY <1>0, Parties DEF TypeInv, Message
        <4>2. Added(queue, queue', Relayctl, Rejection)
          BY <3>2, <4>1, Enqueue, Zenon
        <4> QED BY <4>2, Parties, Zenon DEF Added
      <3> QED BY <1>10, <3>1, <3>2, Zenon
    <2>3. TypeInv'
      BY <1>0, <1>1, <1>3, <2>1, <2>2 DEF TypeInv, ConnType
    <2>4. ContentInv'
      BY <1>0, <1>1, <1>3, <1>5, <2>2, Zenon DEF ContentInv
    <2>5. CauseInv'
      BY <1>0, <1>1, <1>3, <2>2, Messages, Zenon DEF CauseInv
    <2>6. OnItsWay' <=> OnItsWay
      BY <1>1, <2>2 DEF OnItsWay
    <2>7. TokenInv'
      BY <1>0, <1>1, <1>5, <2>2, <2>6 DEF TokenInv
    <2>8. RefusalInv'
      <3>1. ASSUME ~ asked PROVE Nowhere'
        <4>1. c = setup.command /\ InHand
          BY <1>2, <1>4, <3>1
        <4>2. sent = <<>>
          BY <1>0, <3>1, <4>1 DEF TypeInv, TokenInv, CauseInv
        <4> QED BY <1>0, <1>1, <1>3, <1>5, <2>6, <4>1, <4>2 DEF TokenInv, Nowhere
      <3> QED BY <1>1, <2>1, <3>1 DEF RefusalInv
    <2>9. AckedWasForwarded'
      <3>1. \A p \in App : Range(queue[p]) \cap Event \subseteq Range(queue'[p]) \cup gone'
        BY <2>2, Parties
      <3> QED BY <1>1, <2>2, <3>1, SameAcks DEF AppTurnInv
    <2> QED BY <1>6, <1>7, <2>3, <2>4, <2>5, <2>7, <2>8, <2>9 DEF AppTurnInv
  <1> QED BY <1>8, <1>9, <1>10

LEMMA RouteToAppStep ==
  ASSUME AppTurnInv, NEW l \in Link, NEW m \in Event \cup {Answer}, RouteToApp(l, m)
  PROVE  AppTurnInv'
  <1>0. TypeInv /\ ContentInv /\ CauseInv /\ LogInv /\ TokenInv /\ RefusalInv /\ ExitInv
    BY DEF AppTurnInv
  <1>1. /\ UNCHANGED <<setup, reg, conn, queue, log, acked, asked, sent, started, exit, gone>>
        /\ holds' = [holds EXCEPT ![l] = IF reg.app = Nil THEN Nil ELSE <<m, reg.app>>]
        /\ Ready(m)
    BY DEF RouteToApp, ctlVars
  <1>2. IF m = Answer THEN answer = "ready" /\ answer' = "sent" ELSE answer' = answer
    BY DEF RouteToApp, Ready, Sent
  <1>3. m \in {Answer} \cup Reported
    <2>1. CASE m = Answer
      BY <2>1
    <2>2. CASE m # Answer
      <3>1. m \in Event /\ m[2] \in Unsent(m[1])
        BY <1>1, <2>2 DEF Ready
      <3>2. m[1] \in Turn /\ m[2] \in 1 .. Len(log[m[1]])
        BY <3>1 DEF Event, Unsent
      <3>3. Len(log[m[1]]) \in Nat
        BY <1>0, <3>2 DEF TypeInv
      <3> QED BY <3>1, <3>2, <3>3 DEF Reported
    <2> QED BY <2>1, <2>2
  <1>4. \/ holds'[l] = Nil
        \/ /\ reg.app \in App /\ holds'[l] = <<m, reg.app>>
           /\ holds'[l] # Nil /\ holds'[l][1] = m
    BY <1>0, <1>1, Parties, Zenon DEF TypeInv, Nil
  <1>5. \A c \in Conn : c # l => holds'[c] = holds[c]
    BY <1>0, <1>1 DEF TypeInv
  <1>6. TypeInv'
    <2>1. m \in Message
      BY DEF Message
    <2>2. holds'[l] \in {Nil} \cup (Message \X (Conn \cup {Nil}))
      BY <1>4, <2>1, Parties
    <2>3. holds' \in [Conn -> {Nil} \cup (Message \X (Conn \cup {Nil}))]
      BY <1>0, <1>1, <1>5, <2>2, Zenon DEF TypeInv
    <2>4. answer' \in {"none", "ready", "sent"}
      BY <1>0, <1>2 DEF TypeInv
    <2> QED BY <1>0, <1>1, <2>3, <2>4, Zenon DEF TypeInv
  <1>7. Reported' = Reported
    BY <1>1 DEF Reported
  <1>8. holds'[Relayctl] = holds[Relayctl]
    BY <1>5, Parties
  <1>9. ContentInv'
    <2>1. \A k \in Link : holds'[k] # Nil => holds'[k] \in ({Answer} \cup Reported) \X App
      <3>1. holds'[l] # Nil => holds'[l] \in ({Answer} \cup Reported) \X App
        BY <1>3, <1>4
      <3>2. \A k \in Link : k # l => holds'[k] = holds[k]
        BY <1>5, Parties
      <3> QED BY <1>0, <3>1, <3>2 DEF ContentInv
    <2> QED BY <1>0, <1>1, <1>7, <1>8, <2>1, Zenon DEF ContentInv
  <1>10. CauseInv'
    <2>1. answer = "sent" => answer' = "sent"
      BY <1>2, Zenon
    <2>2. \A k \in Link : (holds'[k] # Nil /\ holds'[k][1] = Answer) => answer' = "sent"
      BY <1>0, <1>2, <1>4, <1>5, <2>1, Parties DEF CauseInv
    <2> QED BY <1>0, <1>1, <1>8, <2>1, <2>2 DEF CauseInv
  <1>11. answer' # "none" <=> answer # "none"
    BY <1>2
  <1>12. LogInv'
    BY <1>0, <1>1, <1>11, Zenon DEF LogInv
  <1>13. Got' = Got /\ OnItsWay' = OnItsWay /\ InHand' = InHand
    BY <1>1, <1>8, <1>11, Zenon DEF Got, OnItsWay, InHand
  <1>14. TokenInv'
    BY <1>0, <1>1, <1>13, Zenon DEF TokenInv
  <1>15. RefusalInv'
    BY <1>0, <1>1, <1>8, <1>13, ZenonT(30) DEF RefusalInv, Nowhere
  <1>16. ExitInv'
    BY <1>0, <1>1, <1>2 DEF ExitInv, Over, Latest
  <1>17. AckedWasForwarded'
    BY <1>1, SameAcks DEF AppTurnInv
  <1> QED BY <1>6, <1>9, <1>10, <1>12, <1>14, <1>15, <1>16, <1>17 DEF AppTurnInv

\* The Agent's own position is not looked at.
LEMMA CursorStep ==
  ASSUME AppTurnInv,
         UNCHANGED <<relayVars, ctlVars, log, acked, answer, gone>>
  PROVE  AppTurnInv'
  <1>1. UNCHANGED <<setup, reg, conn, queue, holds, log, acked, answer, started, asked, sent, exit, gone>>
    BY DEF relayVars, ctlVars
  <1>2. QuietQueues
    BY <1>1 DEF QuietQueues
  <1>3. ContentInv' /\ CauseInv' /\ LogInv' /\ TokenInv' /\ RefusalInv'
    BY <1>1, <1>2, QuietStep, Zenon
  <1>4. TypeInv'
    BY <1>1 DEF AppTurnInv, TypeInv
  <1>5. ExitInv' /\ AckedWasForwarded'
    BY <1>1, SameReport, SameAcks DEF AppTurnInv
  <1> QED BY <1>3, <1>4, <1>5 DEF AppTurnInv

LEMMA ForwardToAppStep ==
  ASSUME AppTurnInv, NEW l \in Link, ForwardToApp(l)
  PROVE  AppTurnInv'
  <1> DEFINE m == holds[l][1]
             target == holds[l][2]
             Q == [queue EXCEPT ![target] = Append(@, m)]
  <1>0. /\ TypeInv /\ ContentInv /\ CauseInv /\ LogInv /\ TokenInv /\ RefusalInv
        /\ setup.command \in {TurnStart, Request}
    BY CommandIs DEF AppTurnInv, TypeInv
  <1>1. /\ UNCHANGED <<setup, reg, log, acked, answer, asked, sent, started, exit, gone>>
        /\ holds[l] # Nil /\ holds' = [holds EXCEPT ![l] = Nil]
    BY Zenon DEF ForwardToApp, ctlVars, agentVars
  <1>2. m \in {Answer} \cup Reported /\ target \in App
    BY <1>0, <1>1 DEF ContentInv
  <1>3. /\ m \in Message /\ target \in Conn /\ l \in Conn /\ target # l
        /\ m # setup.command /\ m # TurnInterrupt /\ m # Rejection
    BY <1>0, <1>2, Parties, Messages, Zenon DEF Message, Reported
  <1>4. m = Answer => answer = "sent"
    BY <1>0, <1>1 DEF CauseInv
  <1>5. \/ /\ conn' = conn
           /\ \/ queue' = Q
              \/ m # Answer /\ queue' = [Q EXCEPT ![l] = Append(@, m)]
        \/ conn' = Closed(target) /\ queue' = queue
    BY Zenon DEF ForwardToApp, AgentMessageForwarded, Enqueued
  <1>6. Added(queue, Q, target, m)
    <2>1. queue \in [Conn -> Seq(Message)]
      BY <1>0 DEF TypeInv
    <2> HIDE DEF m, target
    <2> QED BY <1>3, <2>1, Enqueue, Zenon
  <1> HIDE DEF m, target, Q
  <1>7. /\ holds'[Relayctl] = holds[Relayctl]
        /\ \A k \in Link : holds'[k] # Nil => holds'[k] = holds[k]
        /\ holds' \in [Conn -> {Nil} \cup (Message \X (Conn \cup {Nil}))]
    BY <1>0, <1>1, Parties DEF TypeInv
  <1>8. /\ conn' \in ConnType
        /\ conn'[Relayctl] = "unused" <=> conn[Relayctl] = "unused"
    <2>1. conn \in ConnType
      BY <1>0, Zenon DEF TypeInv, ConnType
    <2> QED BY <1>5, <2>1, Closing, Parties
  <1>9. /\ queue' \in [Conn -> Seq(Message)]
        /\ \A c \in Conn : Range(queue[c]) \subseteq Range(queue'[c])
        /\ \A c \in Conn : Range(queue'[c]) \subseteq Range(queue[c]) \cup {m}
        /\ \A c \in Conn : \A x : (x # m /\ Once(queue[c], x)) => Once(queue'[c], x)
        /\ \/ queue' = queue
           \/ m = Answer /\ \A k \in Link : Range(queue'[k]) = Range(queue[k])
           \/ m \in Range(queue'[target])
    <2>1. CASE queue' = queue
      BY <1>0, <2>1 DEF TypeInv
    <2>2. CASE queue' = Q
      BY <1>2, <1>3, <1>6, <2>2, Parties, Zenon DEF Added
    <2>3. CASE queue' = [Q EXCEPT ![l] = Append(@, m)]
      <3>1. Q \in [Conn -> Seq(Message)]
        BY <1>6 DEF Added
      <3>2. Added(Q, queue', l, m)
        BY <1>3, <2>3, <3>1, Enqueue, Zenon
      <3>3. \A c \in Conn : /\ Range(queue[c]) \subseteq Range(Q[c])
                            /\ Range(Q[c]) \subseteq Range(queue[c]) \cup {m}
                            /\ Range(Q[c]) \subseteq Range(queue'[c])
                            /\ Range(queue'[c]) \subseteq Range(Q[c]) \cup {m}
        BY <1>6, <3>2 DEF Added
      <3>4. m \in Range(Q[target])
        BY <1>3, <1>6 DEF Added
      <3>5. \A c \in Conn : \A x : (x # m /\ Once(queue[c], x)) => Once(queue'[c], x)
        BY <1>6, <3>2 DEF Added
      <3>6. queue' \in [Conn -> Seq(Message)]
        BY <3>2 DEF Added
      <3>7. m \in Range(queue'[target])
        BY <1>3, <3>3, <3>4
      <3>8. \A c \in Conn : /\ Range(queue[c]) \subseteq Range(queue'[c])
                            /\ Range(queue'[c]) \subseteq Range(queue[c]) \cup {m}
        BY <3>3
      <3> QED BY <3>5, <3>6, <3>7, <3>8
    <2> QED BY <1>5, <2>1, <2>2, <2>3, Zenon
  <1>10. TypeInv'
    BY <1>0, <1>1, <1>7, <1>8, <1>9, Zenon DEF TypeInv, ConnType
  <1>11. Reported' = Reported /\ Got' = Got /\ InHand' = InHand
    BY <1>1, <1>7 DEF Reported, Got, InHand
  <1>12. \A k \in Link : Range(queue'[k]) \subseteq Range(queue[k]) \cup Event
    BY <1>2, <1>3, <1>5, <1>6, <1>9, Parties, Messages, Zenon DEF Added, Reported
  <1>13. ContentInv'
    <2>1. \A p \in App : Range(queue'[p]) \subseteq {Offline, Rejection, Answer} \cup Reported
      BY <1>0, <1>2, <1>9, Parties DEF ContentInv
    <2>2. \A k \in Link : Range(queue'[k]) \subseteq {ProjectList, setup.command, TurnInterrupt} \cup Event
      BY <1>0, <1>12 DEF ContentInv
    <2>3. \A k \in Link : holds'[k] # Nil => holds'[k] \in ({Answer} \cup Reported) \X App
      BY <1>0, <1>7 DEF ContentInv
    <2> QED BY <1>0, <1>1, <1>7, <1>11, <2>1, <2>2, <2>3, Zenon DEF ContentInv
  <1>14. CauseInv'
    <2>1. \A p \in App : Answer \in Range(queue'[p]) => answer = "sent"
      BY <1>0, <1>4, <1>9, Parties, Zenon DEF CauseInv
    <2>2. \A k \in Link : TurnInterrupt \in Range(queue'[k]) => asked
      BY <1>0, <1>3, <1>9, Parties DEF CauseInv
    <2>3. \A k \in Link : (holds'[k] # Nil /\ holds'[k][1] = Answer) => answer = "sent"
      BY <1>0, <1>7 DEF CauseInv
    <2> QED BY <1>0, <1>1, <1>7, <2>1, <2>2, <2>3, Zenon DEF CauseInv
  <1>15. LogInv'
    BY <1>0, <1>1 DEF LogInv
  <1>16. /\ \A k \in Link : setup.command \in Range(queue'[k]) <=> setup.command \in Range(queue[k])
         /\ Rejection \in Range(queue'[Relayctl]) <=> Rejection \in Range(queue[Relayctl])
         /\ \A k \in Link : Once(queue[k], setup.command) => Once(queue'[k], setup.command)
    BY <1>3, <1>9, Parties, Zenon
  <1>17. OnItsWay' <=> OnItsWay
    BY <1>1, <1>16, Zenon DEF OnItsWay
  <1>18. TokenInv'
    BY <1>0, <1>1, <1>11, <1>16, <1>17 DEF TokenInv
  <1>19. RefusalInv'
    BY <1>0, <1>1, <1>7, <1>8, <1>11, <1>16, <1>17 DEF RefusalInv, Nowhere
  <1>20. ExitInv'
    BY <1>1, SameReport DEF AppTurnInv
  <1>21. AckedWasForwarded'
    <2> SUFFICES ASSUME NEW e \in Event,
                        e[2] \in acked'[e[1]] \/ \E k \in Link : e \in Range(queue'[k])
                 PROVE  e \in gone' \/ \E p \in App : e \in Range(queue'[p])
      BY Zenon DEF AckedWasForwarded
    <2>1. CASE e[2] \in acked[e[1]] \/ \E k \in Link : e \in Range(queue[k])
      <3>1. e \in gone \/ \E p \in App : e \in Range(queue[p])
        BY <2>1 DEF AppTurnInv, AckedWasForwarded
      <3> QED BY <1>1, <1>9, <3>1, Parties, Zenon
    <2>2. CASE ~ (e[2] \in acked[e[1]] \/ \E k \in Link : e \in Range(queue[k]))
      <3>1. PICK k \in Link : e \in Range(queue'[k]) /\ e \notin Range(queue[k])
        BY <1>1, <2>2, Zenon
      <3>2. e = m /\ m # Answer
        BY <1>9, <3>1, Parties, Messages, Zenon
      <3>3. m \in Range(queue'[target])
        BY <1>9, <3>1, <3>2, Zenon
      <3> QED BY <1>2, <3>2, <3>3
    <2> QED BY <2>1, <2>2, Zenon
  <1> QED BY <1>10, <1>13, <1>14, <1>15, <1>18, <1>19, <1>20, <1>21 DEF AppTurnInv

\* The log of relayctl's turn: it goes on after turn.started and is over with any
\* other event, which is then the last.
LEMMA OwnLog ==
  ASSUME log["own"] \in OwnLogs
  PROVE  /\ Running <=> log["own"] = <<"turn.started">>
         /\ \A n \in 1 .. Len(log["own"]) :
              /\ log["own"] # <<>>
              /\ \/ log["own"][n] = "turn.started"
                 \/ /\ Over /\ Latest = log["own"][n]
                    /\ log["own"][n] \in Terminal
                    /\ log["own"][n] = "turn.interrupted" =>
                         log["own"] = <<"turn.started", "turn.interrupted">>
  <1>1. CASE log["own"] = <<>>
    <2>1. 1 .. Len(log["own"]) = {} /\ log["own"] # <<"turn.started">>
      BY <1>1
    <2> QED BY <1>1, <2>1 DEF Running
  <1>2. CASE log["own"] \in {<<"turn.started">>, <<"turn.rejected">>}
    <2>1. PICK e \in {"turn.started", "turn.rejected"} : log["own"] = <<e>>
      BY <1>2
    <2>2. /\ log["own"] # <<>> /\ Len(log["own"]) = 1 /\ 1 .. Len(log["own"]) = {1}
          /\ Latest = e /\ log["own"][1] = e
          /\ e # "turn.started" => log["own"] # <<"turn.started">>
      BY <2>1 DEF Latest
    <2>3. Over <=> e = "turn.rejected"
      BY <2>1, <2>2 DEF Over, Terminal
    <2> QED BY <2>1, <2>2, <2>3 DEF Running, Terminal
  <1>3. CASE \E e \in {"turn.completed", "turn.failed", "turn.interrupted"} :
               log["own"] = <<"turn.started", e>>
    <2>1. PICK e \in {"turn.completed", "turn.failed", "turn.interrupted"} :
                 log["own"] = <<"turn.started", e>>
      BY <1>3
    <2>2. /\ log["own"] # <<>> /\ Len(log["own"]) = 2 /\ 1 .. Len(log["own"]) = {1, 2}
          /\ Latest = e /\ log["own"][1] = "turn.started" /\ log["own"][2] = e
          /\ log["own"] # <<"turn.started">>
      BY <2>1 DEF Latest
    <2>3. Over
      BY <2>1, <2>2 DEF Over, Terminal
    <2> QED BY <2>1, <2>2, <2>3 DEF Running, Terminal
  <1> QED BY <1>1, <1>2, <1>3 DEF OwnLogs

LEMMA WatchReceiveStep ==
  ASSUME AppTurnInv, WatchReceive
  PROVE  AppTurnInv'
  <1>0. TypeInv
    BY DEF AppTurnInv
  <1>1. /\ UNCHANGED <<setup, reg, conn, holds, log, acked, answer, asked, sent, started, exit>>
        /\ queue[Watch] # <<>> /\ queue' = [queue EXCEPT ![Watch] = Tail(@)]
        /\ gone' = gone \cup {Head(queue[Watch])}
    BY DEF WatchReceive, ctlVars, agentVars
  <1>2. Taken(queue, queue', Watch)
    <2>1. queue \in [Conn -> Seq(Message)] /\ Watch \in Conn
      BY <1>0, Parties DEF TypeInv
    <2> QED BY <1>1, <2>1, Dequeue, Zenon
  <1>3. QuietQueues
    BY <1>2, Parties, Zenon DEF QuietQueues, Taken
  <1>4. ContentInv' /\ CauseInv' /\ LogInv' /\ TokenInv' /\ RefusalInv'
    BY <1>1, <1>3, QuietStep
  <1>5. TypeInv'
    BY <1>0, <1>1, <1>2 DEF TypeInv, Taken
  <1>6. ExitInv'
    BY <1>1, SameReport DEF AppTurnInv
  <1>7. AckedWasForwarded'
    <2>1. /\ \A p \in App : Range(queue[p]) \cap Event \subseteq Range(queue'[p]) \cup gone'
          /\ \A l \in Link : Range(queue'[l]) \cap Event \subseteq Range(queue[l])
      BY <1>1, <1>2, Parties DEF Taken
    <2> QED BY <1>1, <2>1, SameAcks DEF AppTurnInv
  <1> QED BY <1>4, <1>5, <1>6, <1>7 DEF AppTurnInv

\* An exit code and its cause.
LEMMA Pair ==
  ASSUME NEW a, NEW b
  PROVE  Append(<<a>>, b) = <<a, b>>
  <1>1. <<a>> \in Seq({a, b}) /\ Len(<<a>>) = 1 /\ <<a>>[1] = a /\ b \in {a, b}
    OBVIOUS
  <1>2. /\ Append(<<a>>, b) \in Seq({a, b}) /\ Len(Append(<<a>>, b)) = 2
        /\ Append(<<a>>, b)[1] = a /\ Append(<<a>>, b)[2] = b
    BY <1>1
  <1> DEFINE s == Append(<<a>>, b)
  <1>3. s = [i \in 1 .. 2 |-> s[i]] /\ <<a, b>> = [i \in 1 .. 2 |-> <<a, b>>[i]]
    BY <1>2
  <1>4. \A i \in 1 .. 2 : s[i] = <<a, b>>[i]
    BY <1>2
  <1> HIDE DEF s
  <1>5. s = <<a, b>>
    BY <1>3, <1>4
  <1> QED BY <1>5 DEF s

LEMMA ReceiveStep ==
  ASSUME AppTurnInv, Receive
  PROVE  AppTurnInv'
  <1> DEFINE m == Head(queue[Relayctl])
             code == IF Concerns(m) THEN ExitCode(TypeOf(m)) ELSE Nil
  <1>0. /\ TypeInv /\ ContentInv /\ CauseInv /\ LogInv /\ TokenInv /\ RefusalInv
        /\ setup.command \in {TurnStart, Request}
    BY CommandIs DEF AppTurnInv, TypeInv
  <1>1. /\ UNCHANGED <<setup, reg, conn, holds, log, acked, answer, asked, sent>>
        /\ queue[Relayctl] # <<>> /\ queue' = [queue EXCEPT ![Relayctl] = Tail(@)]
        /\ gone' = gone \cup {m}
        /\ started' = (started \/ (Concerns(m) /\ TypeOf(m) = "turn.started"))
        /\ exit' = IF code = Nil THEN Nil
                   ELSE Append(code, IF m = Rejection THEN "relay" ELSE "Agent")
        /\ exit = Nil
    BY DEF Receive, agentVars
  <1>2. Taken(queue, queue', Relayctl)
    <2>1. queue \in [Conn -> Seq(Message)] /\ Relayctl \in Conn
      BY <1>0, Parties DEF TypeInv
    <2> QED BY <1>1, <2>1, Dequeue, Zenon
  <1>3. m \in Range(queue[Relayctl])
    BY <1>2 DEF Taken
  <1>4. m \in {Offline, Rejection, Answer} \cup Reported
    BY <1>0, <1>3, Parties DEF ContentInv
  <1> HIDE DEF m
  <1>5. /\ code \in {Nil, <<0>>, <<1>>, <<130>>}
        /\ m = Rejection => code = <<1>>
        /\ (Concerns(m) /\ TypeOf(m) = "turn.started") => log["own"] # <<>>
        /\ (m # Rejection /\ code = <<0>>) =>
             IF setup.command = Request THEN answer = "sent"
             ELSE Over /\ Latest = "turn.completed"
        /\ code = <<130>> => asked /\ Over /\ Latest = "turn.interrupted"
        /\ (m # Rejection /\ code = <<1>>) =>
             Over /\ Latest \in {"turn.failed", "turn.rejected"}
    <2>0. /\ <<0>> # Nil /\ <<1>> # Nil /\ <<130>> # Nil
          /\ <<0>> # <<1>> /\ <<0>> # <<130>> /\ <<1>> # <<130>>
      BY DEF Nil
    <2>1. CASE m = Offline
      <3>1. TypeOf(m) = "agent.status"
        BY <2>1, Messages DEF TypeOf, Offline
      <3>2. code = Nil
        BY <3>1 DEF ExitCode
      <3> QED BY <2>0, <2>1, <3>1, <3>2, Messages
    <2>2. CASE m = Rejection
      <3>1. TypeOf(m) = "turn.rejected" /\ Concerns(m)
        BY <2>2, Messages DEF TypeOf, Rejection, Concerns
      <3>2. code = <<1>>
        BY <3>1 DEF ExitCode
      <3> QED BY <2>0, <2>2, <3>1, <3>2
    <2>3. CASE m = Answer
      <3>1. TypeOf(m) = "answer" /\ Concerns(m)
        BY <2>3, Messages DEF TypeOf, Answer, Concerns
      <3>2. code = <<0>>
        BY <3>1 DEF ExitCode
      <3>3. answer = "sent" /\ setup.command = Request
        BY <1>0, <1>3, <2>3, Parties DEF CauseInv, LogInv
      <3> QED BY <2>0, <2>3, <3>1, <3>2, <3>3, Messages
    <2>4. CASE m \in Reported /\ m[1] # "own"
      <3>1. ~ Concerns(m) /\ code = Nil /\ m # Rejection
        BY <2>4, Messages DEF Concerns, Reported
      <3> QED BY <2>0, <3>1
    <2>5. CASE m \in Reported /\ m[1] = "own"
      <3>1. m \in Event /\ m[2] \in 1 .. 2 /\ m[2] <= Len(log["own"]) /\ "own" \in Turn
        BY <2>5, Zenon DEF Reported, Event, Turn
      <3>2. Len(log["own"]) \in Nat
        BY <1>0, <3>1 DEF TypeInv
      <3>3. m[2] \in 1 .. Len(log["own"])
        BY <3>1, <3>2
      <3>4. TypeOf(m) = log["own"][m[2]] /\ Concerns(m) /\ m # Rejection
        BY <2>5, <3>1, Messages, Zenon DEF TypeOf, Concerns
      <3>5. /\ log["own"] # <<>> /\ setup.command = TurnStart /\ setup.command # Request
            /\ \/ TypeOf(m) = "turn.started"
               \/ /\ Over /\ Latest = TypeOf(m) /\ TypeOf(m) \in Terminal
                  /\ TypeOf(m) = "turn.interrupted" => asked
        BY <1>0, <3>3, <3>4, OwnLog, Messages DEF LogInv
      <3>6. CASE TypeOf(m) = "turn.started"
        <4>1. code = Nil
          BY <3>6 DEF ExitCode
        <4> QED BY <2>0, <3>4, <3>5, <4>1, Zenon
      <3>7. CASE TypeOf(m) = "turn.completed"
        <4>1. code = <<0>>
          BY <3>4, <3>7, Zenon DEF ExitCode
        <4> QED BY <2>0, <3>4, <3>5, <3>7, <4>1
      <3>8. CASE TypeOf(m) \in {"turn.failed", "turn.rejected"}
        <4>1. code = <<1>>
          BY <3>4, <3>8, Zenon DEF ExitCode
        <4> QED BY <2>0, <3>4, <3>5, <3>8, <4>1
      <3>9. CASE TypeOf(m) = "turn.interrupted"
        <4>1. code = <<130>>
          BY <3>4, <3>9 DEF ExitCode
        <4> QED BY <2>0, <3>4, <3>5, <3>9, <4>1
      <3> QED BY <3>5, <3>6, <3>7, <3>8, <3>9, Zenon DEF Terminal
    <2> QED BY <1>4, <2>1, <2>2, <2>3, <2>4, <2>5, Zenon
  <1> HIDE DEF code
  <1>6. QuietQueues
    BY <1>2, Parties, Zenon DEF QuietQueues, Taken
  <1>7. /\ exit' = <<1, "relay">> => m = Rejection
        /\ exit' = <<0, "Agent">> => m # Rejection /\ code = <<0>>
        /\ exit' = <<1, "Agent">> => m # Rejection /\ code = <<1>>
        /\ exit' = <<130, "Agent">> => m # Rejection /\ code = <<130>>
    <2>1. CASE code = Nil
      <3>1. exit' = <<>>
        BY <1>1, <2>1 DEF Nil
      <3> QED BY <3>1
    <2>2. ASSUME NEW a \in {0, 1, 130}, code = <<a>>
          PROVE  \/ m = Rejection /\ exit' = <<a, "relay">>
                 \/ m # Rejection /\ exit' = <<a, "Agent">>
      <3>1. code # Nil /\ \A b : Append(code, b) = <<a, b>>
        BY <2>2, Pair DEF Nil
      <3> QED BY <1>1, <3>1
    <2>3. CASE code \in {<<0>>, <<1>>, <<130>>}
      <3>1. PICK a \in {0, 1, 130} : code = <<a>>
        BY <2>3, Zenon
      <3> QED BY <2>2, <3>1
    <2> QED BY <1>5, <2>1, <2>3
  <1>8. ContentInv' /\ CauseInv' /\ LogInv' /\ TokenInv' /\ RefusalInv'
    <2>1. started' = started \/ log["own"] # <<>>
      BY <1>0, <1>1, <1>5 DEF TypeInv
    <2>2. exit' # <<1, "relay">> \/ Rejection \in Range(queue[Relayctl])
      BY <1>3, <1>7
    <2> QED BY <1>1, <1>6, <2>1, <2>2, QuietStep, Zenon
  <1>9. TypeInv'
    <2>1. started' \in BOOLEAN
      BY <1>0, <1>1, Zenon DEF TypeInv
    <2> QED BY <1>0, <1>1, <1>2, <2>1, Zenon DEF TypeInv, Taken
  <1>10. ExitInv'
    <2>1. Over' = Over /\ Latest' = Latest
      BY <1>1 DEF Over, Latest
    <2> QED BY <1>1, <1>5, <1>7, <2>1, Zenon DEF ExitInv
  <1>11. AckedWasForwarded'
    <2>1. /\ \A p \in App : Range(queue[p]) \cap Event \subseteq Range(queue'[p]) \cup gone'
          /\ \A l \in Link : Range(queue'[l]) \cap Event \subseteq Range(queue[l])
      BY <1>1, <1>2, Parties, Zenon DEF Taken, m
    <2> QED BY <1>1, <2>1, SameAcks, Zenon DEF AppTurnInv
  <1> QED BY <1>8, <1>9, <1>10, <1>11 DEF AppTurnInv

\* The Agent takes the first message of its connection: whatever it is, the
\* message is one the relay may have sent, and is in the queue no more.
LEMMA AgentTakes ==
  ASSUME AppTurnInv, NEW l \in Link, AgentReceive(l)
  PROVE  /\ queue[l] # <<>> /\ Taken(queue, queue', l)
         /\ Head(queue[l]) \in Range(queue[l])
         /\ Head(queue[l]) \in {ProjectList, setup.command, TurnInterrupt} \cup Event
         /\ \A c \in Conn : Range(queue'[c]) \subseteq Range(queue[c])
         /\ \A p \in App : Range(queue'[p]) = Range(queue[p])
         /\ \A k \in Link : Once(queue'[k], setup.command)
         /\ UNCHANGED <<setup, reg, conn, holds, sent, started, asked, exit, gone>>
  <1>1. queue \in [Conn -> Seq(Message)] /\ l \in Conn /\ ContentInv /\ TokenInv
    BY Parties DEF AppTurnInv, TypeInv
  <1>2. /\ queue[l] # <<>> /\ queue' = [queue EXCEPT ![l] = Tail(@)]
        /\ UNCHANGED <<setup, reg, conn, holds, sent, started, asked, exit, gone>>
    BY Zenon DEF AgentReceive, ctlVars
  <1>3. Taken(queue, queue', l)
    BY <1>1, <1>2, Dequeue, Zenon
  <1>4. /\ Head(queue[l]) \in Range(queue[l])
        /\ \A c \in Conn : Range(queue'[c]) \subseteq Range(queue[c])
        /\ \A p \in App : Range(queue'[p]) = Range(queue[p])
    BY <1>3, Parties, Zenon DEF Taken
  <1>5. Head(queue[l]) \in {ProjectList, setup.command, TurnInterrupt} \cup Event
    BY <1>1, <1>4 DEF ContentInv
  <1>6. \A k \in Link : Once(queue'[k], setup.command)
    BY <1>1, <1>3, Parties DEF TokenInv, Taken
  <1> QED BY <1>2, <1>3, <1>4, <1>5, <1>6, Zenon

\* An event appended to the log of relayctl's turn.
LEMMA Logging ==
  ASSUME TypeInv, NEW e \in EventType, Logged(e)
  PROVE  /\ log' \in [Turn -> Seq(EventType)]
         /\ log'["own"] = Append(log["own"], e)
         /\ Reported \subseteq Reported'
  <1>1. log \in [Turn -> Seq(EventType)] /\ "own" \in Turn
    BY DEF TypeInv, Turn
  <1>2. log' = [log EXCEPT !["own"] = Append(@, e)]
    BY DEF Logged
  <1>3. log' \in [Turn -> Seq(EventType)] /\ log'["own"] = Append(log["own"], e)
    BY <1>1, <1>2
  <1>4. \A t \in Turn : Len(log[t]) \in Nat /\ Len(log'[t]) \in Nat /\ Len(log[t]) <= Len(log'[t])
    BY <1>1, <1>2
  <1>5. \A m \in Event : m[1] \in Turn /\ m[2] \in Nat
    BY DEF Event
  <1> QED BY <1>3, <1>4, <1>5 DEF Reported

\* A step in which the Agent works on its turn, or takes a message that is not
\* the command.
LEMMA TurnGoesOn ==
  ASSUME AppTurnInv,
         UNCHANGED <<setup, reg, conn, holds, sent, started, asked, exit, gone, answer>>,
         queue' \in [Conn -> Seq(Message)],
         \A c \in Conn : Range(queue'[c]) \subseteq Range(queue[c]),
         \A k \in Link : Once(queue'[k], setup.command),
         acked' \in [Turn -> SUBSET (1 .. 2)],
         \/ log' = log
         \/ Running /\ Logged("turn.interrupted") /\ asked
         \/ Running /\ \E e \in {"turn.completed", "turn.failed"} : Logged(e)
  PROVE  TypeInv' /\ ContentInv' /\ CauseInv' /\ LogInv' /\ TokenInv' /\ RefusalInv' /\ ExitInv'
  <1>0. TypeInv /\ ContentInv /\ CauseInv /\ LogInv /\ TokenInv /\ RefusalInv /\ ExitInv
    BY DEF AppTurnInv
  <1>1. \/ log' = log
        \/ /\ log["own"] = <<"turn.started">> /\ ~ Over
           /\ \E e \in {"turn.completed", "turn.failed", "turn.interrupted"} :
                Logged(e) /\ (e = "turn.interrupted" => asked)
    <2>1. Running => log["own"] = <<"turn.started">>
      BY <1>0, OwnLog DEF LogInv
    <2> QED BY <2>1, Zenon DEF Running
  <1>2. /\ log' \in [Turn -> Seq(EventType)] /\ Reported \subseteq Reported'
        /\ log'["own"] \in OwnLogs
        /\ log'["own"] # <<>> <=> log["own"] # <<>>
        /\ log'["own"] = <<"turn.started", "turn.interrupted">> => asked
        /\ log' = log \/ ~ Over
    <2>1. CASE log' = log
      BY <1>0, <2>1 DEF TypeInv, LogInv, Reported
    <2>2. CASE log' # log
      <3>0. log["own"] = <<"turn.started">> /\ ~ Over
        BY <1>1, <2>2
      <3>1. PICK e \in {"turn.completed", "turn.failed", "turn.interrupted"} :
              Logged(e) /\ (e = "turn.interrupted" => asked)
        BY <1>1, <2>2
      <3>2. e \in EventType
        BY DEF EventType, Terminal
      <3>3. /\ log' \in [Turn -> Seq(EventType)] /\ Reported \subseteq Reported'
            /\ log'["own"] = <<"turn.started", e>>
        BY <1>0, <3>0, <3>1, <3>2, Logging, Pair
      <3>4. log'["own"] # <<>> /\ log["own"] # <<>> /\ log'["own"] \in OwnLogs
        <4>1. <<"turn.started", e>> # <<>> /\ <<"turn.started">> # <<>>
          OBVIOUS
        <4> QED BY <3>0, <3>1, <3>3, <4>1, Zenon DEF OwnLogs
      <3>5. log'["own"] = <<"turn.started", "turn.interrupted">> => e = "turn.interrupted"
        BY <3>3
      <3> QED BY <3>0, <3>1, <3>3, <3>4, <3>5
    <2> QED BY <1>1, <2>1, <2>2, Zenon
  <1>3. TypeInv'
    BY <1>0, <1>2, Zenon DEF TypeInv
  <1>4. ContentInv'
    <2>1. \A p \in App : Range(queue'[p]) \subseteq {Offline, Rejection, Answer} \cup Reported'
      BY <1>0, <1>2, Parties, Zenon DEF ContentInv
    <2>2. \A k \in Link : holds[k] # Nil => holds[k] \in ({Answer} \cup Reported') \X App
      BY <1>0, <1>2, Zenon DEF ContentInv
    <2>3. \A k \in Link : Range(queue'[k]) \subseteq {ProjectList, setup.command, TurnInterrupt} \cup Event
      BY <1>0, Parties, Zenon DEF ContentInv
    <2> QED BY <1>0, <2>1, <2>2, <2>3, Zenon DEF ContentInv
  <1>5. CauseInv'
    BY <1>0, Parties, ZenonT(30) DEF CauseInv
  <1>6. LogInv'
    BY <1>0, <1>2, Zenon DEF LogInv
  <1>7. /\ Got' <=> Got
        /\ OnItsWay' => OnItsWay
        /\ InHand' <=> InHand
        /\ \A k \in Link : setup.command \in Range(queue'[k]) => setup.command \in Range(queue[k])
    BY <1>2, Parties DEF Got, OnItsWay, InHand
  <1>8. TokenInv'
    BY <1>0, <1>7 DEF TokenInv
  <1>9. RefusalInv'
    <2>1. Nowhere => Nowhere'
      BY <1>7 DEF Nowhere
    <2>2. Rejection \in Range(queue'[Relayctl]) => Rejection \in Range(queue[Relayctl])
      BY Parties
    <2> QED BY <1>0, <2>1, <2>2, Zenon DEF RefusalInv
  <1>10. ExitInv'
    <2>1. CASE log' = log
      BY <2>1, <1>0, SameReport
    <2>2. CASE ~ Over
      BY <1>0, <2>2 DEF ExitInv
    <2> QED BY <1>2, <2>1, <2>2
  <1> QED BY <1>3, <1>4, <1>5, <1>6, <1>8, <1>9, <1>10

LEMMA AgentProgressStep ==
  ASSUME AppTurnInv, AgentProgress
  PROVE  AppTurnInv'
  <1>0. TypeInv /\ TokenInv
    BY DEF AppTurnInv
  <1>1. /\ UNCHANGED <<setup, reg, conn, queue, holds, sent, started, asked, exit, gone, answer, acked>>
        /\ Running /\ \E e \in {"turn.completed", "turn.failed"} : Logged(e)
    BY Zenon DEF AgentProgress, relayVars, ctlVars
  <1>2. /\ queue' \in [Conn -> Seq(Message)]
        /\ acked' \in [Turn -> SUBSET (1 .. 2)]
        /\ \A c \in Conn : Range(queue'[c]) \subseteq Range(queue[c])
        /\ \A k \in Link : Once(queue'[k], setup.command)
    BY <1>0, <1>1 DEF TypeInv, TokenInv
  <1>3. TypeInv' /\ ContentInv' /\ CauseInv' /\ LogInv' /\ TokenInv' /\ RefusalInv' /\ ExitInv'
    BY <1>1, <1>2, TurnGoesOn
  <1>4. AckedWasForwarded'
    BY <1>1, SameAcks DEF AppTurnInv
  <1> QED BY <1>3, <1>4 DEF AppTurnInv

LEMMA AgentReceiveStep ==
  ASSUME AppTurnInv, NEW l \in Link, AgentReceive(l)
  PROVE  AppTurnInv'
  <1> DEFINE m == Head(queue[l])
  <1>0. /\ TypeInv /\ ContentInv /\ CauseInv /\ LogInv /\ TokenInv /\ RefusalInv /\ ExitInv
        /\ setup.command \in {TurnStart, Request}
    BY CommandIs DEF AppTurnInv, TypeInv
  <1>1. /\ Taken(queue, queue', l) /\ m \in Range(queue[l])
        /\ m \in {ProjectList, setup.command, TurnInterrupt} \cup Event
        /\ \A c \in Conn : Range(queue'[c]) \subseteq Range(queue[c])
        /\ \A p \in App : Range(queue'[p]) = Range(queue[p])
        /\ \A k \in Link : Once(queue'[k], setup.command)
        /\ UNCHANGED <<setup, reg, conn, holds, sent, started, asked, exit, gone>>
    BY AgentTakes, Zenon
  <1>2. /\ acked' = [t \in Turn |-> acked[t] \cup {n \in 1 .. 2 : m = <<t, n>>}]
        /\ answer' = IF m = Request THEN "ready" ELSE answer
        /\ \/ m = TurnStart /\ \E e \in {"turn.started", "turn.rejected"} : Logged(e)
           \/ m = TurnInterrupt /\ Running /\ Logged("turn.interrupted")
           \/ ~ (m = TurnStart \/ (m = TurnInterrupt /\ Running)) /\ log' = log
    BY DEF AgentReceive
  <1> HIDE DEF m
  <1>3. queue' \in [Conn -> Seq(Message)] /\ acked' \in [Turn -> SUBSET (1 .. 2)]
    <2>1. queue' \in [Conn -> Seq(Message)]
      BY <1>1 DEF Taken
    <2>2. \A t \in Turn : acked[t] \cup {n \in 1 .. 2 : m = <<t, n>>} \in SUBSET (1 .. 2)
      BY <1>0, Zenon DEF TypeInv
    <2> QED BY <1>2, <2>1, <2>2
  <1>4. AckedWasForwarded'
    <2> SUFFICES ASSUME NEW e \in Event,
                        e[2] \in acked'[e[1]] \/ \E k \in Link : e \in Range(queue'[k])
                 PROVE  e \in gone' \/ \E p \in App : e \in Range(queue'[p])
      BY DEF AckedWasForwarded
    <2>1. e[1] \in Turn /\ e = <<e[1], e[2]>>
      BY DEF Event
    <2>2. acked'[e[1]] = acked[e[1]] \cup {n \in 1 .. 2 : m = <<e[1], n>>}
      BY <1>2, <2>1
    <2>3. e[2] \in acked'[e[1]] => e[2] \in acked[e[1]] \/ m = e
      BY <2>1, <2>2, Zenon
    <2>4. e[2] \in acked[e[1]] \/ \E k \in Link : e \in Range(queue[k])
      BY <1>1, <2>3, Parties, Zenon
    <2>5. e \in gone \/ \E p \in App : e \in Range(queue[p])
      BY <2>4 DEF AppTurnInv, AckedWasForwarded
    <2> QED BY <1>1, <2>5, Zenon
  <1>5. CASE m # setup.command
    <2>1. m # TurnStart /\ m # Request
      BY <1>0, <1>1, <1>5, Messages, ZenonT(30)
    <2>2. m = TurnInterrupt => asked
      BY <1>0, <1>1, Zenon DEF CauseInv
    <2>3. \/ log' = log
          \/ Running /\ Logged("turn.interrupted") /\ asked
      BY <1>2, <2>1, <2>2
    <2>4. TypeInv' /\ ContentInv' /\ CauseInv' /\ LogInv' /\ TokenInv' /\ RefusalInv' /\ ExitInv'
      BY <1>1, <1>2, <1>3, <2>1, <2>3, TurnGoesOn, Zenon
    <2> QED BY <1>4, <2>4, Zenon DEF AppTurnInv
  <1>6. CASE m = setup.command
    <2>1. OnItsWay /\ ~ Got /\ ~ InHand /\ sent # <<setup.command>>
      BY <1>0, <1>1, <1>6, Zenon DEF TokenInv, OnItsWay
    <2>2. log["own"] = <<>> /\ answer = "none"
      BY <2>1, Zenon DEF Got
    <2>3. ~ OnItsWay'
      <3>1. \A k \in Link : setup.command \in Range(queue[k]) => k = l
        BY <1>0, <1>1, <1>6 DEF TokenInv
      <3>2. setup.command \notin Range(queue'[l])
        BY <1>0, <1>1, <1>6 DEF TokenInv, Taken, m
      <3> QED BY <1>1, <3>1, <3>2, Parties, Zenon DEF OnItsWay
    <2>4. \/ setup.command = Request /\ answer' = "ready" /\ log' = log
          \/ /\ setup.command = TurnStart /\ answer' = answer
             /\ \E e \in {"turn.started", "turn.rejected"} : Logged(e)
      BY <1>0, <1>2, <1>6, Messages
    <2>5. /\ log' \in [Turn -> Seq(EventType)] /\ Reported \subseteq Reported'
          /\ log'["own"] \in OwnLogs
          /\ log'["own"] # <<>> => setup.command = TurnStart
          /\ log'["own"] # <<"turn.started", "turn.interrupted">>
          /\ answer' \in {"none", "ready", "sent"}
          /\ answer' # "none" => setup.command = Request
      <3>1. CASE setup.command = Request /\ answer' = "ready" /\ log' = log
        <4>1. log'["own"] = <<>> /\ log'["own"] # <<"turn.started", "turn.interrupted">>
          BY <2>2, <3>1
        <4>2. Reported' = Reported /\ log' \in [Turn -> Seq(EventType)] /\ log'["own"] \in OwnLogs
          BY <1>0, <3>1 DEF TypeInv, LogInv, Reported
        <4> QED BY <3>1, <4>1, <4>2
      <3>2. CASE /\ setup.command = TurnStart /\ answer' = answer
                 /\ \E e \in {"turn.started", "turn.rejected"} : Logged(e)
        <4>1. PICK e \in {"turn.started", "turn.rejected"} : Logged(e)
          BY <3>2
        <4>2. e \in EventType
          BY DEF EventType, Terminal
        <4>3. /\ log' \in [Turn -> Seq(EventType)] /\ Reported \subseteq Reported'
              /\ log'["own"] = Append(<<>>, e)
          BY <1>0, <2>2, <4>1, <4>2, Logging
        <4>4. Append(<<>>, e) = <<e>>
          OBVIOUS
        <4>5. log'["own"] \in OwnLogs /\ log'["own"] # <<"turn.started", "turn.interrupted">>
          BY <4>3, <4>4 DEF OwnLogs
        <4> QED BY <2>2, <3>2, <4>3, <4>5
      <3> QED BY <2>4, <3>1, <3>2
    <2>6. TypeInv'
      BY <1>0, <1>1, <1>3, <2>5, Zenon DEF TypeInv
    <2>7. ContentInv'
      <3>1. \A p \in App : Range(queue'[p]) \subseteq {Offline, Rejection, Answer} \cup Reported'
        BY <1>0, <1>1, <2>5, Parties, Zenon DEF ContentInv
      <3>2. \A k \in Link : holds[k] # Nil => holds[k] \in ({Answer} \cup Reported') \X App
        BY <1>0, <2>5 DEF ContentInv
      <3>3. \A k \in Link : Range(queue'[k]) \subseteq {ProjectList, setup.command, TurnInterrupt} \cup Event
        BY <1>0, <1>1, Parties, Zenon DEF ContentInv
      <3> QED BY <1>0, <1>1, <3>1, <3>2, <3>3, Zenon DEF ContentInv
    <2>8. CauseInv'
      BY <1>0, <1>1, <2>2, Parties, Zenon DEF CauseInv
    <2>9. LogInv'
      <3>1. ~ started
        BY <1>0, <2>2 DEF LogInv
      <3> QED BY <1>1, <2>5, <3>1 DEF LogInv
    <2>10. TokenInv'
      <3>1. ~ InHand'
        BY <1>1, <2>1, Zenon DEF InHand
      <3> QED BY <1>1, <2>1, <2>3, <3>1, Zenon DEF TokenInv, OnItsWay
    <2>11. RefusalInv'
      BY <1>0, <1>1, <2>1, Parties, Zenon DEF RefusalInv, Nowhere
    <2>12. ExitInv'
      <3>1. ~ Over
        BY <2>2 DEF Over
      <3>2. exit # <<0, "Agent">> /\ exit # <<1, "Agent">> /\ exit # <<130, "Agent">>
        BY <1>0, <2>2, <3>1 DEF ExitInv
      <3> QED BY <1>1, <3>2, ZenonT(30) DEF ExitInv
    <2> QED BY <1>4, <2>6, <2>7, <2>8, <2>9, <2>10, <2>11, <2>12 DEF AppTurnInv
  <1> QED BY <1>5, <1>6, Zenon

-----------------------------------------------------------------------------
(* The theorems.                                                           *)

\* The first state: nobody is connected, and no message is under way.
LEMMA AppTurnInit == Init => AppTurnInv
  <1> SUFFICES ASSUME Init PROVE AppTurnInv
    OBVIOUS
  <1>1. \A c \in Conn : /\ conn[c] = "unused" /\ queue[c] = <<>> /\ holds[c] = Nil
                        /\ Range(queue[c]) = {} /\ \A x : Once(queue[c], x)
    BY DEF Init, Range, Once
  <1>2. log \in [Turn -> Seq(EventType)] /\ log["own"] = <<>>
    <2>1. <<>> \in Seq(EventType) /\ <<"turn.completed">> \in Seq(EventType)
      BY DEF EventType, Terminal
    <2>2. \A t \in Turn : log[t] \in {<<>>, <<"turn.completed">>}
      BY DEF Init
    <2>3. "own" \in Turn /\ "own" # "other"
      BY DEF Turn
    <2> QED BY <2>1, <2>2, <2>3 DEF Init
  <1>3. TypeInv
    <2>1. /\ conn \in [Conn -> {"unused", "open", "closed", "ended"}]
          /\ queue \in [Conn -> Seq(Message)]
          /\ holds \in [Conn -> {Nil} \cup (Message \X (Conn \cup {Nil}))]
      <3>1. conn \in [Conn -> {"unused", "open", "closed", "ended"}]
        BY DEF Init
      <3>2. queue \in [Conn -> Seq(Message)]
        <4>1. <<>> \in Seq(Message)
          OBVIOUS
        <4> QED BY <4>1, Zenon DEF Init
      <3>3. holds \in [Conn -> {Nil} \cup (Message \X (Conn \cup {Nil}))]
        BY Zenon DEF Init
      <3> QED BY <3>1, <3>2, <3>3
    <2>2. acked \in [Turn -> SUBSET (1 .. 2)] /\ reg \in [app : App \cup {Nil}, agent : Link \cup {Nil}]
      BY DEF Init
    <2>3. /\ setup \in Setups /\ sent = <<>> /\ started = FALSE /\ asked = FALSE /\ answer = "none"
      BY DEF Init
    <2> QED BY <1>2, <2>1, <2>2, <2>3, Zenon DEF TypeInv
  <1>4. ContentInv
    BY <1>1, Parties, Zenon DEF ContentInv
  <1>5. CauseInv
    <2>1. sent # <<TurnInterrupt>>
      BY Zenon DEF Init
    <2> QED BY <1>1, <2>1, Parties, Zenon DEF CauseInv
  <1>6. LogInv
    BY <1>2, SMTT(20) DEF Init, LogInv, OwnLogs
  <1>7. ~ OnItsWay /\ ~ InHand /\ ~ Got
    BY <1>1, <1>2, Parties DEF Init, OnItsWay, InHand, Got
  <1>8. TokenInv
    BY <1>1, <1>7, Parties DEF TokenInv
  <1>9. exit = <<>>
    BY DEF Init, Nil
  <1>10. RefusalInv
    <2>1. exit # <<1, "relay">>
      BY <1>9
    <2> QED BY <1>1, <1>7, <2>1, Parties DEF RefusalInv, Nowhere, Init
  <1>11. ExitInv
    <2>1. exit # <<0, "Agent">> /\ exit # <<1, "Agent">> /\ exit # <<130, "Agent">>
      BY <1>9
    <2> QED BY <2>1 DEF ExitInv
  <1>12. AckedWasForwarded
    <2>1. \A m \in Event : m[2] \notin acked[m[1]]
      BY DEF Init, Event
    <2> QED BY <1>1, <2>1, Parties DEF AckedWasForwarded
  <1> QED BY <1>3, <1>4, <1>5, <1>6, <1>8, <1>10, <1>11, <1>12 DEF AppTurnInv

\* The inductive invariant of turns and requests.
THEOREM AppTurnCorrect == Spec => []AppTurnInv
  <1>1. AppTurnInv /\ [Next]_vars => AppTurnInv'
    <2> SUFFICES ASSUME AppTurnInv, [Next]_vars PROVE AppTurnInv'
      OBVIOUS
    <2>1. ASSUME NEW p \in App, ConnectApp(p) PROVE AppTurnInv'
      BY <2>1, ConnectAppStep
    <2>2. ASSUME NEW l \in Link, ConnectAgent(l) PROVE AppTurnInv'
      BY <2>2, ConnectAgentStep
    <2>3. ASSUME NEW p \in Conn, Break(p) \/ End(p) PROVE AppTurnInv'
      BY <2>3, BreakStep, EndStep
    <2>4. CASE RouteToAgent \/ ForwardCommand
      BY <2>4, RouteToAgentStep, ForwardCommandStep
    <2>5. ASSUME NEW l \in Link, NEW m \in Event \cup {Answer},
                 RouteToApp(l, m) \/ OwnerUnknown(l, m)
          PROVE  AppTurnInv'
      BY <2>5, RouteToAppStep, CursorStep DEF OwnerUnknown, Sent
    <2>6. ASSUME NEW l \in Link, ForwardToApp(l) \/ AgentReceive(l) PROVE AppTurnInv'
      BY <2>6, ForwardToAppStep, AgentReceiveStep
    <2>7. CASE Receive \/ Signal \/ GiveUp \/ WatchReceive
      BY <2>7, ReceiveStep, SignalStep, GiveUpStep, WatchReceiveStep
    <2>8. CASE AgentProgress
      BY <2>8, AgentProgressStep
    <2>9. ASSUME NEW t \in Turn, AgentReplay(t) PROVE AppTurnInv'
      BY <2>9, CursorStep DEF AgentReplay
    <2>10. CASE UNCHANGED vars
      BY <2>10, CursorStep DEF vars, agentVars
    <2> QED BY <2>1, <2>2, <2>3, <2>4, <2>5, <2>6, <2>7, <2>8, <2>9, <2>10 DEF Next
  <1> QED BY <1>1, AppTurnInit, PTL DEF Spec

\* The relay acknowledges an event of the Agent only after an App has taken it,
\* on whichever connection the acknowledgement travels and however often the
\* event is repeated.
THEOREM AcksFollowForwards == Spec => []AckedWasForwarded
  <1>1. AppTurnInv => AckedWasForwarded
    BY DEF AppTurnInv
  <1> QED BY <1>1, AppTurnCorrect, PTL

\* relayctl's exit code tells what the Agent did with its command, and a
\* rejection by the relay that the Agent has not got it and never will.
THEOREM ExitIsTrue == Spec => []ReportIsTrue
  <1>1. AppTurnInv => ReportIsTrue
    <2> SUFFICES ASSUME AppTurnInv PROVE ReportIsTrue
      OBVIOUS
    <2>1. ExitInv /\ RefusalInv
      BY DEF AppTurnInv
    <2>2. (exit = <<1, "relay">> /\ ~ asked) =>
            /\ log["own"] = <<>> /\ answer = "none"
            /\ \A l \in Link : setup.command \notin Range(queue[l])
      BY <2>1 DEF RefusalInv, Nowhere, OnItsWay, Got
    <2> QED BY <2>1, <2>2 DEF ReportIsTrue, ExitInv
  <1> QED BY <1>1, AppTurnCorrect, PTL
=============================================================================
