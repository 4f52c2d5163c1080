--------------------------- MODULE GatewayProofs ----------------------------
(***************************************************************************)
(* The pending map of a gateway keeps its limit and holds no entry of a    *)
(* call that has returned, for any number of calls and Agent connections   *)
(* and any limit.  A request has one answer at most, an answer is left to  *)
(* the router only when its call has given up, and a waiting call whose    *)
(* connection is up waits for something that exists.                       *)
(***************************************************************************)
EXTENDS Gateway, FiniteSetTheorems, TLAPS

\* The inductive invariant.
GatewayInv ==
  /\ pc \in [Call -> {"new", "register", "send", "wait", "returning", "done"}]
  /\ pending \subseteq Call
  /\ IsFiniteSet(pending)
  /\ PendingBounded
  /\ NothingLeaks

\* Before the first call.
LEMMA InitInv == Init => GatewayInv
  BY FS_EmptySet, GatewayAssumption DEF Init, GatewayInv, PendingBounded, NothingLeaks

\* Steps of the Agent's connections and answers touch neither the map nor a call.
LEMMA ElsewhereInv ==
  ASSUME GatewayInv, UNCHANGED <<pc, pending>>
  PROVE  GatewayInv'
  BY DEF GatewayInv, PendingBounded, NothingLeaks

\* A call goes on, and the map stays as it is; one with an entry keeps to the labels
\* that lead to the deferred delete.
LEMMA CallGoesOn ==
  ASSUME GatewayInv, NEW c \in Call, pending' = pending,
         NEW label \in {"register", "wait", "returning"},
         c \in pending => label # "register",
         pc' = [pc EXCEPT ![c] = label]
  PROVE  GatewayInv'
  BY DEF GatewayInv, PendingBounded, NothingLeaks

\* An entry is made only below the limit.
LEMMA RegisterInv ==
  ASSUME GatewayInv, NEW c \in Call, Register(c)
  PROVE  GatewayInv'
  <1>1. CASE Full
    BY <1>1, CallGoesOn DEF Register, Return
  <1>2. CASE ~ Full
    <2>1. pending' = pending \cup {c} /\ pc' = [pc EXCEPT ![c] = "send"]
      BY <1>2 DEF Register
    <2>2. Cardinality(pending) \in Nat /\ Cardinality(pending) < MaxPending
      BY <1>2, FS_CardinalityType, GatewayAssumption DEF Full, GatewayInv
    <2>3. IsFiniteSet(pending') /\ Cardinality(pending') <= Cardinality(pending) + 1
      BY <2>1, <2>2, FS_AddElement DEF GatewayInv
    <2>4. Cardinality(pending') \in Nat
      BY <2>3, FS_CardinalityType
    <2>5. PendingBounded'
      BY <2>2, <2>3, <2>4, GatewayAssumption DEF PendingBounded
    <2>6. NothingLeaks' /\ pending' \subseteq Call
      BY <2>1 DEF GatewayInv, NothingLeaks
    <2>7. pc' \in [Call -> {"new", "register", "send", "wait", "returning", "done"}]
      BY <2>1 DEF GatewayInv
    <2> QED BY <2>3, <2>5, <2>6, <2>7 DEF GatewayInv
  <1> QED BY <1>1, <1>2

\* The deferred delete gives the entry back.
LEMMA UnregisterInv ==
  ASSUME GatewayInv, NEW c \in Call, Unregister(c)
  PROVE  GatewayInv'
  <1>1. pending' = pending \ {c} /\ pc' = [pc EXCEPT ![c] = "done"]
    BY DEF Unregister
  <1>2. IsFiniteSet(pending') /\ Cardinality(pending') <= Cardinality(pending)
    BY <1>1, FS_Subset DEF GatewayInv
  <1>3. Cardinality(pending) \in Nat /\ Cardinality(pending') \in Nat
    BY <1>2, FS_CardinalityType DEF GatewayInv
  <1>4. PendingBounded'
    BY <1>2, <1>3, GatewayAssumption DEF GatewayInv, PendingBounded
  <1>5. NothingLeaks' /\ pending' \subseteq Call
    BY <1>1 DEF GatewayInv, NothingLeaks
  <1>6. pc' \in [Call -> {"new", "register", "send", "wait", "returning", "done"}]
    BY <1>1 DEF GatewayInv
  <1> QED BY <1>2, <1>4, <1>5, <1>6 DEF GatewayInv

\* Every step of a call, of an Agent's connection or of the shutdown.
LEMMA NextInv ==
  ASSUME GatewayInv, [Next]_vars
  PROVE  GatewayInv'
  <1>1. CASE UNCHANGED vars
    BY <1>1, ElsewhereInv DEF vars
  <1>2. ASSUME NEW c \in Call, LookUp(c) PROVE GatewayInv'
    <2>1. c \notin pending
      BY <1>2 DEF LookUp, GatewayInv, NothingLeaks
    <2> QED BY <1>2, <2>1, CallGoesOn DEF LookUp, Return
  <1>3. ASSUME NEW c \in Call, Register(c) PROVE GatewayInv'
    BY <1>3, RegisterInv
  <1>4. ASSUME NEW c \in Call, Send(c) PROVE GatewayInv'
    BY <1>4, CallGoesOn DEF Send, Return
  <1>5. ASSUME NEW c \in Call, Receive(c) \/ Timeout(c) PROVE GatewayInv'
    BY <1>5, CallGoesOn DEF Receive, Timeout, Return
  <1>6. ASSUME NEW c \in Call, Unregister(c) PROVE GatewayInv'
    BY <1>6, UnregisterInv
  <1>7. ASSUME NEW c \in Call, NEW r \in Answer, Handle(c, r) \/ HandleServes(c, r)
        PROVE  GatewayInv'
    BY <1>7, ElsewhereInv DEF Handle, HandleServes
  <1>8. ASSUME NEW a \in Agent, \/ Connect(a) \/ LinkBreaks(a) \/ Disconnect(a)
                                \/ AgentDisconnected(a) \/ Disconnected(a)
        PROVE  GatewayInv'
    BY <1>8, ElsewhereInv
    DEF Connect, LinkBreaks, Disconnect, AgentDisconnected, Disconnected
  <1>9. ASSUME NEW a \in Agent \cup {Nil}, NEW c \in Call, FailPending(a, c)
        PROVE  GatewayInv'
    BY <1>9, ElsewhereInv DEF FailPending
  <1>10. CASE Close \/ CloseAll
    BY <1>10, ElsewhereInv DEF Close, CloseAll
  <1> QED BY <1>1, <1>2, <1>3, <1>4, <1>5, <1>6, <1>7, <1>8, <1>9, <1>10 DEF Next, CallStep

\* However calls, answers, failures and disconnections interleave, the map stays
\* within its limit and every entry belongs to a call that will give it back.
THEOREM GatewayCorrect == Spec => []GatewayInv
  BY InitInv, NextInv, PTL DEF Spec

\* At most MaxPending calls are pending.
THEOREM LimitKept == Spec => []PendingBounded
  <1>1. GatewayInv => PendingBounded
    BY DEF GatewayInv
  <1> QED BY <1>1, GatewayCorrect, PTL

\* No entry outlives its call.
THEOREM NoEntryLeaks == Spec => []NothingLeaks
  <1>1. GatewayInv => NothingLeaks
    BY DEF GatewayInv
  <1> QED BY <1>1, GatewayCorrect, PTL

-----------------------------------------------------------------------------
(* What becomes of an answer.                                              *)

\* An answer to the call has been taken by Handle for its waiter.
Taken(c) == \E r \in Answer : <<c, r>> \in answering
Answered(c) == waiter[c] \in Answer \/ Taken(c) \/ result[c] \in Answer

\* An answer left to the router is one of a call that has returned without one.
OnlyLateForwarded ==
  \A c \in forwarded : pc[c] = "done" /\ ~ Answered(c)

\* A call that waits on a connection that is up has its request with the Agent or
\* its answer on the way to the waiter, unless the waiter has something already.
WaitsForSomething ==
  \A c \in Call :
    (pc[c] = "wait" /\ waiter[c] = "empty" /\ link[peer[c]] = "up") => c \in asked \/ Taken(c)

\* A request is answered once: two answers to a call are never on the way together,
\* and what a call has returned is the answer its waiter was given.
OneAnswer ==
  \A c \in Call :
    /\ \A r, s \in Answer : <<c, r>> \in answering /\ <<c, s>> \in answering => r = s
    /\ Taken(c) => c \notin asked /\ waiter[c] \notin Answer /\ result[c] \notin Answer
    /\ result[c] \in Answer => waiter[c] = result[c]

\* A call before it waits has sent nothing; from its entry on it uses a connection
\* that has come up; a request with the Agent is of a call with an entry or of one
\* that has returned.
RequestRow(c) ==
  /\ pc[c] \in {"register", "send", "wait"} => peer[c] \in Agent /\ link[peer[c]] # "new"
  /\ pc[c] \in {"send", "wait"} => c \in pending
  /\ pc[c] \in {"new", "register", "send"} => c \notin asked /\ ~ Answered(c)
  /\ c \in asked => ~ Answered(c) /\ (c \in pending \/ pc[c] = "done")
  /\ c \in forwarded => pc[c] = "done" /\ c \notin asked /\ ~ Answered(c)
  /\ (pc[c] = "wait" /\ waiter[c] = "empty" /\ link[peer[c]] = "up") => c \in asked \/ Taken(c)
  /\ \A r, s \in Answer : <<c, r>> \in answering /\ <<c, s>> \in answering => r = s
  /\ Taken(c) => waiter[c] \notin Answer /\ result[c] \notin Answer
  /\ result[c] \in Answer => waiter[c] = result[c]

AnswerTypes ==
  /\ agent \in Agent \cup {Nil}
  /\ link \in [Agent -> {"new", "up", "ending", "removed", "failing", "gone"}]
  /\ peer \in [Call -> Agent \cup {Nil}]
  /\ waiter \in [Call -> Answer \cup {"empty", "unavailable", "offline"}]
  /\ result \in [Call -> Answer \cup {"none", "empty", "unavailable", "offline", "busy", "timeout"}]
  /\ asked \subseteq Call
  /\ forwarded \subseteq Call
  /\ answering \subseteq Call \X Answer
  /\ agent # Nil => link[agent] # "new"

AnswerInv == AnswerTypes /\ \A c \in Call : RequestRow(c)

\* At first no request is under way.
LEMMA AnswerInit == Init => AnswerInv
  <1> SUFFICES ASSUME Init PROVE AnswerInv
    OBVIOUS
  <1> USE DEF Init
  <1>1. AnswerTypes
    BY DEF AnswerTypes
  <1>2. \A c \in Call : ~ Taken(c) /\ ~ Answered(c) /\ pc[c] = "new" /\ result[c] \notin Answer
    BY DEF Taken, Answered, Answer
  <1>3. ASSUME NEW c \in Call PROVE RequestRow(c)
    BY <1>2 DEF RequestRow
  <1> QED BY <1>1, <1>3 DEF AnswerInv

\* Connections come up once.
LinksGoOn ==
  /\ link' \in [Agent -> {"new", "up", "ending", "removed", "failing", "gone"}]
  /\ \A a \in Agent : link[a] # "new" => link'[a] # "new" /\ (link'[a] = "up" => link[a] = "up")

\* Nothing of call d changes.
Same(d) ==
  /\ pc'[d] = pc[d] /\ peer'[d] = peer[d] /\ waiter'[d] = waiter[d] /\ result'[d] = result[d]
  /\ (d \in pending') <=> (d \in pending)
  /\ (d \in asked') <=> (d \in asked)
  /\ (d \in forwarded') <=> (d \in forwarded)
  /\ \A r \in Answer : (<<d, r>> \in answering') <=> (<<d, r>> \in answering)

\* A call that a step does not touch keeps its part of the invariant.
LEMMA RowStays ==
  ASSUME AnswerInv, NEW d \in Call, Same(d), LinksGoOn
  PROVE  RequestRow(d)'
  <1>1. Taken(d)' = Taken(d) /\ Answered(d)' = Answered(d)
    BY DEF Taken, Answered, Same
  <1>2. RequestRow(d) /\ peer[d] \in Agent \cup {Nil}
    BY DEF AnswerInv, AnswerTypes
  <1>3. pc[d] \in {"register", "send", "wait"} =>
          link'[peer[d]] # "new" /\ (link'[peer[d]] = "up" => link[peer[d]] = "up")
    BY <1>2 DEF RequestRow, LinksGoOn
  <1> QED BY <1>1, <1>2, <1>3 DEF RequestRow, Same

\* A step of one call, or of its answer.
LEMMA RowSteps ==
  ASSUME AnswerInv, NEW c \in Call, LinksGoOn, AnswerTypes', RequestRow(c)',
         \A d \in Call \ {c} : Same(d)
  PROVE  AnswerInv'
  BY RowStays DEF AnswerInv

\* Connections that do not change have not come back.
LEMMA LinksStay ==
  ASSUME AnswerInv, UNCHANGED link
  PROVE  LinksGoOn
  BY DEF AnswerInv, AnswerTypes, LinksGoOn

\* The way of a call up to its request.
LEMMA AnswerLookUp ==
  ASSUME GatewayInv, AnswerInv, NEW c \in Call, LookUp(c) \/ Register(c)
  PROVE  AnswerInv'
  <1>1. /\ pc[c] \in {"new", "register"} /\ c \notin asked /\ ~ Answered(c) /\ c \notin forwarded
        /\ UNCHANGED <<agent, link, waiter, asked, answering, forwarded>>
    BY DEF LookUp, Register, AnswerInv, RequestRow
  <1>2. \A d \in Call \ {c} : Same(d)
    BY DEF LookUp, Register, Return, GatewayInv, AnswerInv, AnswerTypes, Same
  <1>3. AnswerTypes'
    BY DEF LookUp, Register, Return, AnswerInv, AnswerTypes
  <1>4. result'[c] \notin Answer
    BY <1>1 DEF LookUp, Register, Return, AnswerInv, AnswerTypes, Answered, Answer
  <1>5. ~ Answered(c)' /\ ~ Taken(c)'
    BY <1>1, <1>4 DEF Answered, Taken
  <1>6. /\ pc'[c] \in {"register", "send", "returning"}
        /\ pc'[c] = "send" => c \in pending'
        /\ pc'[c] # "returning" => peer'[c] \in Agent /\ link[peer'[c]] # "new"
    <2>1. CASE LookUp(c)
      BY <2>1 DEF LookUp, Return, GatewayInv, AnswerInv, AnswerTypes
    <2>2. CASE Register(c)
      <3>1. peer[c] \in Agent /\ link[peer[c]] # "new"
        BY <2>2 DEF Register, AnswerInv, RequestRow
      <3> QED BY <2>2, <3>1 DEF Register, Return, GatewayInv
    <2> QED BY <2>1, <2>2
  <1>7. RequestRow(c)'
    BY <1>1, <1>4, <1>5, <1>6 DEF RequestRow, Taken
  <1> QED BY <1>1, <1>2, <1>3, <1>7, LinksStay, RowSteps

\* The request goes out, or the call returns with the failure to send it.
LEMMA AnswerSend ==
  ASSUME GatewayInv, AnswerInv, NEW c \in Call, Send(c)
  PROVE  AnswerInv'
  <1>1. /\ pc[c] = "send" /\ c \notin asked /\ ~ Answered(c) /\ c \notin forwarded
        /\ c \in pending /\ peer[c] \in Agent /\ link[peer[c]] # "new"
        /\ UNCHANGED <<agent, link, peer, pending, waiter, answering, forwarded>>
    BY DEF Send, AnswerInv, RequestRow
  <1>2. \A d \in Call \ {c} : Same(d)
    BY DEF Send, Return, GatewayInv, AnswerInv, AnswerTypes, Same
  <1>3. AnswerTypes'
    BY DEF Send, Return, AnswerInv, AnswerTypes
  <1>4. result'[c] \notin Answer
    BY <1>1 DEF Send, Return, AnswerInv, AnswerTypes, Answered, Answer
  <1>5. ~ Answered(c)' /\ ~ Taken(c)'
    BY <1>1, <1>4 DEF Answered, Taken
  <1>6. /\ pc'[c] \in {"wait", "returning"}
        /\ pc'[c] = "wait" /\ link[peer[c]] = "up" => c \in asked'
    BY DEF Send, Return, GatewayInv
  <1>7. RequestRow(c)'
    BY <1>1, <1>4, <1>5, <1>6 DEF RequestRow, Taken
  <1> QED BY <1>1, <1>2, <1>3, <1>7, LinksStay, RowSteps

\* The way out of a call.
LEMMA AnswerReturn ==
  ASSUME GatewayInv, AnswerInv, NEW c \in Call, Receive(c) \/ Timeout(c)
  PROVE  AnswerInv'
  <1>1. /\ pc[c] = "wait" /\ RequestRow(c)
        /\ UNCHANGED <<agent, link, peer, pending, waiter, asked, answering, forwarded>>
    BY DEF Receive, Timeout, AnswerInv
  <1>2. \A d \in Call \ {c} : Same(d)
    BY DEF Receive, Timeout, Return, GatewayInv, AnswerInv, AnswerTypes, Same
  <1>3. AnswerTypes'
    BY DEF Receive, Timeout, Return, AnswerInv, AnswerTypes
  <1>4. /\ pc'[c] = "returning"
        /\ result'[c] = waiter[c] \/ result'[c] \notin Answer
    BY DEF Receive, Timeout, Return, GatewayInv, AnswerInv, AnswerTypes, Answer
  <1>5. Taken(c)' = Taken(c) /\ (Answered(c)' => Answered(c))
    BY <1>1, <1>4 DEF Answered, Taken
  <1>6. RequestRow(c)'
    BY <1>1, <1>4, <1>5 DEF RequestRow
  <1> QED BY <1>1, <1>2, <1>3, <1>6, LinksStay, RowSteps

\* The deferred delete: the entry goes, what the call returned stays.
LEMMA AnswerUnregister ==
  ASSUME GatewayInv, AnswerInv, NEW c \in Call, Unregister(c)
  PROVE  AnswerInv'
  <1>1. /\ RequestRow(c) /\ pc'[c] = "done"
        /\ UNCHANGED <<agent, link, peer, waiter, result, asked, answering, forwarded>>
    BY DEF Unregister, AnswerInv, GatewayInv
  <1>2. \A d \in Call \ {c} : Same(d)
    BY DEF Unregister, GatewayInv, Same
  <1>3. AnswerTypes'
    BY <1>1 DEF AnswerInv, AnswerTypes
  <1>4. Taken(c)' = Taken(c) /\ Answered(c)' = Answered(c)
    BY <1>1 DEF Answered, Taken
  <1>5. RequestRow(c)'
    BY <1>1, <1>4 DEF RequestRow
  <1> QED BY <1>1, <1>2, <1>3, <1>5, LinksStay, RowSteps

\* An answer arrives: it is for the waiter of a call with an entry, or too late.
LEMMA AnswerHandle ==
  ASSUME GatewayInv, AnswerInv, NEW c \in Call, NEW r \in Answer, Handle(c, r)
  PROVE  AnswerInv'
  <1>1. /\ RequestRow(c) /\ c \in asked /\ asked' = asked \ {c}
        /\ UNCHANGED <<agent, link, pc, peer, pending, waiter, result>>
    BY DEF Handle, AnswerInv
  <1>2. \A d \in Call \ {c} : Same(d)
    BY DEF Handle, Same
  <1>3. AnswerTypes'
    BY DEF Handle, AnswerInv, AnswerTypes
  <1>4. ~ Answered(c) /\ ~ Taken(c) /\ waiter[c] \notin Answer /\ result[c] \notin Answer
    BY <1>1 DEF RequestRow, Answered
  <1>5. CASE c \in pending
    <2>1. answering' = answering \cup {<<c, r>>} /\ UNCHANGED forwarded
      BY <1>5 DEF Handle
    <2>2. pc[c] \notin {"new", "register", "send", "done"} /\ c \notin forwarded
      BY <1>1, <1>5 DEF GatewayInv, NothingLeaks, RequestRow
    <2>3. Taken(c)' /\ \A s \in Answer : <<c, s>> \in answering' => s = r
      BY <1>4, <2>1 DEF Taken
    <2>4. RequestRow(c)'
      BY <1>1, <1>4, <2>1, <2>2, <2>3 DEF RequestRow
    <2> QED BY <1>1, <1>2, <1>3, <2>4, LinksStay, RowSteps
  <1>6. CASE c \notin pending
    <2>1. pc[c] = "done" /\ UNCHANGED answering
      BY <1>1, <1>6 DEF RequestRow, Handle
    <2>2. ~ Answered(c)' /\ ~ Taken(c)'
      BY <1>1, <1>4, <2>1 DEF Answered, Taken
    <2>3. RequestRow(c)'
      BY <1>1, <1>4, <2>1, <2>2 DEF RequestRow
    <2> QED BY <1>1, <1>2, <1>3, <2>3, LinksStay, RowSteps
  <1> QED BY <1>5, <1>6

\* The channel takes the answer unless it has something already.
LEMMA AnswerServes ==
  ASSUME GatewayInv, AnswerInv, NEW c \in Call, NEW r \in Answer, HandleServes(c, r)
  PROVE  AnswerInv'
  <1>1. /\ RequestRow(c) /\ Taken(c) /\ answering' = answering \ {<<c, r>>}
        /\ UNCHANGED <<agent, link, pc, peer, pending, result, asked, forwarded>>
    BY DEF HandleServes, AnswerInv, Taken
  <1>2. \A d \in Call \ {c} : Same(d)
    BY DEF HandleServes, Offer, Same, AnswerInv, AnswerTypes
  <1>3. AnswerTypes'
    BY DEF HandleServes, Offer, AnswerInv, AnswerTypes
  <1>4. waiter'[c] # "empty"
    BY DEF HandleServes, Offer, AnswerInv, AnswerTypes, Answer
  <1>5. ~ Taken(c)'
    BY <1>1, Zenon DEF RequestRow, Taken, HandleServes
  <1>6. Answered(c) /\ result[c] \notin Answer
    BY <1>1 DEF RequestRow, Answered
  <1>7. RequestRow(c)'
    BY <1>1, <1>4, <1>5, <1>6 DEF RequestRow, Taken
  <1> QED BY <1>1, <1>2, <1>3, <1>7, LinksStay, RowSteps

\* FailPending offers an error.
LEMMA AnswerFails ==
  ASSUME GatewayInv, AnswerInv, NEW a \in Agent \cup {Nil}, NEW c \in Call, FailPending(a, c)
  PROVE  AnswerInv'
  <1>1. /\ RequestRow(c)
        /\ UNCHANGED <<agent, link, pc, peer, pending, result, asked, answering, forwarded>>
    BY DEF FailPending, AnswerInv
  <1>2. \A d \in Call \ {c} : Same(d)
    BY DEF FailPending, Offer, Same, AnswerInv, AnswerTypes
  <1>3. AnswerTypes'
    BY DEF FailPending, Offer, AnswerInv, AnswerTypes
  <1>4. /\ waiter'[c] # "empty"
        /\ waiter'[c] = waiter[c] \/ (waiter[c] = "empty" /\ waiter'[c] \notin Answer)
    BY DEF FailPending, Offer, AnswerInv, AnswerTypes, Answer
  <1>5. Taken(c)' = Taken(c) /\ Answered(c)' = Answered(c)
    BY <1>1, <1>4 DEF Answered, Taken, Answer
  <1>6. RequestRow(c)'
    BY <1>1, <1>4, <1>5 DEF RequestRow, Answer
  <1> QED BY <1>1, <1>2, <1>3, <1>6, LinksStay, RowSteps

\* Connections come and go.
LEMMA AnswerLinks ==
  ASSUME AnswerInv, AnswerTypes', LinksGoOn,
         UNCHANGED <<pc, peer, pending, waiter, result, asked, answering, forwarded>>
  PROVE  AnswerInv'
  <1>1. \A d \in Call : Same(d)
    BY DEF Same
  <1> QED BY <1>1, RowStays DEF AnswerInv

\* Every step keeps the way of each request.
LEMMA AnswerNext ==
  ASSUME GatewayInv, AnswerInv, [Next]_vars
  PROVE  AnswerInv'
  <1>1. ASSUME NEW c \in Call, CallStep(c) PROVE AnswerInv'
    BY <1>1, AnswerLookUp, AnswerSend, AnswerReturn, AnswerUnregister DEF CallStep
  <1>2. ASSUME NEW c \in Call, NEW r \in Answer, Handle(c, r) \/ HandleServes(c, r)
        PROVE  AnswerInv'
    BY <1>2, AnswerHandle, AnswerServes
  <1>3. ASSUME NEW a \in Agent, Connect(a) PROVE AnswerInv'
    <2>1. LinksGoOn /\ AnswerTypes'
      BY <1>3, GatewayAssumption DEF Connect, LinksGoOn, AnswerInv, AnswerTypes
    <2> QED BY <1>3, <2>1, AnswerLinks DEF Connect
  <1>4. ASSUME NEW a \in Agent, LinkBreaks(a) \/ Disconnect(a) \/ AgentDisconnected(a) \/ Disconnected(a)
        PROVE  AnswerInv'
    <2>1. PICK state \in {"ending", "removed", "failing", "gone"} :
            link' = [link EXCEPT ![a] = state]
      BY <1>4 DEF LinkBreaks, Disconnect, AgentDisconnected, Disconnected
    <2>2. LinksGoOn
      BY <2>1 DEF LinksGoOn, AnswerInv, AnswerTypes
    <2>3. agent' \in {agent, Nil}
      BY <1>4 DEF LinkBreaks, Disconnect, AgentDisconnected, Disconnected
    <2>4. UNCHANGED <<pc, peer, pending, waiter, result, asked, answering, forwarded>>
      BY <1>4 DEF LinkBreaks, Disconnect, AgentDisconnected, Disconnected
    <2>5. AnswerTypes'
      BY <2>2, <2>3, <2>4 DEF AnswerInv, AnswerTypes, LinksGoOn
    <2> QED BY <2>2, <2>4, <2>5, AnswerLinks
  <1>5. ASSUME NEW a \in Agent \cup {Nil}, NEW c \in Call, FailPending(a, c)
        PROVE  AnswerInv'
    BY <1>5, AnswerFails
  <1>6. CASE Close \/ CloseAll \/ UNCHANGED vars
    <2>1. LinksGoOn /\ AnswerTypes'
      BY <1>6 DEF Close, CloseAll, vars, LinksGoOn, AnswerInv, AnswerTypes
    <2>2. UNCHANGED <<pc, peer, pending, waiter, result, asked, answering, forwarded>>
      BY <1>6 DEF Close, CloseAll, vars
    <2> QED BY <2>1, <2>2, AnswerLinks
  <1> QED BY <1>1, <1>2, <1>3, <1>4, <1>5, <1>6 DEF Next

\* The inductive invariant of a request: it is with the Agent, or its answer is in
\* Handle, in the waiter, returned or forwarded, and in one of these places only.
THEOREM AnswersCorrect == Spec => []AnswerInv
  <1>1. Init => GatewayInv /\ AnswerInv
    BY InitInv, AnswerInit
  <1>2. GatewayInv /\ AnswerInv /\ [Next]_vars => (GatewayInv /\ AnswerInv)'
    BY NextInv, AnswerNext
  <1> QED BY <1>1, <1>2, PTL DEF Spec

\* Handle leaves an answer to the router only when its call has returned without an
\* answer: no waiter is robbed of its answer by a concurrent FailPending, timeout or
\* replaced connection, and no answer goes both to the caller and to the App.
THEOREM LateAnswersOnly == Spec => []OnlyLateForwarded
  <1>1. AnswerInv => OnlyLateForwarded
    BY DEF AnswerInv, AnswerTypes, RequestRow, OnlyLateForwarded
  <1> QED BY <1>1, AnswersCorrect, PTL

\* A request has at most one answer on its way to the caller, and a call that
\* returned an answer returned the one its waiter was given.
THEOREM AnsweredOnce == Spec => []OneAnswer
  <1>1. AnswerInv => OneAnswer
    <2>1. ASSUME AnswerInv, NEW c \in Call, Taken(c) PROVE c \notin asked
      BY <2>1 DEF AnswerInv, RequestRow, Answered
    <2> QED BY <2>1 DEF AnswerInv, RequestRow, OneAnswer
  <1> QED BY <1>1, AnswersCorrect, PTL

\* While its connection is up a waiting call waits for something: the Agent has the
\* request, or Handle has the answer, or the waiter has been served.
THEOREM WaitingIsServed == Spec => []WaitsForSomething
  <1>1. AnswerInv => WaitsForSomething
    BY DEF AnswerInv, RequestRow, WaitsForSomething
  <1> QED BY <1>1, AnswersCorrect, PTL
=============================================================================
