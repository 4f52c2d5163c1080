------------------------------- MODULE Gateway ------------------------------
(***************************************************************************)
(* The request gateways of the Run Server: SourceGateway and               *)
(* ExecutionProfileGateway.  An HTTP call is sent to the connected Agent   *)
(* under a fresh trace id, its waiter kept in a bounded map until the      *)
(* Agent's answer, the Agent's disconnection or the 8 s timeout ends it.   *)
(* The two gateways differ in what they do with an answer nobody waits for *)
(* any more: source answers are consumed, profile answers are left to the  *)
(* router, which forwards them to the App.                                 *)
(***************************************************************************)
EXTENDS Integers, FiniteSets

CONSTANTS
  Call,          \* calls, one trace id each
  Agent,         \* Agent connections
  MaxPending,    \* 16 in the code
  Nil

ASSUME GatewayAssumption ==
  /\ MaxPending \in Nat \ {0}
  /\ Nil \notin Agent

VARIABLES
  kind,        \* the gateway: "source" or "profiles"
  closing,     \* the shutdown: "no", "emptied" (the registry) or "closed"
  agent,       \* Registry.agent
  link,        \* by Agent connection: "new", "up", "ending" (closed, its read
               \* loop still running), "removed", "failing" or "gone"
  pc,          \* by call, where it is
  peer,        \* by call, the connection it uses
  pending,     \* calls with an entry in the pending map
  waiter,      \* by call, what its channel of capacity one holds
  result,      \* by call, what it returned
  asked,       \* requests an Agent has in its queue or works on
  answering,   \* answers whose waiter Handle has looked up
  failing,     \* waiters FailPending has collected and not yet served, by the
               \* connection whose end it reports, Nil for the shutdown
  forwarded    \* answers handed on to the App

vars == <<kind, closing, agent, link, pc, peer, pending, waiter, result, asked, answering,
          failing, forwarded>>

\* What the Agent answers; "failed" is source.read.failed, or an answer of
\* either gateway whose payload does not decode.
Answer == {"snapshot", "failed"}

Init ==
  /\ kind \in {"source", "profiles"}
  /\ closing = "no"
  /\ agent = Nil
  /\ link = [a \in Agent |-> "new"]
  /\ pc = [c \in Call |-> "new"]
  /\ peer = [c \in Call |-> Nil]
  /\ pending = {}
  /\ waiter = [c \in Call |-> "empty"]
  /\ result = [c \in Call |-> "none"]
  /\ asked = {}
  /\ answering = {}
  /\ failing = {}
  /\ forwarded = {}

Return(c, r) ==
  /\ result' = [result EXCEPT ![c] = r]
  /\ pc' = [pc EXCEPT ![c] = "returning"]

\* The waiter's channel takes the first value and drops the others.
Offer(w, c, r) == [w EXCEPT ![c] = IF @ = "empty" THEN r ELSE @]

-----------------------------------------------------------------------------
\* Read and List: the connection is looked up first.
LookUp(c) ==
  /\ pc[c] = "new"
  /\ peer' = [peer EXCEPT ![c] = agent]
  /\ IF agent = Nil
     THEN Return(c, "offline")
     ELSE pc' = [pc EXCEPT ![c] = "register"] /\ UNCHANGED result
  /\ UNCHANGED <<kind, closing, agent, link, pending, waiter, asked, answering, failing, forwarded>>

\* Altered for mutation testing: off by one.
FullOneMore == Cardinality(pending) > MaxPending

Full == Cardinality(pending) >= MaxPending

Register(c) ==
  /\ pc[c] = "register"
  /\ IF Full
     THEN Return(c, "busy") /\ UNCHANGED pending
     ELSE /\ pending' = pending \cup {c}
          /\ pc' = [pc EXCEPT ![c] = "send"]
          /\ UNCHANGED result
  /\ UNCHANGED <<kind, closing, agent, link, peer, waiter, asked, answering, failing, forwarded>>

\* Send fails on a full queue or a closed connection; on a closed one it may
\* also succeed, and the request is lost.
Send(c) ==
  /\ pc[c] = "send"
  /\ \/ /\ pc' = [pc EXCEPT ![c] = "wait"]
        /\ asked' = IF link[peer[c]] = "up" THEN asked \cup {c} ELSE asked
        /\ UNCHANGED result
     \/ Return(c, "unavailable") /\ UNCHANGED asked
  /\ UNCHANGED <<kind, closing, agent, link, peer, pending, waiter, answering, failing, forwarded>>

Receive(c) ==
  /\ pc[c] = "wait"
  /\ waiter[c] # "empty"
  /\ Return(c, waiter[c])
  /\ UNCHANGED <<kind, closing, agent, link, peer, pending, waiter, asked, answering, failing, forwarded>>

\* Altered for mutation testing: a cancelled call waits on.
TimeoutIgnored(c) ==
  /\ pc[c] = "wait"
  /\ UNCHANGED vars

\* The 8 s of the HTTP handler are over, or its client has gone.
Timeout(c) ==
  /\ pc[c] = "wait"
  /\ Return(c, "timeout")
  /\ UNCHANGED <<kind, closing, agent, link, peer, pending, waiter, asked, answering, failing, forwarded>>

\* Altered for mutation testing: only an answered call gives its entry back.
UnregisterAnswered(c) ==
  /\ pc[c] = "returning"
  /\ pending' = IF result[c] \in Answer THEN pending \ {c} ELSE pending
  /\ pc' = [pc EXCEPT ![c] = "done"]
  /\ UNCHANGED <<kind, closing, agent, link, peer, waiter, result, asked, answering, failing, forwarded>>

\* The deferred delete runs on every way out.
Unregister(c) ==
  /\ pc[c] = "returning"
  /\ pending' = pending \ {c}
  /\ pc' = [pc EXCEPT ![c] = "done"]
  /\ UNCHANGED <<kind, closing, agent, link, peer, waiter, result, asked, answering, failing, forwarded>>

-----------------------------------------------------------------------------
\* The connection's goroutine is inside Handle.
Handling(a) == \E x \in answering : peer[x[1]] = a

\* The Agent answers a request it received, over the connection it came by;
\* Handle looks the waiter up under the lock and serves it afterwards.  An
\* answer read before the connection was closed is still handled.
Handle(c, r) ==
  /\ c \in asked
  /\ link[peer[c]] \in {"up", "ending"}
  /\ ~ Handling(peer[c])
  /\ asked' = asked \ {c}
  /\ IF c \in pending
     THEN answering' = answering \cup {<<c, r>>} /\ UNCHANGED forwarded
     ELSE /\ forwarded' = IF kind = "profiles" THEN forwarded \cup {c} ELSE forwarded
          /\ UNCHANGED answering
  /\ UNCHANGED <<kind, closing, agent, link, pc, peer, pending, waiter, result, failing>>
HandleServes(c, r) ==
  /\ <<c, r>> \in answering
  /\ answering' = answering \ {<<c, r>>}
  /\ waiter' = Offer(waiter, c, r)
  /\ UNCHANGED <<kind, closing, agent, link, pc, peer, pending, result, asked, failing, forwarded>>

\* A new Agent connection takes the place of the registered one, which is
\* closed.
Connect(a) ==
  /\ link[a] = "new"
  /\ agent' = a
  /\ link' = [b \in Agent |-> IF b = a THEN "up"
                              ELSE IF b = agent /\ link[b] = "up" THEN "ending"
                              ELSE link[b]]
  /\ UNCHANGED <<kind, closing, pc, peer, pending, waiter, result, asked, answering, failing, forwarded>>

LinkBreaks(a) ==
  /\ link[a] = "up"
  /\ link' = [link EXCEPT ![a] = "ending"]
  /\ UNCHANGED <<kind, closing, agent, pc, peer, pending, waiter, result, asked, answering, failing, forwarded>>

\* Disconnect: the observer is told only when the connection was the
\* registered one.
Disconnect(a) ==
  /\ link[a] = "ending"
  /\ ~ Handling(a)
  /\ link' = [link EXCEPT ![a] = IF agent = a THEN "removed" ELSE "gone"]
  /\ agent' = IF agent = a THEN Nil ELSE agent
  /\ UNCHANGED <<kind, closing, pc, peer, pending, waiter, result, asked, answering, failing, forwarded>>

\* AgentDisconnected: FailPending collects every waiter under the lock, also
\* those of calls a new connection is already serving, and then serves them.
AgentDisconnected(a) ==
  /\ link[a] = "removed"
  /\ link' = [link EXCEPT ![a] = "failing"]
  /\ failing' = failing \cup {<<a, c>> : c \in pending}
  /\ UNCHANGED <<kind, closing, agent, pc, peer, pending, waiter, result, asked, answering, forwarded>>
FailPending(a, c) ==
  /\ <<a, c>> \in failing
  /\ failing' = failing \ {<<a, c>>}
  /\ waiter' = Offer(waiter, c, IF a = Nil THEN "unavailable" ELSE "offline")
  /\ UNCHANGED <<kind, closing, agent, link, pc, peer, pending, result, asked, answering, forwarded>>
Disconnected(a) ==
  /\ link[a] = "failing"
  /\ ~ \E c \in Call : <<a, c>> \in failing
  /\ link' = [link EXCEPT ![a] = "gone"]
  /\ UNCHANGED <<kind, closing, agent, pc, peer, pending, waiter, result, asked, answering, failing, forwarded>>

\* CloseConnections: CloseAll empties the registry, so that the Disconnect of
\* the connection it closes tells nobody; then Coordinator.Close fails what is
\* pending.  Calls and Agents may still come.
CloseAll ==
  /\ closing = "no"
  /\ closing' = "emptied"
  /\ agent' = Nil
  /\ link' = [a \in Agent |-> IF a = agent /\ link[a] = "up" THEN "ending" ELSE link[a]]
  /\ UNCHANGED <<kind, pc, peer, pending, waiter, result, asked, answering, failing, forwarded>>
Close ==
  /\ closing = "emptied"
  /\ closing' = "closed"
  /\ failing' = failing \cup {<<Nil, c>> : c \in pending}
  /\ UNCHANGED <<kind, agent, link, pc, peer, pending, waiter, result, asked, answering, forwarded>>

CallStep(c) ==
  \/ LookUp(c)
  \/ Register(c)
  \/ Send(c)
  \/ Receive(c)
  \/ Timeout(c)
  \/ Unregister(c)

Next ==
  \/ \E c \in Call : CallStep(c)
  \/ \E c \in Call, r \in Answer : Handle(c, r)
  \/ \E c \in Call, r \in Answer : HandleServes(c, r)
  \/ \E a \in Agent : Connect(a)
  \/ \E a \in Agent : LinkBreaks(a)
  \/ \E a \in Agent : Disconnect(a)
  \/ \E a \in Agent : AgentDisconnected(a)
  \/ \E a \in Agent \cup {Nil}, c \in Call : FailPending(a, c)
  \/ \E a \in Agent : Disconnected(a)
  \/ Close
  \/ CloseAll

Spec == Init /\ [][Next]_vars

\* A call that has begun runs, and its timer fires.
FairSpec == Spec /\ \A c \in Call : WF_vars(pc[c] # "new" /\ CallStep(c))

-----------------------------------------------------------------------------
\* The pending map never exceeds its limit, however the calls interleave: the
\* count is taken and the entry made under one lock.
PendingBounded == Cardinality(pending) <= MaxPending

\* Every entry belongs to a call that is still there: errors, timeouts, lost
\* Agents and answers that come too late leave nothing behind that would eat
\* up the limit.
NothingLeaks == \A c \in pending : pc[c] \in {"send", "wait", "returning"}

\* Every call that has begun ends, also one whose request or whose
\* connection was lost.
CallsEnd == \A c \in Call : (pc[c] = "register") ~> (pc[c] = "done")
=============================================================================
