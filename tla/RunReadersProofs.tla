-------------------------- MODULE RunReadersProofs --------------------------
(***************************************************************************)
(* The readers of a log, for every length of the log, page limit, number   *)
(* of requests and of reconnections.  A client of a long poll applies      *)
(* every event once and in order, and an answer that says the run is over  *)
(* and has no more leaves nothing behind.  A client of a stream receives   *)
(* every event once and in order, whichever source it was read from, and   *)
(* is at most one event ahead of what the Agent holds an ack for.          *)
(***************************************************************************)
EXTENDS RunReaders, WellFoundedInduction, TLAPS

\* s holds the k numbers that follow n.
Follows(s, n, k) ==
  s \in Seq(Nat) /\ Len(s) = k /\ \A i \in 1 .. k : s[i] = n + i

\* The coordinator's part: an event is stored when its handling has got that
\* far, and at most Last events are.
IngestInv ==
  /\ acked \in 0 .. Last
  /\ stored \in acked .. Last
  /\ phase # "idle" => acked < Last
  /\ phase \in {"stored", "versioned", "notified"} => acked < stored

HandlerRow ==
  [pc : {"idle", "status", "page", "version", "subscribe", "recheck", "listen",
         "timer", "answer"},
   after : Nat, wait : BOOLEAN, late : BOOLEAN, terminal : BOOLEAN,
   page : Seq(Nat), more : BOOLEAN, before : Int, woken : BOOLEAN]

\* The client's part: what it has applied are the events up to its cursor.
ClientInv ==
  /\ cursor \in 0 .. stored
  /\ Follows(applied, 0, cursor)

\* The handler's part: the request asks for what follows the cursor, a run
\* once read as terminal has all its events stored, and an answer holds the
\* next stored events, all that are left when it says there are no more.
HandlerInv ==
  /\ handler \in HandlerRow
  /\ version \in Int
  /\ handler.pc # "idle" => handler.after = cursor
  /\ handler.pc # "idle" /\ handler.terminal => stored = Last
  /\ handler.pc = "answer" =>
       \E k \in 0 .. stored - cursor :
         /\ Follows(handler.page, cursor, k)
         /\ handler.terminal /\ ~ handler.more => cursor + k = Last

PollInv == IngestInv /\ ClientInv /\ HandlerInv

\* The page read at a cursor: the next events, at most Limit, and all that are
\* stored when the query found no further row.
LEMMA PageIsNext ==
  ASSUME stored \in Nat, NEW after \in 0 .. stored
  PROVE  \E k \in 0 .. stored - after :
           /\ Follows(Page(after).events, after, k)
           /\ ~ Page(after).more => after + k = stored
  <1> DEFINE len == stored - after
             rows == [i \in 1 .. len |-> after + i]
             k == IF len < Limit THEN len ELSE Limit
  <1>1. len \in Nat /\ Limit \in Nat \ {0} /\ k \in 0 .. len
    BY PollAssumption
  <1>2. Rows(after) = rows
    BY DEF Rows
  <1>3. rows \in Seq(Nat) /\ Len(rows) = len /\ \A i \in 1 .. len : rows[i] = after + i
    BY <1>1
  <1>4. Page(after).events = SubSeq(rows, 1, k) /\ (Page(after).more <=> len > Limit)
    BY <1>2, <1>3, Zenon DEF Page, FirstPage
  <1> HIDE DEF rows, len
  <1>5. Follows(SubSeq(rows, 1, k), after, k)
    BY <1>1, <1>3 DEF Follows
  <1>6. ~ Page(after).more => k = len
    BY <1>1, <1>4
  <1>7. len = stored - after
    BY DEF len
  <1> HIDE DEF k
  <1> QED BY <1>1, <1>4, <1>5, <1>6, <1>7

\* The second part of a concatenation.
LEMMA ConcatElement ==
  ASSUME NEW s \in Seq(Nat), NEW t \in Seq(Nat), NEW i \in 1 .. Len(s) + Len(t), ~ i <= Len(s)
  PROVE  (s \o t)[i] = t[i - Len(s)]
  OBVIOUS

\* What follows the end of a stretch of numbers continues it.
LEMMA Continues ==
  ASSUME NEW s, NEW t, NEW m \in Nat, NEW n \in Nat, NEW k \in Nat,
         Follows(s, m, n), Follows(t, m + n, k)
  PROVE  Follows(s \o t, m, n + k)
  <1>1. s \in Seq(Nat) /\ t \in Seq(Nat) /\ Len(s) = n /\ Len(t) = k
    BY DEF Follows
  <1>2. s \o t \in Seq(Nat) /\ Len(s \o t) = n + k
    BY <1>1
  <1>3. ASSUME NEW i \in 1 .. n + k
        PROVE  (s \o t)[i] = m + i
    <2>1. CASE i <= n
      <3>1. (s \o t)[i] = s[i] /\ i \in 1 .. n
        BY <1>1, <2>1
      <3> QED BY <3>1 DEF Follows
    <2>2. CASE i > n
      <3>1. (s \o t)[i] = t[i - n] /\ i - n \in 1 .. k
        <4>1. i - n \in 1 .. k /\ i \in 1 .. Len(s) + Len(t) /\ ~ i <= Len(s)
          BY <1>1, <2>2
        <4>2. (s \o t)[i] = t[i - Len(s)]
          BY <1>1, <4>1, ConcatElement, Zenon
        <4> QED BY <1>1, <4>1, <4>2
      <3>2. t[i - n] = (m + n) + (i - n)
        BY <3>1 DEF Follows
      <3>3. (m + n) + (i - n) = m + i
        OBVIOUS
      <3> QED BY <3>1, <3>2, <3>3, Zenon
    <2>3. i <= n \/ i > n
      OBVIOUS
    <2> QED BY <2>1, <2>2, <2>3, Zenon
  <1> QED BY <1>2, <1>3 DEF Follows

-----------------------------------------------------------------------------
\* PollInv holds at the start.
LEMMA PollInit == Init => PollInv
  <1> SUFFICES ASSUME Init PROVE PollInv
    OBVIOUS
  <1>1. IngestInv
    BY IngestAssumption DEF Init, IngestInit, IngestInv
  <1>2. ClientInv
    BY DEF Init, IngestInit, ClientInv, Follows
  <1>3. HandlerInv
    BY DEF Init, IngestInit, HandlerInv, Idle, HandlerRow
  <1> QED BY <1>1, <1>2, <1>3 DEF PollInv

\* The coordinator stores events in order and never more than Last.
LEMMA IngestStep ==
  ASSUME IngestInv, Ingest \/ Publish
  PROVE  IngestInv' /\ stored <= stored' /\ stored' \in Nat
  <1>1. CASE AppendRunEvent
    BY <1>1, IngestAssumption DEF IngestInv, AppendRunEvent
  <1>2. CASE AppendAgentEvent
    BY <1>2, IngestAssumption DEF IngestInv, AppendAgentEvent
  <1>3. CASE SetVersion
    BY <1>3, IngestAssumption DEF IngestInv, SetVersion
  <1>4. CASE Acknowledge
    BY <1>4, IngestAssumption DEF IngestInv, Acknowledge
  <1>5. CASE Abandon \/ LoseRedisData \/ Publish
    BY <1>5, IngestAssumption DEF IngestInv, Abandon, LoseRedisData, Publish
  <1> QED BY <1>1, <1>2, <1>3, <1>4, <1>5 DEF Ingest

\* What the client and the handler rely on survives as more is stored.
LEMMA MoreStored ==
  ASSUME PollInv, IngestInv', stored <= stored', cursor' = cursor, applied' = applied,
         version' \in Int,
         handler' \in {handler, [handler EXCEPT !.woken = TRUE]}
  PROVE  ClientInv' /\ HandlerInv'
  <1>1. /\ stored \in Nat /\ stored' \in Nat /\ stored' <= Last /\ cursor \in 0 .. stored
        /\ Last \in Nat
    BY IngestAssumption DEF PollInv, IngestInv, ClientInv
  <1>2. ClientInv'
    BY <1>1 DEF PollInv, ClientInv
  <1>3. /\ handler' \in HandlerRow /\ handler'.pc = handler.pc /\ handler'.after = handler.after
        /\ handler'.terminal = handler.terminal /\ handler'.more = handler.more
        /\ handler'.page = handler.page
    BY Zenon DEF PollInv, HandlerInv, HandlerRow
  <1>4. HandlerInv'
    <2>1. handler.pc # "idle" /\ handler.terminal => stored' = Last
      BY <1>1 DEF PollInv, HandlerInv
    <2>2. 0 .. stored - cursor \subseteq 0 .. stored' - cursor
      BY <1>1
    <2> QED BY <1>3, <2>1, <2>2 DEF PollInv, HandlerInv
  <1> QED BY <1>2, <1>4

\* A step of the handler that only waits, reads a version or fails.
LEMMA WaitingStep ==
  ASSUME PollInv,
         \/ ReadVersion \/ Subscribe \/ RecheckVersion \/ Woken \/ FallBackToTimer
         \/ TimerFires \/ DeadlinePasses \/ RequestFails
         \/ \E wait \in BOOLEAN : Request(wait)
  PROVE  PollInv'
  <1>1. UNCHANGED <<acked, phase, stored, version, cursor, applied>>
    BY Zenon DEF ReadVersion, Subscribe, RecheckVersion, Woken, FallBackToTimer, TimerFires,
       DeadlinePasses, RequestFails, Request, HandlerOnly, ingestVars
  <1>2. IngestInv' /\ ClientInv'
    BY <1>1 DEF PollInv, IngestInv, ClientInv
  <1>3. handler \in HandlerRow /\ version \in Int /\ cursor \in Nat
    BY IngestAssumption DEF PollInv, HandlerInv, ClientInv, IngestInv
  <1>4. CASE ReadVersion \/ Subscribe \/ RecheckVersion \/ Woken \/ FallBackToTimer
             \/ TimerFires \/ DeadlinePasses
    <2>1. /\ handler' \in HandlerRow /\ handler.pc # "idle"
          /\ handler'.after = handler.after /\ handler'.terminal = handler.terminal
          /\ handler'.page = handler.page /\ handler'.more = handler.more
          /\ handler'.pc = "answer" => handler.pc = "answer"
      <3>1. CASE ReadVersion
        <4>1. PICK b \in {version, 0} : handler' =
                [handler EXCEPT !.pc = "subscribe", !.before = b, !.woken = FALSE]
          BY <3>1, Zenon DEF ReadVersion
        <4>2. ASSUME NEW h \in HandlerRow, NEW x \in Int
              PROVE  LET g == [h EXCEPT !.pc = "subscribe", !.before = x, !.woken = FALSE]
                     IN  /\ g \in HandlerRow /\ g.pc = "subscribe"
                         /\ g.after = h.after /\ g.terminal = h.terminal
                         /\ g.page = h.page /\ g.more = h.more
          BY Zenon DEF HandlerRow
        <4>3. b \in Int
          BY <1>3
        <4>4. handler.pc = "version"
          BY <3>1 DEF ReadVersion, At
        <4> QED BY <1>3, <4>1, <4>2, <4>3, <4>4, Zenon
      <3>2. CASE Subscribe \/ RecheckVersion \/ Woken \/ FallBackToTimer \/ TimerFires
        BY <1>3, <3>2, Zenon DEF Subscribe, RecheckVersion, Woken, FallBackToTimer, TimerFires,
           At, Goto, HandlerRow
      <3>3. CASE DeadlinePasses
        BY <1>3, <3>3, Zenon DEF DeadlinePasses, HandlerRow
      <3> QED BY <1>4, <3>1, <3>2, <3>3
    <2> QED BY <1>1, <1>2, <2>1 DEF PollInv, HandlerInv
  <1>5. CASE RequestFails
    <2>1. handler' = Idle /\ Idle \in HandlerRow /\ Idle.pc = "idle"
      BY <1>5 DEF RequestFails, Idle, HandlerRow
    <2> QED BY <1>1, <1>2, <1>3, <2>1 DEF PollInv, HandlerInv
  <1>6. ASSUME NEW wait \in BOOLEAN, Request(wait)
        PROVE  PollInv'
    <2>1. /\ handler' \in HandlerRow /\ handler'.pc = "status"
          /\ handler'.after = cursor /\ handler'.terminal = FALSE
      <3>1. handler' = [pc |-> "status", after |-> cursor, wait |-> wait, late |-> FALSE,
               terminal |-> FALSE, page |-> <<>>, more |-> FALSE, before |-> 0,
               woken |-> FALSE]
        BY <1>6, Zenon DEF Request, Idle
      <3> QED BY <1>3, <3>1 DEF HandlerRow
    <2> QED BY <1>1, <1>2, <1>3, <2>1 DEF PollInv, HandlerInv
  <1> QED BY <1>4, <1>5, <1>6

\* Reading the status before the page: a terminal run has all its events stored.
LEMMA StatusStep ==
  ASSUME PollInv, GetStatus
  PROVE  PollInv'
  <1>1. UNCHANGED <<acked, phase, stored, version, cursor, applied>>
    BY DEF GetStatus, HandlerOnly, ingestVars
  <1>2. IngestInv' /\ ClientInv'
    BY <1>1 DEF PollInv, IngestInv, ClientInv
  <1>3. handler \in HandlerRow /\ version \in Int /\ handler.pc = "status"
    BY DEF PollInv, HandlerInv, GetStatus, At
  <1>4. PICK b \in BOOLEAN : /\ b => stored = Last
                             /\ handler' = [handler EXCEPT !.pc = "page", !.terminal = b]
    BY DEF GetStatus, isTerminal
  <1>5. ASSUME NEW h \in HandlerRow, NEW x \in BOOLEAN
        PROVE  LET g == [h EXCEPT !.pc = "page", !.terminal = x]
               IN  g \in HandlerRow /\ g.pc = "page" /\ g.after = h.after /\ g.terminal = x
    BY Zenon DEF HandlerRow
  <1>6. /\ handler' \in HandlerRow /\ handler'.pc = "page"
        /\ handler'.after = handler.after /\ handler'.terminal = b
    BY <1>3, <1>4, <1>5, Zenon
  <1>7. handler.after = cursor
    BY <1>3 DEF PollInv, HandlerInv
  <1> QED BY <1>1, <1>2, <1>3, <1>4, <1>6, <1>7 DEF PollInv, HandlerInv

\* Reading the page.
LEMMA PageStep ==
  ASSUME PollInv, ListEventsPage
  PROVE  PollInv'
  <1>1. UNCHANGED <<acked, phase, stored, version, cursor, applied>>
    BY DEF ListEventsPage, HandlerOnly, ingestVars
  <1>2. IngestInv' /\ ClientInv'
    BY <1>1 DEF PollInv, IngestInv, ClientInv
  <1>3. /\ handler \in HandlerRow /\ version \in Int /\ handler.pc = "page"
        /\ handler.after = cursor /\ cursor \in 0 .. stored /\ stored \in Nat
        /\ handler.terminal => stored = Last
    BY IngestAssumption DEF PollInv, HandlerInv, ClientInv, IngestInv, ListEventsPage, At
  <1> DEFINE p == Page(cursor)
             Paged(h, y, s, b) == [h EXCEPT !.pc = y, !.page = s, !.more = b]
  <1>4. PICK k \in 0 .. stored - cursor :
          Follows(p.events, cursor, k) /\ (~ p.more => cursor + k = stored)
    BY <1>3, PageIsNext
  <1>5. p.events \in Seq(Nat) /\ p.more \in BOOLEAN
    BY <1>4 DEF Follows, Page
  <1>6. PICK x \in {"answer", "version"} :
          handler' = Paged(handler, x, p.events, p.more)
    BY <1>3, Zenon DEF ListEventsPage
  <1> HIDE DEF p
  <1>7. ASSUME NEW h \in HandlerRow, NEW y \in {"answer", "version"},
               NEW s \in Seq(Nat), NEW b \in BOOLEAN
        PROVE  LET g == Paged(h, y, s, b)
               IN  /\ g \in HandlerRow /\ g.pc = y /\ g.page = s /\ g.more = b
                   /\ g.after = h.after /\ g.terminal = h.terminal
    BY Zenon DEF HandlerRow
  <1> HIDE DEF Paged
  <1>8. /\ handler' \in HandlerRow /\ handler'.pc = x
        /\ handler'.page = p.events /\ handler'.more = p.more
        /\ handler'.after = handler.after /\ handler'.terminal = handler.terminal
    BY <1>3, <1>5, <1>6, <1>7
  <1>9. handler'.terminal /\ ~ handler'.more => cursor + k = Last
    BY <1>3, <1>4, <1>8
  <1> QED BY <1>1, <1>2, <1>3, <1>4, <1>8, <1>9 DEF PollInv, HandlerInv

\* The next cursor is the number of the last event of the answer.
LEMMA CursorOfAnswer ==
  ASSUME handler.after = cursor, cursor \in Nat,
         NEW k \in Nat, Follows(handler.page, cursor, k)
  PROVE  NextCursor = cursor + k
  <1>1. CASE k = 0
    <2>1. handler.page = <<>>
      BY <1>1 DEF Follows
    <2> QED BY <1>1, <2>1 DEF NextCursor
  <1>2. CASE k # 0
    <2>1. handler.page # <<>> /\ Len(handler.page) = k /\ k \in 1 .. k
      BY <1>2 DEF Follows
    <2>2. handler.page[k] = cursor + k
      BY <2>1 DEF Follows
    <2> QED BY <2>1, <2>2 DEF NextCursor
  <1> QED BY <1>1, <1>2

\* The client applies the answer.
LEMMA ReceiveStep ==
  ASSUME PollInv, Receive
  PROVE  PollInv'
  <1>1. UNCHANGED <<acked, phase, stored, version>> /\ handler' = Idle
    BY DEF Receive, ingestVars
  <1>2. IngestInv'
    BY <1>1 DEF PollInv, IngestInv
  <1>3. handler.after = cursor /\ cursor \in 0 .. stored /\ stored \in Nat
    BY IngestAssumption DEF PollInv, HandlerInv, ClientInv, IngestInv, Receive, At
  <1>4. PICK k \in 0 .. stored - cursor : Follows(handler.page, cursor, k)
    BY DEF PollInv, HandlerInv, Receive, At
  <1>5. cursor' = cursor + k /\ applied' = applied \o handler.page
    BY <1>3, <1>4, CursorOfAnswer DEF Receive
  <1>6. Follows(applied', 0, cursor + k)
    <2>1. Follows(applied, 0, cursor) /\ cursor \in Nat /\ k \in Nat /\ 0 + cursor = cursor
      BY <1>3 DEF PollInv, ClientInv
    <2>2. Follows(handler.page, 0 + cursor, k)
      BY <1>4, <2>1
    <2> QED BY <1>5, <2>1, <2>2, Continues
  <1>7. ClientInv'
    BY <1>1, <1>3, <1>5, <1>6 DEF ClientInv
  <1>8. HandlerInv'
    <2>1. Idle \in HandlerRow /\ Idle.pc = "idle"
      BY DEF Idle, HandlerRow
    <2>2. version \in Int
      BY DEF PollInv, HandlerInv
    <2> QED BY <1>1, <2>1, <2>2 DEF HandlerInv
  <1> QED BY <1>2, <1>7, <1>8 DEF PollInv

\* PollInv is kept by every step.
LEMMA PollStep == PollInv /\ [Next]_vars => PollInv'
  <1> SUFFICES ASSUME PollInv, [Next]_vars PROVE PollInv'
    OBVIOUS
  <1>1. CASE Ingest \/ Publish
    <2>1. IngestInv' /\ stored <= stored'
      BY <1>1, IngestStep DEF PollInv
    <2>2. cursor' = cursor /\ applied' = applied
      BY <1>1 DEF Ingest, Publish, pollVars
    <2>3. version' \in Int
      BY <1>1 DEF PollInv, HandlerInv, Ingest, Publish, AppendRunEvent, AppendAgentEvent,
         SetVersion, Acknowledge, Abandon, LoseRedisData
    <2>4. handler' \in {handler, [handler EXCEPT !.woken = TRUE]}
      <3>1. CASE Ingest
        BY <3>1 DEF Ingest, pollVars
      <3>2. CASE Publish
        <4>1. handler \in HandlerRow
          BY DEF PollInv, HandlerInv
        <4>2. ASSUME NEW h \in HandlerRow, NEW b \in BOOLEAN
              PROVE  [h EXCEPT !.woken = @ \/ b] \in {h, [h EXCEPT !.woken = TRUE]}
          BY Zenon DEF HandlerRow
        <4> QED BY <3>2, <4>1, <4>2, Zenon DEF Publish
      <3> QED BY <1>1, <3>1, <3>2
    <2> QED BY <2>1, <2>2, <2>3, <2>4, MoreStored DEF PollInv
  <1>2. CASE UNCHANGED vars
    BY <1>2 DEF PollInv, IngestInv, ClientInv, HandlerInv, vars, ingestVars, pollVars
  <1> QED BY <1>1, <1>2, WaitingStep, StatusStep, PageStep, ReceiveStep DEF Next

-----------------------------------------------------------------------------
(* The streams.                                                            *)

\* The stream's part: the client has received the first events, and what is
\* written and not received are the next ones, up to the handler's cursor.
StreamInv ==
  /\ Follows(received, 0, Len(received))
  /\ position \in Nat
  /\ connected =>
       /\ Len(received) <= position
       /\ Follows(written, Len(received), position - Len(received))
  /\ ~ connected => written = <<>> /\ ~ reading

\* A set of numbers has a least one.
LEMMA LeastNumber ==
  ASSUME NEW T, T \subseteq Nat, T # {}
  PROVE  \E n \in T : \A m \in T : n <= m
  <1> DEFINE R == {pair \in Nat \X Nat : pair[1] < pair[2]}
  <1>1. IsWellFoundedOn(R, Nat)
    BY NatLessThanWellFounded, Zenon DEF OpToRel
  <1>2. PICK n \in T : \A m \in T : ~ (<<m, n>> \in R)
    <2> HIDE DEF R
    <2> QED BY <1>1, WFMin, Zenon
  <1>3. ASSUME NEW m \in T PROVE n <= m
    <2>1. <<m, n>> \notin R
      BY <1>2
    <2> QED BY <2>1
  <1> QED BY <1>3

\* The loop over what is known collects the numbers that follow the cursor.
LEMMA ContinuationFollows ==
  ASSUME NEW known, position \in Nat
  PROVE  \E k \in Nat : Follows(Stream!Continuation(known), position, k)
  <1> DEFINE D == {i \in 1 .. Last : \A k \in 1 .. i : position + k \in known}
             T == {n \in Nat : n + 1 \notin D}
  <1>1. T \subseteq Nat /\ Last \in T /\ Last \in Nat
    BY IngestAssumption
  <1>2. PICK n \in T : \A m \in T : n <= m
    <2> HIDE DEF T
    <2> QED BY <1>1, LeastNumber, Zenon
  <1>3. n \in Nat /\ n + 1 \notin D
    OBVIOUS
  <1>4. ASSUME NEW i \in 1 .. n PROVE i \in D
    <2>1. i - 1 \in Nat /\ i - 1 < n /\ (i - 1) + 1 = i
      BY <1>3
    <2>2. i - 1 \notin T
      <3> HIDE DEF T
      <3> QED BY <1>2, <1>3, <2>1
    <2> QED BY <2>1, <2>2
  <1>5. ASSUME NEW i \in D PROVE i \in 1 .. n
    <2>1. i \in 1 .. Last /\ \A k \in 1 .. i : position + k \in known
      OBVIOUS
    <2>2. SUFFICES ASSUME i > n PROVE FALSE
      BY <1>3, <2>1
    <2>3. n + 1 \in 1 .. Last /\ 1 .. n + 1 \subseteq 1 .. i
      BY <1>1, <1>3, <2>1, <2>2
    <2>4. n + 1 \in D
      BY <2>1, <2>3
    <2> QED BY <1>3, <2>4
  <1>6. D = 1 .. n
    <2> HIDE DEF D
    <2> QED BY <1>4, <1>5, Zenon
  <1>7. Stream!Continuation(known) = [i \in D |-> position + i]
    BY DEF Stream!Continuation
  <1>8. Stream!Continuation(known) = [i \in 1 .. n |-> position + i]
    <2> HIDE DEF D
    <2> QED BY <1>6, <1>7
  <1>9. Follows([i \in 1 .. n |-> position + i], position, n)
    BY <1>3 DEF Follows
  <1> QED BY <1>3, <1>8, <1>9

\* A tick moves the cursor to the last of the numbers it writes.
LEMMA WriteMoves ==
  ASSUME position \in Nat, NEW events, NEW k \in Nat, Follows(events, position, k),
         Stream!Write(events)
  PROVE  position' = position + k
  <1>1. CASE k = 0
    <2>1. events = <<>>
      BY <1>1 DEF Follows
    <2> QED BY <1>1, <2>1 DEF Stream!Write
  <1>2. CASE k # 0
    <2>1. Len(events) = k /\ events # <<>> /\ k \in 1 .. k
      BY <1>2 DEF Follows
    <2>2. events[k] = position + k
      BY <2>1 DEF Follows
    <2> QED BY <2>1, <2>2 DEF Stream!Write
  <1> QED BY <1>1, <1>2

\* What is written are the next numbers.
LEMMA WriteStep ==
  ASSUME StreamInv, connected, connected' = connected, received' = received,
         NEW events, NEW k \in Nat, Follows(events, position, k), Stream!Write(events)
  PROVE  StreamInv'
  <1> DEFINE n == Len(received)
             m == position - n
  <1>1. n \in Nat /\ m \in Nat /\ position = n + m /\ Follows(written, n, m)
    BY DEF StreamInv, Follows
  <1>2. position' = position + k
    BY WriteMoves DEF StreamInv
  <1> HIDE DEF n, m
  <1>3. Follows(written', n, m + k)
    <2>1. Follows(events, n + m, k)
      BY <1>1
    <2> QED BY <1>1, <2>1, Continues DEF Stream!Write
  <1>4. position' - n = m + k /\ n <= position' /\ position' \in Nat
    BY <1>1, <1>2
  <1>5. Len(received') = n
    BY DEF n
  <1>6. Follows(received', 0, Len(received'))
    BY DEF StreamInv
  <1> QED BY <1>3, <1>4, <1>5, <1>6 DEF StreamInv

\* The client reads the next event.
LEMMA StreamReceive ==
  ASSUME StreamInv, Stream!Receive
  PROVE  StreamInv'
  <1> DEFINE n == Len(received)
             k == position - n
  <1>1. connected /\ connected' = connected /\ position' = position
    BY DEF StreamInv, Stream!Receive
  <1>2. /\ n \in Nat /\ k \in Nat /\ position \in Nat /\ received \in Seq(Nat)
        /\ \A i \in 1 .. n : received[i] = 0 + i
    BY <1>1 DEF StreamInv, Follows
  <1>3. /\ written \in Seq(Nat) /\ Len(written) = k /\ written # <<>>
        /\ \A i \in 1 .. k : written[i] = n + i
    BY <1>1 DEF StreamInv, Follows, Stream!Receive
  <1>4. received' = Append(received, Head(written)) /\ written' = Tail(written)
    BY DEF Stream!Receive
  <1>5. k > 0 /\ Head(written) = n + 1
    <2>1. k > 0
      BY <1>2, <1>3
    <2>2. Head(written) = written[1] /\ 1 \in 1 .. k
      BY <1>2, <1>3, <2>1
    <2> QED BY <1>3, <2>1, <2>2
  <1>6. Len(received') = n + 1 /\ received' \in Seq(Nat)
    BY <1>2, <1>4, <1>5
  <1>7. \A i \in 1 .. n + 1 : received'[i] = 0 + i
    BY <1>2, <1>4, <1>5
  <1>8. written' \in Seq(Nat) /\ Len(written') = k - 1
    BY <1>2, <1>3, <1>4, <1>5
  <1>9. \A i \in 1 .. k - 1 : written'[i] = (n + 1) + i
    <2> SUFFICES ASSUME NEW i \in 1 .. k - 1 PROVE written'[i] = (n + 1) + i
      OBVIOUS
    <2>1. written'[i] = written[i + 1] /\ i + 1 \in 1 .. k
      BY <1>2, <1>3, <1>4, <1>5
    <2>2. written[i + 1] = n + (i + 1)
      BY <1>3, <2>1
    <2> QED BY <1>2, <2>1, <2>2
  <1>10. position' - (n + 1) = k - 1 /\ n + 1 <= position'
    BY <1>1, <1>2, <1>5
  <1> HIDE DEF n, k
  <1> QED BY <1>1, <1>2, <1>6, <1>7, <1>8, <1>9, <1>10 DEF StreamInv, Follows

\* A session's stored events after the cursor.
LEMMA SessionRows ==
  ASSUME stored \in Nat, position \in Nat
  PROVE  \E k \in Nat :
           /\ Follows([n \in 1 .. stored - position |-> position + n], position, k)
           /\ k # 0 => position + k = stored
  <1> DEFINE events == [n \in 1 .. stored - position |-> position + n]
  <1>1. CASE stored > position
    <2>1. stored - position \in Nat /\ position + (stored - position) = stored
      BY <1>1
    <2>2. Follows(events, position, stored - position)
      BY <2>1 DEF Follows
    <2> QED BY <2>1, <2>2
  <1>2. CASE ~ stored > position
    <2>1. 1 .. stored - position = {}
      BY <1>2
    <2>2. events = <<>>
      BY <2>1
    <2>3. Follows(<<>>, position, 0)
      BY DEF Follows
    <2> QED BY <2>2, <2>3
  <1> QED BY <1>1, <1>2

\* The last event received is the one whose number is the number received.
LEMMA LastIsLength ==
  ASSUME StreamInv
  PROVE  Len(received) \in Nat /\ Stream!LastReceived = Len(received)
  <1>1. /\ received \in Seq(Nat)
        /\ \A i \in 1 .. Len(received) : received[i] = 0 + i
    BY DEF StreamInv, Follows
  <1>2. CASE received = <<>>
    BY <1>2 DEF Stream!LastReceived
  <1>3. CASE received # <<>>
    <2>1. Len(received) \in 1 .. Len(received)
      BY <1>1, <1>3
    <2> QED BY <1>1, <1>3, <2>1 DEF Stream!LastReceived
  <1> QED BY <1>2, <1>3

\* Every step of a stream keeps its part.
LEMMA StreamStep ==
  ASSUME IngestInv, StreamInv, Stream!Next
  PROVE  StreamInv'
  <1>1. CASE Stream!Ingest
    BY <1>1 DEF Stream!Ingest, Stream!streamVars, StreamInv
  <1>2. CASE Stream!Connect
    <2>1. /\ connected' /\ received' = received /\ written' = written /\ written = <<>>
          /\ position' = Stream!LastReceived
      BY <1>2 DEF Stream!Connect, StreamInv
    <2>2. Len(received) \in Nat /\ Stream!LastReceived = Len(received)
      BY LastIsLength
    <2>3. Follows(<<>>, Len(received), 0)
      BY DEF Follows
    <2> QED BY <2>1, <2>2, <2>3 DEF StreamInv
  <1>3. CASE Stream!ListRunEvents
    BY <1>3 DEF Stream!ListRunEvents, StreamInv
  <1>4. CASE Stream!ReadRunEvents
    <2> DEFINE events == Stream!Continuation(persisted \cup {k \in live : k > position})
    <2>1. PICK k \in Nat : Follows(events, position, k)
      BY ContinuationFollows, Zenon DEF StreamInv
    <2>2. connected /\ connected' = connected /\ received' = received /\ Stream!Write(events)
      BY <1>4 DEF Stream!ReadRunEvents, StreamInv
    <2> HIDE DEF events
    <2> QED BY <2>1, <2>2, WriteStep
  <1>5. CASE Stream!ListSessionEvents
    <2> DEFINE events == [n \in 1 .. stored - position |-> position + n]
    <2>1. /\ connected /\ connected' = connected /\ received' = received
          /\ Stream!Write(events)
      BY <1>5 DEF Stream!ListSessionEvents
    <2>2. PICK k \in Nat : Follows(events, position, k)
      <3>1. position \in Nat /\ stored \in Nat
        BY IngestAssumption DEF StreamInv, IngestInv
      <3> QED BY <3>1, SessionRows
    <2> HIDE DEF events
    <2> QED BY <2>1, <2>2, WriteStep
  <1>6. CASE Stream!Receive
    BY <1>6, StreamReceive
  <1>7. CASE Stream!Disconnect
    BY <1>7 DEF Stream!Disconnect, StreamInv
  <1> QED BY <1>1, <1>2, <1>3, <1>4, <1>5, <1>6, <1>7 DEF Stream!Next

\* The log beside a stream: the coordinator's part as beside a poll, and the
\* poll's own variables stay as they are.
LEMMA BesideStream ==
  ASSUME PollInv, Stream!Next, UNCHANGED pollOnly
  PROVE  PollInv'
  <1>1. cursor' = cursor /\ applied' = applied /\ handler' = handler
    BY DEF pollOnly
  <1>2. CASE Stream!Ingest
    <2>1. version \in Int /\ IngestInv
      BY DEF PollInv, HandlerInv
    <2>2. IngestInv' /\ stored <= stored' /\ version' \in Int
      <3>1. CASE Stream!AppendRunEvent
        BY <2>1, <3>1, IngestAssumption DEF IngestInv, Stream!AppendRunEvent
      <3>2. CASE Stream!AppendAgentEvent
        BY <2>1, <3>2, IngestAssumption DEF IngestInv, Stream!AppendAgentEvent
      <3>3. CASE Stream!SetVersion
        BY <2>1, <3>3, IngestAssumption DEF IngestInv, Stream!SetVersion
      <3>4. CASE Stream!Acknowledge
        BY <2>1, <3>4, IngestAssumption DEF IngestInv, Stream!Acknowledge
      <3>5. CASE Stream!Abandon \/ Stream!LoseRedisData \/ Stream!Publish
        BY <2>1, <3>5, IngestAssumption
           DEF IngestInv, Stream!Abandon, Stream!LoseRedisData, Stream!Publish
      <3> QED BY <1>2, <3>1, <3>2, <3>3, <3>4, <3>5 DEF Stream!Ingest
    <2> QED BY <1>1, <2>2, MoreStored DEF PollInv
  <1>3. CASE ~ Stream!Ingest
    <2>1. UNCHANGED <<acked, phase, stored, version>>
      BY <1>3 DEF Stream!Next, Stream!Connect, Stream!ListRunEvents, Stream!ReadRunEvents,
         Stream!ListSessionEvents, Stream!Receive, Stream!Disconnect, Stream!ingestVars
    <2> QED BY <1>1, <2>1 DEF PollInv, IngestInv, ClientInv, HandlerInv
  <1> QED BY <1>2, <1>3

-----------------------------------------------------------------------------
(* The theorems.                                                           *)

\* The inductive invariant of the readers, whichever endpoint serves them.
THEOREM ReadersCorrect == ReadersSpec => [](PollInv /\ StreamInv)
  <1>1. ReadersInit => PollInv /\ StreamInv
    <2> SUFFICES ASSUME ReadersInit PROVE PollInv /\ StreamInv
      OBVIOUS
    <2>1. PollInv
      <3>1. CASE Init
        BY <3>1, PollInit
      <3>2. CASE ~ Init
        <4>1. /\ acked = 0 /\ phase = "idle" /\ stored = 0 /\ version = 0
              /\ cursor = 0 /\ applied = <<>> /\ handler = Idle
          BY <3>2 DEF ReadersInit, Stream!Init, Stream!IngestInit
        <4>2. IngestInv
          BY <4>1, IngestAssumption DEF IngestInv
        <4>3. ClientInv
          BY <4>1 DEF ClientInv, Follows
        <4>4. HandlerInv
          BY <4>1 DEF HandlerInv, Idle, HandlerRow
        <4> QED BY <4>2, <4>3, <4>4 DEF PollInv
      <3> QED BY <3>1, <3>2
    <2>2. received = <<>> /\ position = 0 /\ ~ connected /\ ~ reading /\ written = <<>>
      BY DEF ReadersInit, Stream!Init
    <2>3. StreamInv
      BY <2>2 DEF StreamInv, Follows
    <2> QED BY <2>1, <2>3
  <1>2. PollInv /\ StreamInv /\ [ReadersNext]_<<vars, streamOnly>> => (PollInv /\ StreamInv)'
    <2> SUFFICES ASSUME PollInv, StreamInv, [ReadersNext]_<<vars, streamOnly>>
                 PROVE  PollInv' /\ StreamInv'
      OBVIOUS
    <2>1. CASE Next /\ UNCHANGED streamOnly
      BY <2>1, PollStep DEF StreamInv, streamOnly
    <2>2. CASE Stream!Next /\ UNCHANGED pollOnly
      BY <2>2, BesideStream, StreamStep DEF PollInv
    <2>3. CASE UNCHANGED <<vars, streamOnly>>
      <3>1. PollInv'
        BY <2>3, PollStep
      <3>2. StreamInv'
        BY <2>3 DEF StreamInv, streamOnly
      <3> QED BY <3>1, <3>2
    <2> QED BY <2>1, <2>2, <2>3 DEF ReadersNext
  <1> QED BY <1>1, <1>2, PTL DEF ReadersSpec

\* The client of a long poll applies every event once and in order, through lost
\* answers, restarts and events stored while a request is served.
THEOREM PolledInOrder == ReadersSpec => []AppliedInOrder
  <1>1. PollInv => AppliedInOrder
    <2> SUFFICES ASSUME PollInv PROVE applied = [i \in 1 .. cursor |-> i]
      BY DEF AppliedInOrder
    <2>1. applied \in Seq(Nat) /\ Len(applied) = cursor
      BY DEF PollInv, ClientInv, Follows
    <2>2. \A i \in 1 .. cursor : applied[i] = i
      BY IngestAssumption DEF PollInv, IngestInv, ClientInv, Follows
    <2>3. applied = [i \in 1 .. Len(applied) |-> applied[i]]
      BY <2>1
    <2> QED BY <2>1, <2>2, <2>3
  <1> QED BY <1>1, ReadersCorrect, PTL

\* An answer that says the run is over and has no more leaves nothing behind.
THEOREM DrainedLeavesNothing == ReadersSpec => []DrainedIsComplete
  <1>1. PollInv => DrainedIsComplete
    <2> SUFFICES ASSUME PollInv, handler.pc = "answer", handler.terminal, ~ handler.more
                 PROVE  NextCursor = Last
      BY DEF DrainedIsComplete, At
    <2>1. PICK k \in 0 .. stored - cursor :
            Follows(handler.page, cursor, k) /\ cursor + k = Last
      BY DEF PollInv, HandlerInv
    <2>2. handler.after = cursor /\ cursor \in Nat /\ k \in Nat
      BY IngestAssumption DEF PollInv, HandlerInv, ClientInv, IngestInv
    <2> QED BY <2>1, <2>2, CursorOfAnswer
  <1> QED BY <1>1, ReadersCorrect, PTL

\* The client of a stream receives 1, 2, 3, ..., through any number of
\* reconnections and losses of Redis data, although what it is shown comes from
\* two sources read at different times.
THEOREM StreamedInOrder == ReadersSpec => []ReceivedInOrder
  <1>1. StreamInv => ReceivedInOrder
    <2> SUFFICES ASSUME StreamInv PROVE received = [i \in 1 .. Len(received) |-> i]
      BY DEF ReceivedInOrder, Stream!ReceivedInOrder
    <2>1. received \in Seq(Nat) /\ \A i \in 1 .. Len(received) : received[i] = i
      BY DEF StreamInv, Follows
    <2>2. received = [i \in 1 .. Len(received) |-> received[i]]
      BY <2>1
    <2> QED BY <2>1, <2>2
  <1> QED BY <1>1, ReadersCorrect, PTL

-----------------------------------------------------------------------------
(* How far a stream runs ahead of PostgreSQL: the non-temporal part of     *)
(* ShownBecomesDurable.                                                    *)

\* A client that has been shown an event that is not stored has been shown one such
\* event, and it is the one the Agent has no acknowledgement for and sends again.
OneAheadOfStore ==
  Stream!LastReceived > stored => Stream!LastReceived = stored + 1 /\ acked = stored

\* Nothing known anywhere lies beyond the event that is being handled.
AheadInv ==
  /\ live \subseteq 1 .. acked + 1
  /\ persisted \subseteq 1 .. acked + 1
  /\ stored <= acked + 1
  /\ position <= acked + 1
  /\ Len(received) <= acked + 1

\* What lies within a range lies within a wider one.
LEMMA WiderRange ==
  ASSUME NEW m \in Nat, NEW n \in Nat, m <= n
  PROVE  /\ \A k \in 1 .. m + 1 : k \in 1 .. n + 1
         /\ \A k \in Nat : k <= m + 1 => k <= n + 1
  OBVIOUS

\* The coordinator's steps.
LEMMA AheadIngest ==
  ASSUME IngestInv, StreamInv, AheadInv, UNCHANGED <<persisted, position, received>>,
         acked' = acked \/ acked' = acked + 1,
         \A k \in live' : k \in live \/ k = acked + 1,
         stored' = stored \/ stored' = acked + 1
  PROVE  AheadInv'
  <1>1. acked \in Nat /\ stored \in Nat /\ position \in Nat /\ Len(received) \in Nat
    BY LastIsLength, IngestAssumption DEF IngestInv, StreamInv
  <1>2. acked' \in Nat /\ acked <= acked'
    BY <1>1
  <1>3. \A k \in 1 .. acked + 1 : k \in 1 .. acked' + 1
    BY <1>1, <1>2, WiderRange, Zenon
  <1>4. acked + 1 \in 1 .. acked + 1
    BY <1>1
  <1>5. live' \subseteq 1 .. acked' + 1 /\ persisted' \subseteq 1 .. acked' + 1
    BY <1>3, <1>4, Zenon DEF AheadInv
  <1>6. stored' <= acked' + 1
    BY <1>1, <1>2 DEF AheadInv
  <1>7. \A k \in Nat : k <= acked + 1 => k <= acked' + 1
    BY <1>1, <1>2, WiderRange, Zenon
  <1>8. position' <= acked' + 1 /\ Len(received') <= acked' + 1
    <2>1. position <= acked + 1 /\ Len(received) <= acked + 1
      BY DEF AheadInv
    <2>2. position <= acked' + 1 /\ Len(received) <= acked' + 1
      BY <1>1, <1>7, <2>1, Zenon
    <2> QED BY <2>2
  <1> QED BY <1>5, <1>6, <1>8 DEF AheadInv

\* The steps of a poll, and of the coordinator beside it.
LEMMA AheadPoll ==
  ASSUME IngestInv, StreamInv, AheadInv, Next, UNCHANGED streamOnly
  PROVE  AheadInv'
  <1>1. UNCHANGED <<persisted, position, received>>
    BY DEF streamOnly
  <1>2. CASE Ingest
    BY <1>1, <1>2, AheadIngest
    DEF Ingest, AppendRunEvent, AppendAgentEvent, SetVersion, Acknowledge, Abandon, LoseRedisData
  <1>3. CASE ~ Ingest
    <2>1. UNCHANGED <<acked, live, stored>>
      BY <1>3, Zenon DEF Next, Publish, Request, GetStatus, ListEventsPage, ReadVersion, Subscribe,
         RecheckVersion, Woken, FallBackToTimer, TimerFires, DeadlinePasses, Receive,
         RequestFails, HandlerOnly, ingestVars
    <2> QED BY <1>1, <2>1 DEF AheadInv
  <1> QED BY <1>2, <1>3

\* A tick writes nothing beyond what is known.
LEMMA AheadWrite ==
  ASSUME IngestInv, StreamInv, AheadInv, NEW events, NEW k \in Nat,
         Follows(events, position, k), Stream!Write(events),
         k # 0 => position + k <= acked + 1,
         persisted' \subseteq persisted, UNCHANGED <<acked, live, stored, received>>
  PROVE  AheadInv'
  <1>1. position' = position + k
    BY WriteMoves DEF StreamInv
  <1>2. acked \in Nat /\ position \in Nat
    BY IngestAssumption DEF IngestInv, StreamInv
  <1> QED BY <1>1, <1>2 DEF AheadInv

\* Every step of the coordinator and of the stream keeps the reader at most one ahead.
LEMMA AheadStream ==
  ASSUME IngestInv, StreamInv, AheadInv, Stream!Next
  PROVE  AheadInv'
  <1>0. acked \in Nat /\ stored \in Nat /\ position \in Nat /\ Len(received) \in Nat
    BY LastIsLength, IngestAssumption DEF IngestInv, StreamInv
  <1>1. CASE Stream!Ingest
    BY <1>1, AheadIngest
    DEF Stream!Ingest, Stream!AppendRunEvent, Stream!AppendAgentEvent, Stream!SetVersion,
        Stream!Acknowledge, Stream!Abandon, Stream!LoseRedisData, Stream!Publish, Stream!streamVars
  <1>2. CASE Stream!Connect
    BY <1>2, LastIsLength DEF Stream!Connect, Stream!ingestVars, AheadInv
  <1>3. CASE Stream!ListRunEvents
    <2>1. /\ UNCHANGED <<acked, live, stored, position, received>>
          /\ persisted' = {k \in 1 .. stored : k > position}
      BY <1>3 DEF Stream!ListRunEvents, Stream!ingestVars
    <2>2. persisted' \subseteq 1 .. acked + 1
      BY <1>0, <2>1 DEF AheadInv
    <2> QED BY <2>1, <2>2 DEF AheadInv
  <1>4. CASE Stream!ReadRunEvents
    <2> DEFINE known == persisted \cup {k \in live : k > position}
               events == Stream!Continuation(known)
    <2>1. PICK k \in Nat : Follows(events, position, k)
      BY <1>0, ContinuationFollows, Zenon
    <2>2. /\ Stream!Write(events) /\ persisted' = {}
          /\ UNCHANGED <<acked, live, stored, received>>
      BY <1>4 DEF Stream!ReadRunEvents, Stream!ingestVars
    <2>3. ASSUME k # 0 PROVE position + k <= acked + 1
      <3>1. k \in DOMAIN events
        BY <2>1, <2>3 DEF Follows
      <3>2. \A i \in 1 .. k : position + i \in known
        BY <3>1 DEF Stream!Continuation
      <3>3. position + k \in known
        BY <2>3, <3>2
      <3>4. known \subseteq 1 .. acked + 1
        BY Zenon DEF AheadInv
      <3> QED BY <1>0, <3>3, <3>4
    <2> HIDE DEF events
    <2> QED BY <2>1, <2>2, <2>3, AheadWrite
  <1>5. CASE Stream!ListSessionEvents
    <2> DEFINE events == [n \in 1 .. stored - position |-> position + n]
    <2>1. Stream!Write(events) /\ UNCHANGED <<acked, live, stored, received, persisted>>
      BY <1>5 DEF Stream!ListSessionEvents, Stream!ingestVars
    <2>2. PICK k \in Nat : Follows(events, position, k) /\ (k # 0 => position + k = stored)
      BY <1>0, SessionRows
    <2> HIDE DEF events
    <2>3. k # 0 => position + k <= acked + 1
      BY <1>0, <2>2 DEF AheadInv
    <2> QED BY <2>1, <2>2, <2>3, AheadWrite
  <1>6. CASE Stream!Receive
    <2>1. connected /\ UNCHANGED <<acked, live, stored, position, persisted>>
      BY <1>6 DEF Stream!Receive, Stream!ingestVars, StreamInv
    <2>2. /\ written \in Seq(Nat) /\ written # <<>> /\ received \in Seq(Nat)
          /\ Len(written) = position - Len(received)
          /\ received' = Append(received, Head(written))
      BY <1>6, <2>1 DEF Stream!Receive, StreamInv, Follows
    <2>3. Len(written) > 0 /\ Len(received') = Len(received) + 1
      BY <2>2
    <2>4. Len(received') <= position
      BY <1>0, <2>2, <2>3
    <2> QED BY <1>0, <2>1, <2>3, <2>4 DEF AheadInv
  <1>7. CASE Stream!Disconnect
    BY <1>7 DEF Stream!Disconnect, Stream!ingestVars, AheadInv
  <1> QED BY <1>1, <1>2, <1>3, <1>4, <1>5, <1>6, <1>7 DEF Stream!Next

\* A stream shows at most one event that PostgreSQL does not hold, through losses of
\* Redis data, failed transactions and reconnections, and the Agent still has to
\* repeat that event: what the client sees first is never something the relay can
\* forget.
THEOREM ShownIsRepeated == ReadersSpec => []OneAheadOfStore
  <1>1. ReadersInit => AheadInv
    BY IngestAssumption
    DEF ReadersInit, Init, Stream!Init, IngestInit, Stream!IngestInit, AheadInv
  <1>2. IngestInv /\ StreamInv /\ AheadInv /\ [ReadersNext]_<<vars, streamOnly>> => AheadInv'
    <2> SUFFICES ASSUME IngestInv, StreamInv, AheadInv, [ReadersNext]_<<vars, streamOnly>>
                 PROVE  AheadInv'
      OBVIOUS
    <2>1. CASE UNCHANGED <<vars, streamOnly>>
      BY <2>1 DEF vars, ingestVars, streamOnly, AheadInv
    <2> QED BY <2>1, AheadPoll, AheadStream DEF ReadersNext
  <1>3. PollInv => IngestInv
    BY DEF PollInv
  <1>4. PollInv /\ StreamInv /\ AheadInv => OneAheadOfStore
    <2> SUFFICES ASSUME PollInv, StreamInv, AheadInv PROVE OneAheadOfStore
      OBVIOUS
    <2>1. acked \in Nat /\ stored \in Nat /\ acked <= stored
      BY IngestAssumption DEF PollInv, IngestInv
    <2> QED BY <2>1, LastIsLength DEF AheadInv, OneAheadOfStore
  <1> QED BY <1>1, <1>2, <1>3, <1>4, ReadersCorrect, PTL DEF ReadersSpec
=============================================================================
