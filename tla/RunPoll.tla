------------------------------- MODULE RunPoll ------------------------------
(***************************************************************************)
(* The JSON long poll of runs and of sessions: one client that follows an  *)
(* event log with repeated requests, the handler that serves one request,  *)
(* and the wake-up through Redis.  The handler reads the status, then the  *)
(* page, and waits when there is nothing to say; between two of its steps  *)
(* the coordinator may do anything.                                        *)
(*                                                                         *)
(* The log is that of a run or of a session.  A session's log has no       *)
(* terminal event and its poll reports none; Last only bounds it.          *)
(***************************************************************************)
EXTENDS RunIngest

CONSTANT Limit

ASSUME PollAssumption == Limit \in Nat \ {0}

VARIABLES
  cursor,     \* the client's cursor
  applied,    \* the events the client has applied, in order
  stopped,    \* the client has stopped polling
  handler,    \* the request being served
  endpoint    \* the handler that serves the client

pollVars == <<cursor, applied, stopped, handler, endpoint>>
vars == <<ingestVars, pollVars>>

Idle ==
  [pc |-> "idle", after |-> 0, wait |-> FALSE, late |-> FALSE,
   terminal |-> FALSE, page |-> <<>>, more |-> FALSE, before |-> 0, woken |-> FALSE]

Polls == {"runEventsPoll", "sessionEventsPoll"}

Init ==
  /\ IngestInit
  /\ cursor = 0
  /\ applied = <<>>
  /\ stopped = FALSE
  /\ handler = Idle
  /\ endpoint \in Polls

-----------------------------------------------------------------------------
\* The page the query returns: the first Limit events after the cursor; the
\* query fetches one more to learn whether there are more.
Rows(after) == [i \in 1 .. (IF stored > after THEN stored - after ELSE 0) |-> after + i]

FirstPage(after) ==
  SubSeq(Rows(after), 1, IF Len(Rows(after)) < Limit THEN Len(Rows(after)) ELSE Limit)

\* Altered for mutation testing: the look-ahead is off by one.
PageShort(after) ==
  [events |-> FirstPage(after), more |-> Len(Rows(after)) > Limit + 1]

\* Altered for mutation testing: the row fetched to look ahead displaces the
\* first one.
PageSkipping(after) ==
  [events |-> IF Len(Rows(after)) > Limit
              THEN SubSeq(Rows(after), 2, Limit + 1) ELSE Rows(after),
   more |-> Len(Rows(after)) > Limit]

Page(after) == [events |-> FirstPage(after), more |-> Len(Rows(after)) > Limit]

At(pc) == handler.pc = pc
Goto(pc) == handler' = [handler EXCEPT !.pc = pc]
HandlerOnly == UNCHANGED <<ingestVars, cursor, applied, stopped, endpoint>>

\* parsePollQuery: the client sends its cursor, and whether to wait.
Request(wait) ==
  /\ At("idle")
  /\ endpoint \in Polls
  /\ ~ stopped
  /\ handler' = [Idle EXCEPT !.pc = "status", !.after = cursor, !.wait = wait]
  /\ HandlerOnly

\* GetRun, read on every turn of the loop.  A session's row is only looked up
\* to answer 404.
GetStatus ==
  /\ At("status")
  /\ handler' = [handler EXCEPT !.pc = "page",
                                !.terminal = endpoint = "runEventsPoll" /\ isTerminal]
  /\ HandlerOnly

\* The page is read; events, a terminal run, no wish to wait or a deadline
\* that has passed end the loop with an answer.
MustAnswer(page) ==
  \/ page # <<>>
  \/ handler.terminal
  \/ ~ handler.wait
  \/ handler.late

ListEventsPage ==
  /\ At("page")
  /\ LET p == Page(handler.after)
     IN  handler' = [handler EXCEPT
           !.pc = IF MustAnswer(p.events) THEN "answer" ELSE "version",
           !.page = p.events, !.more = p.more]
  /\ HandlerOnly

\* waitForNotification: version, subscription, version again.  An error of
\* either read is ignored and reads like a key that is not set.
ReadVersion ==
  /\ At("version")
  /\ \E read \in {version, 0} :
       handler' = [handler EXCEPT !.pc = "subscribe", !.before = read, !.woken = FALSE]
  /\ HandlerOnly
Subscribe ==
  /\ At("subscribe")
  /\ Goto("recheck")
  /\ HandlerOnly
RecheckVersion ==
  /\ At("recheck")
  /\ \E read \in {version, 0} :
       Goto(IF read # handler.before THEN "status" ELSE "listen")
  /\ HandlerOnly
Woken ==
  /\ At("listen")
  /\ handler.woken
  /\ Goto("status")
  /\ HandlerOnly

\* The subscription fails or is closed: the loop is entered again after 500 ms.
FallBackToTimer ==
  /\ handler.pc \in {"subscribe", "listen"}
  /\ Goto("timer")
  /\ HandlerOnly
TimerFires ==
  /\ At("timer")
  /\ Goto("status")
  /\ HandlerOnly

\* Altered for mutation testing: an expired wait is not noticed.
DeadlinePassesUnseen ==
  /\ handler.pc # "idle"
  /\ handler.wait
  /\ ~ handler.late
  /\ handler' = [handler EXCEPT !.late = TRUE]
  /\ HandlerOnly

\* The deadline also ends the waiting itself: every wait is bounded by it.
DeadlinePasses ==
  /\ handler.pc # "idle"
  /\ handler.wait
  /\ ~ handler.late
  /\ handler' = [handler EXCEPT !.late = TRUE,
       !.pc = IF @ \in {"version", "subscribe", "recheck", "listen", "timer"}
              THEN "status" ELSE @]
  /\ HandlerOnly

\* PUBLISH reaches whoever is subscribed, or nobody; its errors are ignored.
Publish ==
  /\ phase = "versioned"
  /\ phase' = "notified"
  /\ handler' \in {handler,
       [handler EXCEPT !.woken = @ \/ handler.pc \in {"recheck", "listen"}]}
  /\ UNCHANGED <<acked, live, stored, version, cursor, applied, stopped, endpoint>>

\* The answer: the events, the new cursor, and for a run its status as read
\* before the page.
NextCursor == IF handler.page = <<>> THEN handler.after
              ELSE handler.page[Len(handler.page)]

\* The client applies the page; it stops when the run is over and nothing is
\* left to fetch.
Receive ==
  /\ At("answer")
  /\ applied' = applied \o handler.page
  /\ cursor' = NextCursor
  /\ stopped' = (handler.terminal /\ ~ handler.more)
  /\ handler' = Idle
  /\ UNCHANGED <<ingestVars, endpoint>>

\* A failed query (500), a lost answer, a client that hangs up, a restart.
RequestFails ==
  /\ handler.pc # "idle"
  /\ handler' = Idle
  /\ HandlerOnly

Ingest ==
  /\ \/ AppendRunEvent
     \/ AppendAgentEvent
     \/ SetVersion
     \/ Acknowledge
     \/ Abandon
     \/ LoseRedisData
  /\ UNCHANGED pollVars

Next ==
  \/ Ingest
  \/ Publish
  \/ \E wait \in BOOLEAN : Request(wait)
  \/ GetStatus
  \/ ListEventsPage
  \/ ReadVersion
  \/ Subscribe
  \/ RecheckVersion
  \/ Woken
  \/ FallBackToTimer
  \/ TimerFires
  \/ DeadlinePasses
  \/ Receive
  \/ RequestFails

Spec == Init /\ [][Next]_vars

-----------------------------------------------------------------------------
\* The handler's own steps and the client's next request are taken when they
\* can be.  The request deadline passes.  A query that is tried again and
\* again succeeds at some time, and an answer that is sent again and again
\* arrives at some time.  Nothing is assumed about notifications.
Fairness ==
  /\ WF_vars(\E wait \in BOOLEAN : Request(wait))
  /\ WF_vars(ReadVersion \/ Subscribe \/ RecheckVersion \/ TimerFires)
  /\ WF_vars(DeadlinePasses)
  /\ SF_vars(GetStatus)
  /\ SF_vars(ListEventsPage)
  /\ SF_vars(Receive)

FairSpec == Spec /\ Fairness

\* Values are of their types.
TypeOK ==
  /\ IngestTypeOK
  /\ cursor \in 0 .. Last
  /\ stopped \in BOOLEAN
  /\ handler.page \in Seq(1 .. Last)
  /\ handler.pc \in {"idle", "status", "page", "version", "subscribe",
                     "recheck", "listen", "timer", "answer"}

\* Repeated requests, lost answers and events that arrive between the reads
\* included, the client applies every event once and in order: page after
\* page continues where ListRunEventsPage and next_cursor left off.
AppliedInOrder == applied = [i \in 1 .. cursor |-> i]

\* An answer with terminal=true and has_more=false leaves nothing behind: the
\* status is read before the page, so the terminal event is in the page or
\* before it.
DrainedIsComplete ==
  (At("answer") /\ handler.terminal /\ ~ handler.more) => NextCursor = Last
=============================================================================
