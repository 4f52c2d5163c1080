------------------------------ MODULE RunStore ------------------------------
(***************************************************************************)
(* The runtime schema of the Run Server as PostgreSQL keeps it: runs, the  *)
(* run_events journal, the session_events log and the command_outbox.      *)
(* Every action is one committed transaction of PostgresStore; a           *)
(* transaction that fails or finds nothing to do leaves the state alone    *)
(* and is not an action.  The callers (HTTP handlers, the coordinator)     *)
(* may issue the transactions in any order with any arguments: what is     *)
(* invariant here is invariant under every caller.                         *)
(***************************************************************************)
EXTENDS Integers, FiniteSets

CONSTANTS
  Run,        \* run identifiers, one per row of runtime.runs
  Session,    \* session identifiers
  Key,        \* idempotency keys sent by clients
  Sequence,   \* agent_sequence values
  Thread,     \* codex thread identifiers
  Turn,       \* codex turn identifiers
  Null,       \* a NULL column
  ClaimLimit  \* LIMIT of one claim

ASSUME StoreAssumption ==
  /\ Sequence \subseteq Nat \ {0}
  /\ Null \notin Thread \cup Turn \cup Session \cup Key
  /\ ClaimLimit \in Nat \ {0}

VARIABLES
  runs,       \* runtime.runs, by run_id
  journal,    \* runtime.run_events: the event type stored at (run_id, agent_sequence)
  sessions,   \* runtime.sessions: codex_thread_id and last_session_sequence
  feed,       \* runtime.session_events, by session
  outbox,     \* runtime.command_outbox, by (command_type, resource_id)
  clock       \* source of created_at for the outbox

storeVars == <<runs, journal, sessions, feed, outbox, clock>>

EventType == {"run.accepted", "turn.started", "item", "turn.completed",
              "turn.failed", "turn.interrupted"}
Status == {"queued", "dispatching", "accepted", "running", "completed",
           "failed", "canceled"}
Command == {"run.start", "run.cancel"} \X Run

isTerminal(status) == status \in {"completed", "failed", "canceled"}

\* The status an event sets; "" when it sets none.
statusForEvent ==
  [e \in EventType |->
     CASE e = "run.accepted"     -> "accepted"
       [] e = "turn.started"     -> "running"
       [] e = "turn.completed"   -> "completed"
       [] e = "turn.failed"      -> "failed"
       [] e = "turn.interrupted" -> "canceled"
       [] OTHER                  -> ""]

Start(r) == <<"run.start", r>>
Cancel(r) == <<"run.cancel", r>>

Created == {r \in Run : runs[r].status # "absent"}
Rows(r) == {n \in Sequence : journal[r][n] # "none"}

AbsentRun ==
  [status |-> "absent", session |-> Null, key |-> Null,
   version |-> 0, cancel |-> FALSE, turn |-> Null, through |-> 0, final |-> 0]
AbsentCommand ==
  [status |-> "absent", due |-> FALSE, created |-> 0,
   thread |-> Null, turn |-> Null]

Init ==
  /\ runs = [r \in Run |-> AbsentRun]
  /\ journal = [r \in Run |-> [n \in Sequence |-> "none"]]
  /\ sessions = [s \in Session |-> [thread |-> Null, seq |-> 0]]
  /\ feed = [s \in Session |-> {}]
  /\ outbox = [c \in Command |-> AbsentCommand]
  /\ clock = 0

\* INSERT INTO command_outbox: a pending row that is due at once.
NewCommand(thread, turn) ==
  [status |-> "pending", due |-> TRUE, created |-> clock + 1,
   thread |-> thread, turn |-> turn]

\* Altered for mutation testing: the number read before the update is used.
AnnounceStaleNumber(s, r, status) ==
  feed' = [feed EXCEPT ![s] =
             @ \cup {[seq |-> sessions[s].seq, run |-> r, status |-> status]}]

\* UPDATE sessions SET last_session_sequence = last_session_sequence + 1 and
\* the INSERT INTO session_events that uses the number returned.
Announce(s, r, status) ==
  feed' = [feed EXCEPT ![s] =
             @ \cup {[seq |-> sessions[s].seq + 1, run |-> r, status |-> status]}]

-----------------------------------------------------------------------------
\* Altered for mutation testing: only runs still going on are looked up.
KeyFreeAmongActive(s, k) ==
  ~ \E q \in Created : /\ runs[q].session = s /\ runs[q].key = k
                       /\ ~ isTerminal(runs[q].status)

\* No run is stored under the session's idempotency key.
KeyFree(s, k) == ~ \E q \in Created : runs[q].session = s /\ runs[q].key = k

\* A new run for (session, key): the run, its run.created event and its
\* run.start command commit together.  With a run already stored under the
\* key the call returns that run, or a conflict when the request hash
\* differs, and changes nothing.
CreateRun(r, s, k) ==
  /\ runs[r].status = "absent"
  /\ KeyFree(s, k)
  /\ runs' = [runs EXCEPT ![r] =
       [AbsentRun EXCEPT !.status = "queued", !.session = s, !.key = k,
                         !.version = 1]]
  /\ sessions' = [sessions EXCEPT ![s] =
       [thread |-> sessions[s].thread, seq |-> sessions[s].seq + 1]]
  /\ Announce(s, r, "queued")
  /\ outbox' = [outbox EXCEPT ![Start(r)] = NewCommand(sessions[s].thread, Null)]
  /\ clock' = clock + 1
  /\ UNCHANGED journal

\* Altered for mutation testing: no command as long as the turn is not known.
RequestCancelKnownTurn(r) ==
  /\ r \in Created
  /\ ~ runs[r].cancel
  /\ ~ isTerminal(runs[r].status)
  /\ runs' = [runs EXCEPT ![r] =
       [runs[r] EXCEPT !.cancel = TRUE, !.version = @ + 1]]
  /\ IF runs[r].turn # Null
     THEN /\ outbox' = [outbox EXCEPT ![Cancel(r)] =
                 NewCommand(sessions[runs[r].session].thread, runs[r].turn)]
          /\ clock' = clock + 1
     ELSE UNCHANGED <<outbox, clock>>
  /\ UNCHANGED <<journal, sessions, feed>>

\* The cancel command carries the thread and turn known at this moment.
RequestCancel(r) ==
  /\ r \in Created
  /\ ~ runs[r].cancel
  /\ ~ isTerminal(runs[r].status)
  /\ runs' = [runs EXCEPT ![r] =
       [runs[r] EXCEPT !.cancel = TRUE, !.version = @ + 1]]
  /\ IF outbox[Cancel(r)].status = "absent"
     THEN /\ outbox' = [outbox EXCEPT ![Cancel(r)] =
                 NewCommand(sessions[runs[r].session].thread, runs[r].turn)]
          /\ clock' = clock + 1
     ELSE UNCHANGED <<outbox, clock>>
  /\ UNCHANGED <<journal, sessions, feed>>

\* Altered for mutation testing: a claim never runs out.
ClaimableOnce ==
  {c \in Command : outbox[c].status = "pending" /\ outbox[c].due}

\* Waiting to be sent, or claimed and not settled before the lease ran out.
Claimable ==
  {c \in Command : outbox[c].status \in {"pending", "claimed"} /\ outbox[c].due}

\* The ClaimLimit oldest claimable commands.
OldestClaimable(B) ==
  /\ B \subseteq Claimable
  /\ Cardinality(B) <= ClaimLimit
  /\ Cardinality(B) = ClaimLimit \/ B = Claimable
  /\ \A c \in B, d \in Claimable \ B : outbox[c].created <= outbox[d].created

\* Altered for mutation testing: a repeated claim moves any unfinished run.
DispatchableUnfinished(r) == ~ isTerminal(runs[r].status)

\* The status in which a claim of the start command moves the run on.
Dispatchable(r) == runs[r].status = "queued"

\* One claim of the batch B; a queued run whose start is claimed becomes
\* dispatching, and no session event tells of it.
ClaimCommands(B) ==
  /\ B # {}
  /\ OldestClaimable(B)
  /\ outbox' = [c \in Command |->
       IF c \in B THEN [outbox[c] EXCEPT !.status = "claimed", !.due = FALSE]
                  ELSE outbox[c]]
  /\ runs' = [r \in Run |->
       IF Start(r) \in B /\ Dispatchable(r)
       THEN [runs[r] EXCEPT !.status = "dispatching", !.version = @ + 1]
       ELSE runs[r]]
  /\ UNCHANGED <<journal, sessions, feed, clock>>

\* Time passes: the fifteen seconds of a claim (claim_expires_at < now()) or
\* the one second after a release (next_attempt_at <= now()).
ComesDue(c) ==
  /\ outbox[c].status \in {"pending", "claimed"}
  /\ ~ outbox[c].due
  /\ outbox' = [outbox EXCEPT ![c] = [outbox[c] EXCEPT !.due = TRUE]]
  /\ UNCHANGED <<runs, journal, sessions, feed, clock>>

\* Both updates name the command only: neither looks at its status or owner.
MarkCommandDelivered(c) ==
  /\ outbox[c].status # "absent"
  /\ outbox' = [outbox EXCEPT ![c] =
       [outbox[c] EXCEPT !.status = "delivered", !.due = FALSE]]
  /\ UNCHANGED <<runs, journal, sessions, feed, clock>>

ReleaseCommand(c) ==
  /\ outbox[c].status # "absent"
  /\ outbox' = [outbox EXCEPT ![c] =
       [outbox[c] EXCEPT !.status = "pending", !.due = FALSE]]
  /\ UNCHANGED <<runs, journal, sessions, feed, clock>>

-----------------------------------------------------------------------------
\* UNIQUE(codex_thread_id) and UNIQUE(codex_turn_id): the transaction of a
\* turn.started that would give another row's identifier to this one fails.
BreaksUniqueness(r, e, th, tu) ==
  /\ e = "turn.started"
  /\ \/ /\ sessions[runs[r].session].thread = Null
        /\ \E s \in Session \ {runs[r].session} : sessions[s].thread = th
     \/ \E q \in Created \ {r} : runs[q].turn = tu

\* Altered for mutation testing: the last event applied sets the position.
ThroughAfterLast(r, n) == n

\* Altered for mutation testing: the first terminal event keeps the position.
FinalAfterFirst(r, n, e) ==
  IF isTerminal(statusForEvent[e]) /\ runs[r].final = 0 THEN n ELSE runs[r].final

\* The columns of the run row after event e at sequence n: an event with a
\* status overwrites status, version and final_sequence whatever the status
\* was; persisted_through_sequence only grows.
StatusAfter(r, e) ==
  IF statusForEvent[e] # "" THEN statusForEvent[e] ELSE runs[r].status
VersionAfter(r, e) ==
  IF statusForEvent[e] # "" THEN runs[r].version + 1 ELSE runs[r].version
ThroughAfter(r, n) == IF n > runs[r].through THEN n ELSE runs[r].through
FinalAfter(r, n, e) == IF isTerminal(statusForEvent[e]) THEN n ELSE runs[r].final

RunAfter(r, n, e, tu) ==
  [runs[r] EXCEPT
     !.status = StatusAfter(r, e), !.version = VersionAfter(r, e),
     !.turn = IF e = "turn.started" THEN tu ELSE @,
     !.through = ThroughAfter(r, n), !.final = FinalAfter(r, n, e)]

\* Altered for mutation testing: a repeated event is applied again.
FirstCopyOrReplay(r, n) == TRUE

\* INSERT INTO run_events ... ON CONFLICT DO NOTHING affects a row.
FirstCopy(r, n) == journal[r][n] = "none"

\* The first copy of an event is stored and applied.  A row already stored at
\* the sequence makes the call return the run as it is.
AppendAgentEvent(r, n, e, th, tu) ==
  LET s == runs[r].session
      announced == statusForEvent[e] # ""
  IN /\ r \in Created
     /\ FirstCopy(r, n)
     /\ ~ BreaksUniqueness(r, e, th, tu)
     /\ journal' = [journal EXCEPT ![r][n] = e]
     /\ runs' = [runs EXCEPT ![r] = RunAfter(r, n, e, tu)]
     /\ sessions' = [sessions EXCEPT ![s] =
          [thread |-> IF e = "turn.started" /\ sessions[s].thread = Null
                      THEN th ELSE sessions[s].thread,
           seq |-> IF announced THEN sessions[s].seq + 1 ELSE sessions[s].seq]]
     /\ IF announced THEN Announce(s, r, statusForEvent[e]) ELSE UNCHANGED feed
     /\ UNCHANGED <<outbox, clock>>

-----------------------------------------------------------------------------
Next ==
  \/ \E r \in Run, s \in Session, k \in Key : CreateRun(r, s, k)
  \/ \E r \in Run : RequestCancel(r)
  \/ \E B \in SUBSET Command : ClaimCommands(B)
  \/ \E c \in Command : ComesDue(c)
  \/ \E c \in Command : MarkCommandDelivered(c)
  \/ \E c \in Command : ReleaseCommand(c)
  \/ \E r \in Run, n \in Sequence, e \in EventType, th \in Thread, tu \in Turn :
       AppendAgentEvent(r, n, e, th, tu)

Spec == Init /\ [][Next]_storeVars

-----------------------------------------------------------------------------
RunRow ==
  [status : Status \cup {"absent"}, session : Session \cup {Null},
   key : Key \cup {Null}, version : Nat, cancel : BOOLEAN,
   turn : Turn \cup {Null}, through : Sequence \cup {0},
   final : Sequence \cup {0}]
CommandRow ==
  [status : {"absent", "pending", "claimed", "delivered"}, due : BOOLEAN,
   created : Nat, thread : Thread \cup {Null}, turn : Turn \cup {Null}]
FeedRow == [seq : Nat \ {0}, run : Run, status : Status]

\* Every column holds a value of its type; a run row that exists belongs to a
\* session.
TypeOK ==
  /\ runs \in [Run -> RunRow]
  /\ \A r \in Created : runs[r].session \in Session
  /\ journal \in [Run -> [Sequence -> EventType \cup {"none"}]]
  /\ sessions \in [Session -> [thread : Thread \cup {Null}, seq : Nat]]
  /\ feed \in [Session -> SUBSET FeedRow]
  /\ outbox \in [Command -> CommandRow]
  /\ clock \in Nat

\* persisted_through_sequence is the greatest sequence stored for the run, in
\* whatever order AppendAgentEvent received the events, and 0 before the first.
ThroughIsGreatest ==
  \A r \in Run :
    /\ runs[r].through \in Rows(r) \cup {0}
    /\ \A n \in Rows(r) : n <= runs[r].through

\* The session log has no gap and no two entries under one number: its numbers
\* are exactly 1 .. last_session_sequence.  A client that follows the log by
\* cursor (ListSessionEvents) relies on it, and CreateRun and AppendAgentEvent
\* of several runs both write it.
FeedGapFree ==
  \A s \in Session :
    /\ \A i \in 1 .. sessions[s].seq : \E e \in feed[s] : e.seq = i
    /\ \A e \in feed[s] : e.seq <= sessions[s].seq
    /\ \A e, f \in feed[s] : e.seq = f.seq => e = f

\* e is the newest entry of the log about its run.
Newest(s, e) ==
  e \in feed[s] /\ \A f \in feed[s] : f.run = e.run => f.seq <= e.seq

\* A client that replays the session log knows the status of every run: the
\* newest entry about a run shows its status.  The one status the log never
\* shows is dispatching, set by ClaimCommands without an entry; the log then
\* still shows queued.
FeedTracksStatus ==
  \A r \in Created :
    \E e \in feed[runs[r].session] :
      /\ e.run = r
      /\ Newest(runs[r].session, e)
      /\ \/ e.status = runs[r].status
         \/ e.status = "queued" /\ runs[r].status = "dispatching"

\* A terminal status is backed by the journal: final_sequence is the sequence
\* of a stored event that sets this status, even when several terminal events
\* or late events were applied.
TerminalHasEvent ==
  \A r \in Created :
    isTerminal(runs[r].status) =>
      /\ runs[r].final \in Rows(r)
      /\ statusForEvent[journal[r][runs[r].final]] = runs[r].status

\* Retried or concurrent CreateRun calls with one idempotency key leave one run.
OneRunPerKey ==
  \A q, r \in Created :
    runs[q].session = runs[r].session /\ runs[q].key = runs[r].key => q = r

\* The transactional outbox: a run exists exactly when its start command does,
\* and its cancellation was requested exactly when its cancel command exists.
OutboxMatchesRuns ==
  \A r \in Run :
    /\ r \in Created <=> outbox[Start(r)].status # "absent"
    /\ runs[r].cancel <=> outbox[Cancel(r)].status # "absent"

\* state_version identifies what a client has seen of a run: a step that
\* changes the status or the cancellation of a run raises it by one, it never
\* falls or jumps, and a created run never disappears.
VersionStep ==
  \A r \in Created :
    /\ runs'[r].status # "absent"
    /\ runs'[r].version \in {runs[r].version, runs[r].version + 1}
    /\ <<runs[r].status, runs[r].cancel>> # <<runs'[r].status, runs'[r].cancel>>
         => runs'[r].version = runs[r].version + 1

VersionCountsChanges == [][VersionStep]_storeVars

\* Nothing is stored under a run identifier before CreateRun uses it.
BlankUntilCreated == \A r \in Run \ Created : runs[r] = AbsentRun

\* The inductive invariant: each conjunct needs some of the others.
StoreInv ==
  /\ TypeOK
  /\ BlankUntilCreated
  /\ ThroughIsGreatest
  /\ FeedGapFree
  /\ FeedTracksStatus
  /\ TerminalHasEvent
  /\ OneRunPerKey
  /\ OutboxMatchesRuns
=============================================================================
