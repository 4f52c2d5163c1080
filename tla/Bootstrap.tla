------------------------------ MODULE Bootstrap -----------------------------
(***************************************************************************)
(* Bootstrap synchronisation: a sync job asks the Agent for the catalogue  *)
(* of Projects and Codex Threads on the Mac.  The Agent uploads it batch   *)
(* by batch, each one committed and acknowledged before the next, and the  *)
(* final batch of a catalogue uploaded in one piece archives what the      *)
(* catalogue no longer holds.  Meanwhile clients create Sessions and Runs, *)
(* Runs end, the Mac's catalogue changes and the connection breaks.        *)
(*                                                                         *)
(* A Session stands for its Codex Thread as well, a job for its            *)
(* idempotency key.  Time is counted in jobs: a row's updated_at is after  *)
(* a job's created_at when it was written after the job was made.          *)
(***************************************************************************)
EXTENDS Integers, FiniteSets

CONSTANTS
  Project,
  Session,
  ProjectOf,       \* the Project of every Session
  Known,           \* the Sessions an earlier sync left in the database
  Job,             \* idempotency keys of sync jobs
  MaxDrops,        \* bound on lost connections
  MaxChanges,      \* bound on changes of the Mac's catalogue
  Null

ASSUME BootstrapAssumption ==
  /\ ProjectOf \in [Session -> Project]
  /\ Known \subseteq Session
  /\ MaxDrops \in Nat /\ MaxChanges \in Nat
  /\ IsFiniteSet(Job) /\ IsFiniteSet(Project) /\ IsFiniteSet(Session)
  /\ Project \cap Session = {} /\ Null \notin Job \cup Project \cup Session

VARIABLES
  jobs,        \* runtime.sync_jobs
  outbox,      \* by job, the state of its bootstrap.start command
  attempt,     \* the command the dispatcher has claimed and not yet sent
  projects,    \* runtime.projects
  sessions,    \* runtime.sessions, each with its latest Run
  creating,    \* the Session a CreateRun transaction has locked
  tx,          \* the final batch whose transaction is under way
  mac,         \* Projects and Threads on the Mac
  finished,    \* Threads whose turn is over on the Mac
  agent,       \* the upload the Agent is at
  watermark,   \* by job, the last batch acknowledged to the Agent
  listing,     \* the Agent owes the project.snapshot a new connection asks for
  starts,      \* bootstrap.start messages under way
  batches,     \* the bootstrap.batch message under way
  acks,        \* bootstrap.durable_ack messages under way
  snapshots,   \* catalogues frozen so far
  drops, changes

store == <<jobs, projects, sessions>>
wire == <<starts, batches, acks>>
world == <<mac, finished, changes>>
vars == <<store, outbox, attempt, creating, tx, world, agent, watermark, listing, wire,
          snapshots, drops>>

Item == Project \cup Session

Now == Cardinality({j \in Job : jobs[j].status # "absent"})

AbsentJob ==
  [status |-> "absent", created |-> 0, last |-> -1, checksum |-> Null,
   reconciled |-> FALSE]

Resting == [job |-> Null, snapshot |-> 0, manifest |-> {}, left |-> {},
            no |-> 0, resumed |-> FALSE, sent |-> FALSE]

Init ==
  /\ jobs = [j \in Job |-> AbsentJob]
  /\ outbox = [j \in Job |-> "absent"]
  /\ attempt = Null
  /\ projects = [p \in Project |-> [archived |-> FALSE, seen |-> 0, updated |-> 0]]
  /\ sessions = [s \in Session |->
       [exists |-> s \in Known, thread |-> s \in Known, archived |-> FALSE,
        seen |-> 0, updated |-> 0, run |-> "none"]]
  /\ creating = Null
  /\ tx = Null
  /\ mac = Project \cup Known
  /\ finished = {}
  /\ agent = Resting
  /\ watermark = [j \in Job |-> [last |-> -1, done |-> FALSE]]
  /\ listing = FALSE
  /\ starts = {} /\ batches = {} /\ acks = {}
  /\ snapshots = 0
  /\ drops = 0
  /\ changes = 0

-----------------------------------------------------------------------------
(* Clients.                                                                *)

\* A key that has its job, or another job that is active, makes no new one.
CreateSyncJob(j) ==
  /\ jobs[j].status = "absent"
  /\ \A i \in Job : jobs[i].status \notin {"queued", "running"}
  /\ jobs' = [jobs EXCEPT ![j] = [AbsentJob EXCEPT !.status = "queued", !.created = Now]]
  /\ outbox' = [outbox EXCEPT ![j] = "pending"]
  /\ UNCHANGED <<attempt, projects, sessions, creating, tx, world, agent, watermark, listing,
                 wire, snapshots, drops>>

\* Altered for mutation testing: an active Run does not protect its Session.
StaleSessionAnyRun(row, b) ==
  /\ row.exists /\ row.thread /\ ~ row.archived
  /\ row.seen # b.snapshot
  /\ row.updated <= jobs[b.job].created

\* The Sessions the final batch b archives: visible, known to Codex, not in
\* b's catalogue, untouched since the job was made, without an active Run.
StaleSession(row, b) ==
  /\ row.exists /\ row.thread /\ ~ row.archived
  /\ row.seen # b.snapshot
  /\ row.updated <= jobs[b.job].created
  /\ row.run # "active"

\* The transaction of a final batch holds the rows it archives.
Locked(s) == tx # Null /\ StaleSession(sessions[s], tx.batch)

CreateSession(s) ==
  /\ ~ sessions[s].exists
  /\ s \notin mac
  /\ ~ projects[ProjectOf[s]].archived
  /\ sessions' = [sessions EXCEPT ![s] = [exists |-> TRUE, thread |-> FALSE, archived |-> FALSE,
                                          seen |-> 0, updated |-> Now, run |-> "none"]]
  /\ UNCHANGED <<jobs, projects, outbox, attempt, creating, tx, world, agent, watermark, listing,
                 wire, snapshots, drops>>

\* CreateRun locks the rows of the Session and of its Project, both visible,
\* and keeps them until it commits.  Bound: one Run per Session.
LockForRun(s) ==
  /\ creating = Null
  /\ sessions[s].exists /\ ~ sessions[s].archived
  /\ ~ projects[ProjectOf[s]].archived
  /\ sessions[s].run = "none"
  /\ ~ Locked(s)
  /\ creating' = s
  /\ UNCHANGED <<store, outbox, attempt, tx, world, agent, watermark, listing, wire, snapshots, drops>>
CreateRun(s) ==
  /\ creating = s
  /\ creating' = Null
  /\ sessions' = [sessions EXCEPT ![s].run = "active", ![s].updated = Now]
  /\ UNCHANGED <<jobs, projects, outbox, attempt, tx, world, agent, watermark, listing, wire,
                 snapshots, drops>>
CreateRunFails(s) ==
  /\ creating = s
  /\ creating' = Null
  /\ UNCHANGED <<store, outbox, attempt, tx, world, agent, watermark, listing, wire, snapshots, drops>>

\* AppendAgentEvent for turn.started and for the terminal event.
TurnStarted(s) ==
  /\ sessions[s].run = "active"
  /\ ~ sessions[s].thread
  /\ creating # s /\ ~ Locked(s)
  /\ sessions' = [sessions EXCEPT ![s].thread = TRUE, ![s].updated = Now]
  /\ mac' = mac \cup {s}
  /\ UNCHANGED <<jobs, projects, outbox, attempt, creating, tx, finished, changes, agent,
                 watermark, listing, wire, snapshots, drops>>
TurnEnded(s) ==
  /\ sessions[s].run = "active"
  /\ s \in finished
  /\ creating # s /\ ~ Locked(s)
  /\ sessions' = [sessions EXCEPT ![s].run = "ended", ![s].updated = Now]
  /\ UNCHANGED <<jobs, projects, outbox, attempt, creating, tx, world, agent, watermark, listing,
                 wire, snapshots, drops>>

-----------------------------------------------------------------------------
(* The dispatcher.                                                         *)

\* An unfinished command is claimed, and again whenever its lease is over.
ClaimCommands(j) ==
  /\ attempt = Null
  /\ outbox[j] \in {"pending", "claimed"}
  /\ outbox' = [outbox EXCEPT ![j] = "claimed"]
  /\ attempt' = j
  /\ UNCHANGED <<store, creating, tx, world, agent, watermark, listing, wire, snapshots, drops>>

\* A finished job's command is discarded, any other sent.
sendCommand(j) ==
  /\ attempt = j
  /\ attempt' = Null
  /\ IF jobs[j].status = "completed"
     THEN outbox' = [outbox EXCEPT ![j] = "delivered"] /\ UNCHANGED starts
     ELSE starts' = starts \cup {j} /\ UNCHANGED outbox
  /\ UNCHANGED <<store, creating, tx, world, agent, watermark, listing, batches, acks, snapshots, drops>>
ReleaseCommand(j) ==
  /\ attempt = j
  /\ attempt' = Null
  /\ outbox' = [outbox EXCEPT ![j] = "pending"]
  /\ UNCHANGED <<store, creating, tx, world, agent, watermark, listing, wire, snapshots, drops>>

-----------------------------------------------------------------------------
(* The Agent (external): it freezes the catalogue, or, when it resumes a   *)
(* job from its watermark, reads it anew and leaves out as many items as   *)
(* were acknowledged before; it waits for the acknowledgement of a batch   *)
(* before it sends the next.                                               *)

Catalogue == {x \in mac : x \in Session => ProjectOf[x] \in mac}

\* One dispatcher sends the starts of a connection, so that they arrive job by
\* job.
ReceiveStart(j) ==
  /\ j \in starts
  /\ \A i \in starts : jobs[j].created <= jobs[i].created
  /\ starts' = starts \ {j}
  /\ IF agent.job = j \/ watermark[j].done
     THEN UNCHANGED <<agent, snapshots>>
     ELSE \E skip \in SUBSET Catalogue :
            LET no == watermark[j].last + 1 IN
            /\ Cardinality(skip) = no \/ (Cardinality(skip) < no /\ skip = Catalogue)
            /\ snapshots' = snapshots + 1
            /\ agent' = [job |-> j, snapshot |-> snapshots + 1, manifest |-> Catalogue,
                         left |-> Catalogue \ skip, no |-> no, resumed |-> no > 0,
                         sent |-> FALSE]
  /\ UNCHANGED <<store, outbox, attempt, creating, tx, world, watermark, listing, batches,
                 acks, drops>>

\* What bootstrapBatch makes of an uploaded item: of a Thread's turns only
\* those that are over.  manifest is not part of it: it is what the catalogue
\* held.
Batch(x) ==
  [job |-> agent.job, snapshot |-> agent.snapshot, no |-> agent.no, item |-> x,
   manifest |-> agent.manifest,
   ended |-> x \in finished, done |-> x = Null, safe |-> x = Null /\ ~ agent.resumed]

\* Projects go before Threads.
SendBatch ==
  /\ agent.job # Null
  /\ ~ agent.sent
  /\ \E x \in agent.left \cup {Null} :
       /\ x = Null => agent.left = {}
       /\ x \in Session => agent.left \cap Project = {}
       /\ batches' = {Batch(x)}
       /\ agent' = [agent EXCEPT !.sent = TRUE, !.left = @ \ {x}]
  /\ UNCHANGED <<store, outbox, attempt, creating, tx, world, watermark, listing, starts,
                 acks, snapshots, drops>>

ReceiveAck(b) ==
  /\ b \in acks
  /\ acks' = acks \ {b}
  /\ IF b.job = agent.job /\ b.no = agent.no
     THEN /\ watermark' = [watermark EXCEPT ![b.job] = [last |-> b.no, done |-> b.done]]
          /\ agent' = IF b.done THEN Resting
                      ELSE [agent EXCEPT !.no = @ + 1, !.sent = FALSE]
     ELSE UNCHANGED <<watermark, agent>>
  /\ UNCHANGED <<store, outbox, attempt, creating, tx, world, listing, starts, batches,
                 snapshots, drops>>

MacChanges(x) ==
  /\ changes < MaxChanges
  /\ changes' = changes + 1
  /\ x \in Session /\ x \notin mac => (~ sessions[x].exists \/ sessions[x].thread)
  /\ mac' = IF x \in mac THEN mac \ {x} ELSE mac \cup {x}
  /\ UNCHANGED <<store, outbox, attempt, creating, tx, finished, agent, watermark, listing,
                 wire, snapshots, drops>>

FinishTurn(s) ==
  /\ sessions[s].run = "active"
  /\ sessions[s].thread
  /\ s \notin finished
  /\ finished' = finished \cup {s}
  /\ UNCHANGED <<store, outbox, attempt, creating, tx, mac, changes, agent, watermark,
                 listing, wire, snapshots, drops>>

\* The connection is lost with everything under way, and made anew.
Drop ==
  /\ drops < MaxDrops
  /\ drops' = drops + 1
  /\ starts' = {} /\ batches' = {} /\ acks' = {}
  /\ agent' = Resting
  /\ listing' = TRUE
  /\ tx' = IF tx = Null THEN Null ELSE [tx EXCEPT !.alive = FALSE]
  /\ UNCHANGED <<store, outbox, attempt, creating, world, watermark, snapshots>>

-----------------------------------------------------------------------------
(* The Run Server's side of the Agent's messages.                          *)

\* UpsertProjects: what the Mac lists is visible, and fresh.
UpsertProjects ==
  /\ listing
  /\ listing' = FALSE
  /\ creating = Null
  /\ projects' = [p \in Project |->
       IF p \in mac THEN [projects[p] EXCEPT !.archived = FALSE, !.updated = Now]
                    ELSE projects[p]]
  /\ UNCHANGED <<jobs, sessions, outbox, attempt, creating, tx, world, agent, watermark,
                 wire, snapshots, drops>>

\* The Agent's checksum of a batch, over what it uploads.
Checksum(b) == <<b.item, b.ended, b.done>>

Replayed(b) == b.no = jobs[b.job].last /\ Checksum(b) = jobs[b.job].checksum

\* Altered for mutation testing: a batch that was committed, with other
\* contents, is taken again.
IsNextOrLast(b) ==
  /\ b.no \in {jobs[b.job].last, jobs[b.job].last + 1}
  /\ ~ b.done => \A i \in Job \ {b.job} : jobs[i].status \notin {"queued", "running"}

\* The batch is the next one, and does not make a second job active.
IsNext(b) ==
  /\ b.no = jobs[b.job].last + 1
  /\ ~ b.done => \A i \in Job \ {b.job} : jobs[i].status \notin {"queued", "running"}

ImportProjects(b) ==
  [p \in Project |->
     IF p = b.item THEN [archived |-> FALSE, seen |-> b.snapshot, updated |-> Now]
                   ELSE projects[p]]

\* A Run that ended on the Mac, and that the database does not know or does
\* not know as ended, is written; a Session is touched only then.
ImportSessions(b) ==
  [s \in Session |->
     IF s # b.item THEN sessions[s]
     ELSE LET old == sessions[s]
              news == b.ended /\ old.run = "active"
          IN [exists |-> TRUE, thread |-> TRUE, archived |-> FALSE, seen |-> b.snapshot,
              updated |-> IF news \/ ~ old.exists THEN Now ELSE old.updated,
              run |-> IF news THEN "ended" ELSE old.run]]

JobAfter(b) ==
  [jobs[b.job] EXCEPT !.status = IF b.done THEN "completed" ELSE "running",
                      !.last = b.no, !.checksum = Checksum(b),
                      !.reconciled = @ \/ b.safe]

OutboxAfter(b) == IF b.done THEN [outbox EXCEPT ![b.job] = "delivered"] ELSE outbox

\* Altered for mutation testing: a batch that cannot be applied is
\* acknowledged all the same.
RejectAcked(b) ==
  /\ b \in batches
  /\ tx = Null
  /\ batches' = {}
  /\ acks' = acks \cup {b}
  /\ UNCHANGED <<store, outbox, attempt, creating, tx, world, agent, watermark, listing,
                 starts, snapshots, drops>>

\* A batch out of order, or one whose transaction fails, is dropped without
\* an acknowledgement.
Reject(b) ==
  /\ b \in batches
  /\ tx = Null
  /\ batches' = {}
  /\ UNCHANGED <<store, outbox, attempt, creating, tx, world, agent, watermark, listing,
                 starts, acks, snapshots, drops>>

\* A batch that was committed before is acknowledged again.
Replay(b) ==
  /\ b \in batches
  /\ tx = Null
  /\ batches' = {}
  /\ Replayed(b)
  /\ acks' = acks \cup {b}
  /\ outbox' = OutboxAfter(b)
  /\ UNCHANGED <<store, attempt, creating, tx, world, agent, watermark, listing, starts,
                 snapshots, drops>>

\* Altered for mutation testing: every final batch archives.
ReconcilesWhenDone(b) == b.done

Reconciles(b) == b.done /\ b.safe

\* A batch that only imports is one transaction.
ApplyBootstrapBatch(b) ==
  /\ b \in batches
  /\ tx = Null
  /\ ~ Replayed(b)
  /\ IsNext(b)
  /\ ~ Reconciles(b)
  /\ creating # Null => b.item \notin {creating, ProjectOf[creating]}
  /\ batches' = {}
  /\ projects' = ImportProjects(b)
  /\ sessions' = ImportSessions(b)
  /\ jobs' = [jobs EXCEPT ![b.job] = JobAfter(b)]
  /\ outbox' = OutboxAfter(b)
  /\ acks' = acks \cup {b}
  /\ UNCHANGED <<attempt, creating, tx, world, agent, watermark, listing, starts, snapshots,
                 drops>>

ActiveProjects == {ProjectOf[s] : s \in {t \in Session : sessions[t].run = "active"}}

\* The transaction of a batch that archives: the statement that archives the
\* Sessions waits for a CreateRun that holds one of them.  The statement that
\* archives the Projects then takes its own snapshot of the active Runs.
BeginReconciliation(b) ==
  /\ b \in batches
  /\ tx = Null
  /\ ~ Replayed(b)
  /\ IsNext(b)
  /\ Reconciles(b)
  /\ creating # Null => ~ StaleSession(sessions[creating], b)
  /\ batches' = {}
  /\ tx' = [batch |-> b, protected |-> ActiveProjects, alive |-> TRUE]
  /\ UNCHANGED <<store, outbox, attempt, creating, world, agent, watermark, listing, starts,
                 acks, snapshots, drops>>

StaleProject(p) ==
  /\ ~ projects[p].archived
  /\ projects[p].seen # tx.batch.snapshot
  /\ projects[p].updated <= jobs[tx.batch.job].created
  /\ p \notin tx.protected

\* It waits for a CreateRun that holds one of its Projects; a row that was
\* only locked is then updated without another look at the Runs.
CommitReconciliation ==
  /\ tx # Null
  /\ creating # Null => ~ StaleProject(ProjectOf[creating])
  /\ tx' = Null
  /\ projects' = [p \in Project |-> [projects[p] EXCEPT !.archived = @ \/ StaleProject(p),
        !.updated = IF StaleProject(p) THEN Now ELSE @]]
  /\ sessions' = [s \in Session |->
        [sessions[s] EXCEPT !.archived = @ \/ StaleSession(sessions[s], tx.batch)]]
  /\ jobs' = [jobs EXCEPT ![tx.batch.job] = JobAfter(tx.batch)]
  /\ outbox' = OutboxAfter(tx.batch)
  /\ acks' = IF tx.alive THEN acks \cup {tx.batch} ELSE acks
  /\ UNCHANGED <<attempt, creating, world, agent, watermark, listing, starts, batches,
                 snapshots, drops>>

\* The transaction fails, or the relay stops before it commits.
AbortReconciliation ==
  /\ tx # Null
  /\ tx' = Null
  /\ UNCHANGED <<store, outbox, attempt, creating, world, agent, watermark, listing, wire,
                 snapshots, drops>>

Next ==
  \/ \E j \in Job : CreateSyncJob(j)
  \/ \E s \in Session : CreateSession(s)
  \/ \E s \in Session : LockForRun(s)
  \/ \E s \in Session : CreateRun(s)
  \/ \E s \in Session : CreateRunFails(s)
  \/ \E s \in Session : TurnStarted(s)
  \/ \E s \in Session : TurnEnded(s)
  \/ \E j \in Job : ClaimCommands(j)
  \/ \E j \in Job : sendCommand(j)
  \/ \E j \in Job : ReleaseCommand(j)
  \/ \E j \in starts : ReceiveStart(j)
  \/ SendBatch
  \/ \E b \in acks : ReceiveAck(b)
  \/ \E x \in Item : MacChanges(x)
  \/ \E s \in Session : FinishTurn(s)
  \/ Drop
  \/ UpsertProjects
  \/ \E b \in batches : Reject(b)
  \/ \E b \in batches : Replay(b)
  \/ \E b \in batches : ApplyBootstrapBatch(b)
  \/ \E b \in batches : BeginReconciliation(b)
  \/ CommitReconciliation
  \/ AbortReconciliation

Spec == Init /\ [][Next]_vars

-----------------------------------------------------------------------------
\* An acknowledged batch is committed: the Agent's durable watermark is never
\* ahead of the job's last_committed_batch_no, whatever is lost or replayed.
AckedIsCommitted == \A j \in Job : watermark[j].last <= jobs[j].last

\* Reconciliation hides only what the Mac no longer had when the catalogue
\* was read: a Session or Project that a transaction archives is not in the
\* catalogue its final batch closes.  Resumed uploads, whose batches come from
\* several catalogues, would break this if they archived.
HidesOnlyMissing ==
  [][ /\ \A s \in Session : ~ sessions[s].archived /\ sessions'[s].archived
           => s \notin tx.batch.manifest
      /\ \A p \in Project : ~ projects[p].archived /\ projects'[p].archived
           => p \notin tx.batch.manifest ]_vars

\* A Session with an active Run is never archived: CreateRun and the
\* archiving statement exclude each other on the Session's row.
ActiveSessionVisible ==
  \A s \in Session : sessions[s].run = "active" => ~ sessions[s].archived

\* A completed job stays as it is: repeated bootstrap.start messages, late
\* batches and lost acknowledgements do not reopen it.
CompletedStays ==
  [][ \A j \in Job : jobs[j].status = "completed" => jobs'[j] = jobs[j] ]_vars

\* Active Runs are protected: a Project with an active Run is not archived.
ActiveProjectVisible ==
  \A s \in Session : sessions[s].run = "active" => ~ projects[ProjectOf[s]].archived
=============================================================================
