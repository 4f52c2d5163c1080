--------------------------- MODULE BootstrapProofs --------------------------
(***************************************************************************)
(* What a bootstrap synchronisation keeps for every catalogue, any number  *)
(* of sync jobs, lost connections and changes on the Mac: acknowledged     *)
(* batches are committed, a completed job stays, a Session with an active  *)
(* Run is not archived, and nothing is archived that the catalogue holds.  *)
(***************************************************************************)
EXTENDS Bootstrap, TLAPS

-----------------------------------------------------------------------------
(* The inductive invariant.                                                *)

JobRow == [status : {"absent", "queued", "running", "completed"}, created : Int, last : Int,
           checksum : ((Item \cup {Null}) \X BOOLEAN \X BOOLEAN) \cup {Null},
           reconciled : BOOLEAN]
ProjectRow == [archived : BOOLEAN, seen : Int, updated : Int]
SessionRow == [exists : BOOLEAN, thread : BOOLEAN, archived : BOOLEAN, seen : Int,
               updated : Int, run : {"none", "active", "ended"}]
Message == [job : Job, snapshot : Int, no : Int, item : Item \cup {Null},
            manifest : SUBSET Item, ended : BOOLEAN, done : BOOLEAN, safe : BOOLEAN]
Upload == [job : Job \cup {Null}, snapshot : Int, manifest : SUBSET Item,
           left : SUBSET Item, no : Int, resumed : BOOLEAN, sent : BOOLEAN]
Transaction == [batch : Message, protected : SUBSET Project, alive : BOOLEAN]

\* Sets of jobs and of items have sizes: they are finite.  (The theorems on
\* finite sets are brought in only at the end, where Sizes is proved.)
Sizes ==
  /\ \A S \in SUBSET Job : Cardinality(S) \in Nat
  /\ \A S \in SUBSET Job : \A j \in Job \ S : Cardinality(S \cup {j}) = Cardinality(S) + 1
  /\ \A S \in SUBSET Item : Cardinality(S) \in Nat /\ (Cardinality(S) = 0 => S = {})

\* The columns and messages hold values of their types.
Types ==
  /\ Sizes
  /\ jobs \in [Job -> JobRow]
  /\ outbox \in [Job -> {"absent", "pending", "claimed", "delivered"}]
  /\ attempt \in Job \cup {Null}
  /\ projects \in [Project -> ProjectRow]
  /\ sessions \in [Session -> SessionRow]
  /\ creating \in Session \cup {Null}
  /\ tx \in Transaction \cup {Null}
  /\ mac \subseteq Item
  /\ agent \in Upload
  /\ watermark \in [Job -> [last : Int, done : BOOLEAN]]
  /\ starts \subseteq Job
  /\ batches \subseteq Message
  /\ acks \subseteq Message
  /\ snapshots \in Int

\* Commands, uploads and messages are of jobs that were made.
Made == {j \in Job : jobs[j].status # "absent"}
MadeInv ==
  /\ \A j \in Job \ Made : jobs[j] = AbsentJob /\ outbox[j] = "absent"
  /\ attempt # Null => attempt \in Made
  /\ starts \subseteq Made
  /\ agent.job # Null => agent.job \in Made
  /\ \A b \in batches \cup acks : b.job \in Made
  /\ tx # Null => tx.batch.job \in Made

\* Who knows what of the batches of a job: an acknowledgement is of a committed
\* batch and, when it is of the last one, says whether the job is completed; the
\* Agent uploads what follows its watermark; the batch of the transaction under
\* way is the next one.
AckInv ==
  /\ AckedIsCommitted
  /\ \A j \in Job : jobs[j].status = "completed" => jobs[j].checksum[3] = TRUE
  /\ \A b \in acks : /\ b.no <= jobs[b.job].last
                     /\ b.no = jobs[b.job].last /\ jobs[b.job].status = "completed" => b.done
  /\ \A j \in Job : watermark[j].last = jobs[j].last /\ jobs[j].status = "completed"
                      => watermark[j].done
  /\ agent.job # Null => /\ agent.no = watermark[agent.job].last + 1
                         /\ ~ watermark[agent.job].done
  /\ \A b \in batches : /\ b.no <= watermark[b.job].last + 1
                        /\ watermark[b.job].done => b.no <= watermark[b.job].last
  /\ tx # Null => /\ tx.batch.no = jobs[tx.batch.job].last + 1
                  /\ jobs[tx.batch.job].status # "completed"

\* The Session a CreateRun holds is not one the transaction under way archives.
HeldInv ==
  /\ ActiveSessionVisible
  /\ creating # Null => /\ sessions[creating].run = "none"
                        /\ sessions[creating].exists
                        /\ ~ sessions[creating].archived
                        /\ ~ Locked(creating)

\* Only the newest job is not completed, and starts reach the Agent in the order
\* of the jobs.
OrderInv ==
  /\ \A j \in Made : jobs[j].created < Now
  /\ \A i, j \in Made : \/ i = j
                        \/ jobs[i].created < jobs[j].created /\ jobs[i].status = "completed"
                        \/ jobs[j].created < jobs[i].created /\ jobs[j].status = "completed"
  /\ agent.job # Null => \A i \in starts : jobs[agent.job].created <= jobs[i].created

\* On one connection the Agent uploads a job once.  What is under way of the job
\* it is at is the one batch it waits for; what is under way of another job is of
\* a completed one, to which the Agent does not return.
Sent == batches \cup acks \cup (IF tx # Null /\ tx.alive THEN {tx.batch} ELSE {})
Current(b) ==
  /\ b.snapshot = agent.snapshot /\ b.no = agent.no /\ agent.sent
  /\ b.manifest = agent.manifest
  /\ b.safe => ~ agent.resumed
  /\ b.done => agent.left = {}
Past(b) ==
  /\ jobs[b.job].status = "completed"
  /\ watermark[b.job].done \/ b.job \notin starts
Mine(b) == b.job = agent.job
AtMostOne ==
  /\ \A a, b \in acks : Mine(a) /\ Mine(b) => a = b
  /\ \A a \in acks, b \in batches : ~ (Mine(a) /\ Mine(b))
  /\ tx # Null /\ tx.alive /\ Mine(tx.batch) => \A b \in batches \cup acks : ~ Mine(b)
WireInv ==
  /\ \A b \in Sent : /\ b.done => b.item = Null
                     /\ IF Mine(b) THEN Current(b) ELSE Past(b)
  /\ AtMostOne

\* The watermark and the transaction under way, which has no item.
MarkInv ==
  /\ \A j \in Job : watermark[j].last >= -1
  /\ tx # Null => tx.batch.no <= watermark[tx.batch.job].last + 1 /\ tx.batch.item = Null

\* How far an upload that was not resumed has come: another upload of its job can
\* have committed batch 0 only.
Unresumed == agent.job # Null /\ ~ agent.resumed
NumberInv ==
  Unresumed =>
    /\ ~ agent.sent /\ agent.no > 0 => jobs[agent.job].last = agent.no - 1
    /\ \A b \in batches : Mine(b) /\ b.no > 0 => jobs[b.job].last = b.no - 1
    /\ \A b \in acks : Mine(b) => jobs[b.job].last = b.no
    /\ tx # Null /\ ~ tx.alive /\ Mine(tx.batch) => tx.batch.no = 0

\* Batch 0 holds a Project or nothing, and the Project a job committed with it was
\* written after the job was made.
FirstInv ==
  Unresumed =>
    /\ ~ agent.sent /\ agent.no = 0 =>
         /\ agent.left = agent.manifest
         /\ \A s \in agent.manifest \cap Session : ProjectOf[s] \in agent.manifest
    /\ \A b \in batches : Mine(b) /\ b.no = 0 => b.item \notin Session
ZeroInv ==
  \A j \in Made : jobs[j].last = 0 /\ jobs[j].checksum[1] \in Project
    => projects[jobs[j].checksum[1]].updated > jobs[j].created

\* A row that the final batch of snapshot n and job j leaves alone.
Fresh(x, n, j) ==
  /\ x \in Project => projects[x].seen = n \/ projects[x].updated > jobs[j].created
  /\ x \in Session => sessions[x].seen = n \/ sessions[x].updated > jobs[j].created

\* What an upload in one piece has brought, but for an item y, is fresh.
UploadedBut(y) ==
  \A x \in agent.manifest \ agent.left : x # y => Fresh(x, agent.snapshot, agent.job)
UploadInv ==
  Unresumed => /\ ~ agent.sent => UploadedBut(Null)
               /\ \A b \in acks : Mine(b) => UploadedBut(Null)
               /\ \A b \in batches : Mine(b) => UploadedBut(b.item)

\* The catalogue the transaction under way closes is fresh.
ClosedInv ==
  tx # Null => \A x \in tx.batch.manifest : Fresh(x, tx.batch.snapshot, tx.batch.job)

BootstrapInv ==
  /\ Types /\ MadeInv /\ AckInv /\ HeldInv
  /\ OrderInv /\ WireInv /\ MarkInv /\ NumberInv /\ FirstInv /\ ZeroInv
  /\ UploadInv /\ ClosedInv

-----------------------------------------------------------------------------
(* Types.                                                                  *)

\* The constants: the sets are finite and apart, Null is none of their values.
LEMMA Constants ==
  /\ ProjectOf \in [Session -> Project]
  /\ IsFiniteSet(Job) /\ IsFiniteSet(Project) /\ IsFiniteSet(Session)
  /\ Null \notin Job /\ Null \notin Session /\ Null \notin Item
  /\ \A p \in Project : p \notin Session
  BY BootstrapAssumption DEF Item

\* The number that follows the watermark is positive, or at most 0.
LEMMA NextNumber == \A n \in Int : ~ (n + 1 > 0) => n + 1 <= 0
  OBVIOUS

\* The types of the variables, one by one.
LEMMA JobsType == Types => jobs \in [Job -> JobRow]
  BY DEF Types
LEMMA ProjectsType == Types => projects \in [Project -> ProjectRow]
  BY DEF Types
LEMMA SessionsType == Types => sessions \in [Session -> SessionRow]
  BY DEF Types
LEMMA TxType == Types => tx \in Transaction \cup {Null}
  BY DEF Types
LEMMA AgentType == Types => agent \in Upload
  BY DEF Types
LEMMA WatermarkType == Types => watermark \in [Job -> [last : Int, done : BOOLEAN]]
  BY DEF Types
LEMMA WireType ==
  Types => starts \subseteq Job /\ batches \subseteq Message /\ acks \subseteq Message
  BY DEF Types

LEMMA NowType == Types => Now \in Int
  <1> SUFFICES ASSUME Types PROVE Now \in Int
    OBVIOUS
  <1>1. {j \in Job : jobs[j].status # "absent"} \in SUBSET Job
    OBVIOUS
  <1>2. \A S \in SUBSET Job : Cardinality(S) \in Nat
    BY Zenon DEF Types, Sizes
  <1>3. Cardinality({j \in Job : jobs[j].status # "absent"}) \in Nat
    BY <1>1, <1>2, Zenon
  <1> QED BY <1>3 DEF Now

\* The row of a job after one of its batches.
LEMMA JobAfterRow ==
  ASSUME Types, NEW b \in Message
  PROVE  /\ JobAfter(b) \in JobRow /\ JobAfter(b).last = b.no
         /\ JobAfter(b).status = (IF b.done THEN "completed" ELSE "running")
         /\ JobAfter(b).created = jobs[b.job].created
         /\ JobAfter(b).checksum = Checksum(b)
         /\ Checksum(b)[3] = b.done
  <1>1. b.job \in Job /\ b.no \in Int /\ b.item \in Item \cup {Null} /\ b.ended \in BOOLEAN
        /\ b.done \in BOOLEAN /\ b.safe \in BOOLEAN
    BY DEF Message
  <1>2. jobs[b.job] \in JobRow
    BY <1>1, JobsType
  <1>3. /\ Checksum(b) \in ((Item \cup {Null}) \X BOOLEAN \X BOOLEAN) \cup {Null}
        /\ Checksum(b)[3] = b.done
    BY <1>1 DEF Checksum
  <1> QED BY <1>1, <1>2, <1>3, ZenonT(30) DEF JobAfter, JobRow

\* The tables after a batch.
LEMMA ImportTypes ==
  ASSUME Types, NEW b \in Message
  PROVE  /\ ImportSessions(b) \in [Session -> SessionRow]
         /\ ImportProjects(b) \in [Project -> ProjectRow]
  <1>1. b.snapshot \in Int /\ b.ended \in BOOLEAN
    BY DEF Message
  <1>2. ASSUME NEW s \in Session
        PROVE  ImportSessions(b)[s] \in SessionRow
    <2>1. sessions[s] \in SessionRow
      BY SessionsType
    <2> QED BY <1>1, <2>1, NowType DEF ImportSessions, SessionRow
  <1>3. ImportSessions(b) = [s \in Session |-> ImportSessions(b)[s]]
    BY Zenon DEF ImportSessions
  <1>4. ImportProjects(b) \in [Project -> ProjectRow]
    BY <1>1, NowType, ProjectsType DEF ImportProjects, ProjectRow
  <1> QED BY <1>2, <1>3, <1>4, Zenon

\* The outbox after a committed batch.
LEMMA OutboxTypes ==
  ASSUME Types, NEW b \in Message
  PROVE  OutboxAfter(b) \in [Job -> {"absent", "pending", "claimed", "delivered"}]
  BY DEF Types, OutboxAfter, Message

\* At first every variable has its type.
LEMMA InitTypes == Init /\ Sizes => Types
  <1> SUFFICES ASSUME Init, Sizes PROVE Types
    OBVIOUS
  <1>1. AbsentJob \in JobRow
    BY DEF AbsentJob, JobRow
  <1>2. Resting \in Upload
    BY DEF Resting, Upload
  <1>3. sessions \in [Session -> SessionRow]
    BY DEF Init, SessionRow
  <1>4. projects \in [Project -> ProjectRow]
    BY DEF Init, ProjectRow
  <1>5. mac \subseteq Item
    BY BootstrapAssumption DEF Init, Item
  <1> QED BY <1>1, <1>2, <1>3, <1>4, <1>5 DEF Init, Types

\* At first no job exists and nothing is under way.
LEMMA BootstrapInit == Init /\ Sizes => BootstrapInv
  <1> SUFFICES ASSUME Init, Sizes PROVE BootstrapInv
    OBVIOUS
  <1>1. Types
    BY InitTypes
  <1>2. /\ \A j \in Job : jobs[j] = AbsentJob /\ outbox[j] = "absent"
        /\ \A j \in Job : watermark[j] = [last |-> -1, done |-> FALSE]
        /\ \A s \in Session : sessions[s].run = "none"
    BY DEF Init
  <1>3. /\ attempt = Null /\ creating = Null /\ tx = Null /\ agent = Resting
        /\ starts = {} /\ batches = {} /\ acks = {}
    BY Zenon DEF Init
  <1>4. AbsentJob.status = "absent" /\ AbsentJob.last = -1 /\ Resting.job = Null
    BY DEF AbsentJob, Resting
  <1>5. Made = {} /\ Sent = {} /\ agent.job = Null
    BY <1>2, <1>3, <1>4 DEF Made, Sent
  <1>6. MadeInv
    BY <1>2, <1>3, <1>5 DEF MadeInv
  <1>7. AckInv
    <2>1. \A j \in Job : /\ watermark[j].last = -1 /\ jobs[j].last = -1
                         /\ jobs[j].status # "completed"
      BY <1>2, <1>4
    <2>2. AckedIsCommitted
      BY <2>1 DEF AckedIsCommitted
    <2> QED BY <1>3, <1>4, <2>1, <2>2, Zenon DEF AckInv
  <1>8. HeldInv
    BY <1>2, <1>3 DEF HeldInv, ActiveSessionVisible
  <1>9. OrderInv /\ ZeroInv
    BY <1>5 DEF OrderInv, ZeroInv
  <1>10. WireInv
    BY <1>3, <1>5 DEF WireInv, AtMostOne
  <1>11. MarkInv
    BY <1>2, <1>3 DEF MarkInv
  <1>12. NumberInv /\ FirstInv /\ UploadInv /\ ClosedInv
    BY <1>3, <1>5 DEF NumberInv, FirstInv, UploadInv, ClosedInv, Unresumed
  <1> QED BY <1>1, <1>6, <1>7, <1>8, <1>9, <1>10, <1>11, <1>12 DEF BootstrapInv

\* Every step keeps the types.
LEMMA TypesStep ==
  ASSUME Types, [Next]_vars
  PROVE  Types'
  <1> USE DEF store, wire, world
  <1>1. CASE UNCHANGED vars
    BY <1>1 DEF Types, vars
  <1>2. ASSUME NEW j \in Job, CreateSyncJob(j)
        PROVE  Types'
    <2> DEFINE row == [AbsentJob EXCEPT !.status = "queued", !.created = Now]
    <2>1. row \in JobRow
      <3>1. ASSUME NEW r \in JobRow, NEW n \in Int
            PROVE  [r EXCEPT !.status = "queued", !.created = n] \in JobRow
        BY Zenon DEF JobRow
      <3>2. AbsentJob \in JobRow
        BY DEF AbsentJob, JobRow
      <3> QED BY <3>1, <3>2, NowType, Zenon
    <2>2. jobs' = [jobs EXCEPT ![j] = row] /\ outbox' = [outbox EXCEPT ![j] = "pending"]
      BY <1>2, Zenon DEF CreateSyncJob
    <2> HIDE DEF row
    <2>3. jobs' \in [Job -> JobRow]
      BY <2>1, <2>2, JobsType, Zenon
    <2> QED BY <1>2, <2>2, <2>3, SMTT(20) DEF CreateSyncJob, Types
  <1>3. ASSUME NEW s \in Session,
               CreateSession(s) \/ CreateRun(s) \/ TurnStarted(s) \/ TurnEnded(s)
        PROVE  Types'
    <2>1. sessions[s] \in SessionRow
      BY SessionsType
    <2>2. ASSUME NEW row \in SessionRow
          PROVE  [sessions EXCEPT ![s] = row] \in [Session -> SessionRow]
      BY SessionsType, Zenon
    <2>3. CASE CreateSession(s)
      <3> DEFINE row == [exists |-> TRUE, thread |-> FALSE, archived |-> FALSE,
                         seen |-> 0, updated |-> Now, run |-> "none"]
      <3>1. row \in SessionRow
        BY NowType DEF SessionRow
      <3>2. sessions' = [sessions EXCEPT ![s] = row]
        BY <2>3, Zenon DEF CreateSession
      <3>3. sessions' \in [Session -> SessionRow]
        BY <2>2, <3>1, <3>2
      <3> QED BY <2>3, <3>3 DEF CreateSession, Types
    <2>4. CASE CreateRun(s)
      <3> DEFINE row == [sessions[s] EXCEPT !.run = "active", !.updated = Now]
      <3>1. row \in SessionRow
        BY <2>1, NowType, Zenon DEF SessionRow
      <3>2. sessions' = [sessions EXCEPT ![s] = row]
        BY <2>4, SessionsType, Zenon DEF CreateRun
      <3>3. sessions' \in [Session -> SessionRow]
        BY <2>2, <3>1, <3>2
      <3> QED BY <2>4, <3>3 DEF CreateRun, Types
    <2>5. CASE TurnStarted(s)
      <3> DEFINE row == [sessions[s] EXCEPT !.thread = TRUE, !.updated = Now]
      <3>1. row \in SessionRow
        BY <2>1, NowType, Zenon DEF SessionRow
      <3>2. sessions' = [sessions EXCEPT ![s] = row]
        BY <2>5, SessionsType, Zenon DEF TurnStarted
      <3>3. sessions' \in [Session -> SessionRow]
        BY <2>2, <3>1, <3>2
      <3> QED BY <2>5, <3>3 DEF TurnStarted, Types, Item
    <2>6. CASE TurnEnded(s)
      <3> DEFINE row == [sessions[s] EXCEPT !.run = "ended", !.updated = Now]
      <3>1. row \in SessionRow
        BY <2>1, NowType, Zenon DEF SessionRow
      <3>2. sessions' = [sessions EXCEPT ![s] = row]
        BY <2>6, SessionsType, Zenon DEF TurnEnded
      <3>3. sessions' \in [Session -> SessionRow]
        BY <2>2, <3>1, <3>2
      <3> QED BY <2>6, <3>3 DEF TurnEnded, Types
    <2> QED BY <1>3, <2>3, <2>4, <2>5, <2>6
  <1>4. ASSUME NEW s \in Session, LockForRun(s) \/ CreateRunFails(s) \/ FinishTurn(s)
        PROVE  Types'
    BY <1>4 DEF LockForRun, CreateRunFails, FinishTurn, Types
  <1>5. ASSUME NEW j \in Job, ClaimCommands(j) \/ sendCommand(j) \/ ReleaseCommand(j)
        PROVE  Types'
    BY <1>5 DEF ClaimCommands, sendCommand, ReleaseCommand, Types
  <1>6. ASSUME NEW j \in starts, ReceiveStart(j)
        PROVE  Types'
    <2>1. UNCHANGED <<agent, snapshots>> \/ (agent' \in Upload /\ snapshots' \in Int)
      <3>1. Catalogue \in SUBSET Item /\ snapshots \in Int /\ j \in Job
        BY DEF Catalogue, Types
      <3>2. watermark[j].last \in Int
        BY <3>1, WatermarkType
      <3>3. CASE agent.job = j \/ watermark[j].done
        BY <1>6, <3>3 DEF ReceiveStart
      <3>4. CASE ~ (agent.job = j \/ watermark[j].done)
        <4>1. PICK skip \in SUBSET Catalogue :
                /\ snapshots' = snapshots + 1
                /\ agent' = [job |-> j, snapshot |-> snapshots + 1, manifest |-> Catalogue,
                             left |-> Catalogue \ skip, no |-> watermark[j].last + 1,
                             resumed |-> watermark[j].last + 1 > 0, sent |-> FALSE]
          BY <1>6, <3>4, Zenon DEF ReceiveStart
        <4> QED BY <3>1, <3>2, <4>1 DEF Upload
      <3> QED BY <3>3, <3>4
    <2> QED BY <1>6, <2>1 DEF ReceiveStart, Types
  <1>7. CASE SendBatch
    <2>1. PICK x \in agent.left \cup {Null} :
            batches' = {Batch(x)} /\ agent' = [agent EXCEPT !.sent = TRUE, !.left = @ \ {x}]
      BY <1>7, Zenon DEF SendBatch
    <2>2. agent \in Upload /\ agent.job # Null
      BY <1>7, AgentType DEF SendBatch
    <2>3. x \in Item \cup {Null}
      BY <2>2 DEF Upload
    <2>4. Batch(x) \in Message
      BY <2>2, <2>3 DEF Batch, Message, Upload
    <2>5. agent' \in Upload
      BY <2>1, <2>2, Zenon DEF Upload
    <2> QED BY <1>7, <2>1, <2>4, <2>5, Zenon DEF SendBatch, Types
  <1>8. ASSUME NEW b \in acks, ReceiveAck(b)
        PROVE  Types'
    <2>1. b.job \in Job /\ b.no \in Int /\ b.done \in BOOLEAN
      BY WireType DEF Message
    <2>2. Resting \in Upload
      BY DEF Resting, Upload
    <2>3. [agent EXCEPT !.no = @ + 1, !.sent = FALSE] \in Upload
      <3>1. ASSUME NEW u \in Upload, NEW n \in Int
            PROVE  [u EXCEPT !.no = n, !.sent = FALSE] \in Upload
        BY Zenon DEF Upload
      <3>2. agent \in Upload /\ agent.no + 1 \in Int
        BY AgentType DEF Upload
      <3> QED BY <3>1, <3>2, Zenon
    <2>4. [watermark EXCEPT ![b.job] = [last |-> b.no, done |-> b.done]] \in
            [Job -> [last : Int, done : BOOLEAN]]
      BY <2>1, WatermarkType
    <2>5. agent' \in Upload /\ watermark' \in [Job -> [last : Int, done : BOOLEAN]]
      BY <1>8, <2>2, <2>3, <2>4, AgentType, WatermarkType, Zenon DEF ReceiveAck
    <2> QED BY <1>8, <2>5 DEF ReceiveAck, Types
  <1>9. ASSUME NEW x \in Item, MacChanges(x)
        PROVE  Types'
    BY <1>9 DEF MacChanges, Types
  <1>10. CASE Drop
    <2>1. Resting \in Upload
      BY DEF Resting, Upload
    <2>2. tx' \in Transaction \cup {Null}
      <3>1. tx # Null => [tx EXCEPT !.alive = FALSE] \in Transaction
        BY TxType, Zenon DEF Transaction
      <3> QED BY <1>10, <3>1 DEF Drop
    <2> QED BY <1>10, <2>1, <2>2 DEF Drop, Types
  <1>11. CASE UpsertProjects
    <2>1. ASSUME NEW p \in Project
          PROVE  [projects[p] EXCEPT !.archived = FALSE, !.updated = Now] \in ProjectRow
      BY ProjectsType, NowType, Zenon DEF ProjectRow
    <2>2. projects' \in [Project -> ProjectRow]
      BY <1>11, <2>1, ProjectsType, Zenon DEF UpsertProjects
    <2> QED BY <1>11, <2>2, Zenon DEF UpsertProjects, Types
  <1>12. ASSUME NEW b \in batches, Reject(b) \/ Replay(b)
         PROVE  Types'
    BY <1>12, WireType, OutboxTypes DEF Reject, Replay, Types
  <1>13. ASSUME NEW b \in batches, ApplyBootstrapBatch(b)
         PROVE  Types'
    <2>1. b \in Message /\ b.job \in Job
      BY WireType DEF Message
    <2>2. jobs' \in [Job -> JobRow]
      BY <1>13, <2>1, JobsType, JobAfterRow DEF ApplyBootstrapBatch
    <2>3. sessions' \in [Session -> SessionRow] /\ projects' \in [Project -> ProjectRow]
      BY <1>13, <2>1, ImportTypes DEF ApplyBootstrapBatch
    <2>4. outbox' \in [Job -> {"absent", "pending", "claimed", "delivered"}]
      BY <1>13, <2>1, OutboxTypes DEF ApplyBootstrapBatch
    <2> QED BY <1>13, <2>1, <2>2, <2>3, <2>4 DEF ApplyBootstrapBatch, Types
  <1>14. ASSUME NEW b \in batches, BeginReconciliation(b)
         PROVE  Types'
    <2>1. b \in Message
      BY WireType
    <2>2. ActiveProjects \subseteq Project
      BY Constants DEF ActiveProjects
    <2>3. tx' \in Transaction
      BY <1>14, <2>1, <2>2, SMTT(20) DEF BeginReconciliation, Transaction
    <2> QED BY <1>14, <2>3 DEF BeginReconciliation, Types
  <1>15. CASE CommitReconciliation
    <2>1. tx.batch \in Message /\ tx.batch.job \in Job
      BY <1>15, TxType, ZenonT(30) DEF CommitReconciliation, Transaction, Message
    <2>2. jobs' \in [Job -> JobRow]
      BY <1>15, <2>1, JobsType, JobAfterRow, Zenon DEF CommitReconciliation
    <2>3. sessions' \in [Session -> SessionRow]
      <3>1. ASSUME NEW s \in Session
            PROVE  [sessions[s] EXCEPT !.archived = @ \/ StaleSession(sessions[s], tx.batch)]
                     \in SessionRow
        BY SessionsType, ZenonT(30) DEF SessionRow
      <3> QED BY <1>15, <3>1, Zenon DEF CommitReconciliation
    <2>4. outbox' \in [Job -> {"absent", "pending", "claimed", "delivered"}]
      BY <1>15, <2>1, OutboxTypes, Zenon DEF CommitReconciliation
    <2>5. acks' \subseteq Message
      BY <1>15, <2>1, WireType, Zenon DEF CommitReconciliation
    <2>6. projects' \in [Project -> ProjectRow]
      <3>1. ASSUME NEW p \in Project, NEW a \in BOOLEAN, NEW n \in Int
            PROVE  [projects[p] EXCEPT !.archived = a, !.updated = n] \in ProjectRow
        BY ProjectsType, Zenon DEF ProjectRow
      <3>2. ASSUME NEW p \in Project
            PROVE  /\ (projects[p].archived \/ StaleProject(p)) \in BOOLEAN
                   /\ (IF StaleProject(p) THEN Now ELSE projects[p].updated) \in Int
        BY ProjectsType, NowType DEF ProjectRow
      <3>3. ASSUME NEW p \in Project
            PROVE  [projects[p] EXCEPT !.archived = @ \/ StaleProject(p),
                      !.updated = IF StaleProject(p) THEN Now ELSE @] \in ProjectRow
        BY <3>1, <3>2, Zenon
      <3> QED BY <1>15, <3>3, Zenon DEF CommitReconciliation
    <2> QED BY <1>15, <2>2, <2>3, <2>4, <2>5, <2>6, ZenonT(30) DEF CommitReconciliation, Types
  <1>16. CASE AbortReconciliation
    BY <1>16 DEF AbortReconciliation, Types
  <1> QED BY <1>1, <1>2, <1>3, <1>4, <1>5, <1>6, <1>7, <1>8, <1>9, <1>10, <1>11, <1>12, <1>13,
             <1>14, <1>15, <1>16, Zenon DEF Next

-----------------------------------------------------------------------------
(* Which jobs were made.                                                   *)

\* Every step keeps what is under way to the jobs that were made.
LEMMA MadeStep ==
  ASSUME Types, MadeInv, [Next]_vars
  PROVE  MadeInv'
  <1> USE DEF store, wire, world
  <1>0. ASSUME jobs' = jobs, outbox' = outbox
        PROVE  Made' = Made /\ \A j \in Job \ Made' : jobs'[j] = AbsentJob /\ outbox'[j] = "absent"
    BY <1>0 DEF Made, MadeInv
  <1>1. CASE UNCHANGED vars
    BY <1>1 DEF MadeInv, Made, vars
  <1>2. ASSUME NEW j \in Job, CreateSyncJob(j)
        PROVE  MadeInv'
    <2> DEFINE row == [AbsentJob EXCEPT !.status = "queued", !.created = Now]
    <2>1. row.status = "queued"
      BY DEF AbsentJob
    <2>2. /\ jobs' = [jobs EXCEPT ![j] = row] /\ outbox' = [outbox EXCEPT ![j] = "pending"]
          /\ UNCHANGED <<attempt, tx, agent, starts, batches, acks>>
      BY <1>2, Zenon DEF CreateSyncJob
    <2> HIDE DEF row
    <2>3. /\ jobs'[j].status # "absent"
          /\ outbox \in [Job -> {"absent", "pending", "claimed", "delivered"}]
          /\ \A i \in Job \ {j} : jobs'[i] = jobs[i] /\ outbox'[i] = outbox[i]
      BY <2>1, <2>2, JobsType DEF Types
    <2>4. Made \subseteq Made' /\ j \in Made' /\ \A i \in Job \ Made' : i # j /\ i \notin Made
      BY <2>3 DEF Made
    <2> QED BY <2>2, <2>3, <2>4 DEF MadeInv
  <1>3. ASSUME NEW s \in Session,
               \/ CreateSession(s) \/ CreateRun(s) \/ TurnStarted(s) \/ TurnEnded(s)
               \/ LockForRun(s) \/ CreateRunFails(s) \/ FinishTurn(s)
        PROVE  MadeInv'
    <2>1. UNCHANGED <<jobs, outbox, attempt, tx, agent, starts, batches, acks>>
      BY <1>3, Zenon DEF CreateSession, CreateRun, TurnStarted, TurnEnded, LockForRun,
         CreateRunFails, FinishTurn
    <2> QED BY <2>1 DEF MadeInv, Made
  <1>4. ASSUME NEW j \in Job, ClaimCommands(j) \/ sendCommand(j) \/ ReleaseCommand(j)
        PROVE  MadeInv'
    <2>1. j \in Made
      BY <1>4, Constants DEF ClaimCommands, sendCommand, ReleaseCommand, MadeInv, Made
    <2>2. /\ UNCHANGED <<jobs, tx, agent, batches, acks>> /\ attempt' \in {j, Null}
          /\ starts' \subseteq starts \cup {j}
      BY <1>4 DEF ClaimCommands, sendCommand, ReleaseCommand
    <2>3. \A i \in Job \ {j} : outbox'[i] = outbox[i]
      BY <1>4 DEF ClaimCommands, sendCommand, ReleaseCommand, Types
    <2>4. Made' = Made
      BY <2>2 DEF Made
    <2> QED BY <2>1, <2>2, <2>3, <2>4 DEF MadeInv
  <1>5. ASSUME NEW j \in starts, ReceiveStart(j)
        PROVE  MadeInv'
    <2>1. /\ UNCHANGED <<jobs, outbox, attempt, tx, batches, acks>> /\ starts' \subseteq starts
      BY <1>5 DEF ReceiveStart
    <2>2. agent' = agent \/ agent'.job = j
      BY <1>5 DEF ReceiveStart
    <2> QED BY <1>0, <2>1, <2>2 DEF MadeInv
  <1>6. CASE SendBatch
    <2>1. PICK x \in agent.left \cup {Null} :
            batches' = {Batch(x)} /\ agent' = [agent EXCEPT !.sent = TRUE, !.left = @ \ {x}]
      BY <1>6, Zenon DEF SendBatch
    <2>2. agent'.job = agent.job /\ Batch(x).job = agent.job /\ agent.job # Null
      BY <1>6, <2>1, AgentType DEF SendBatch, Batch, Upload
    <2>3. UNCHANGED <<jobs, outbox, attempt, tx, starts, acks>>
      BY <1>6 DEF SendBatch
    <2> QED BY <1>0, <2>1, <2>2, <2>3 DEF MadeInv
  <1>7. ASSUME NEW b \in acks, ReceiveAck(b)
        PROVE  MadeInv'
    <2>1. UNCHANGED <<jobs, outbox, attempt, tx, starts, batches>> /\ acks' \subseteq acks
      BY <1>7 DEF ReceiveAck
    <2>2. agent'.job = agent.job \/ agent'.job = Null
      <3>1. \A u \in Upload : [u EXCEPT !.no = u.no + 1, !.sent = FALSE].job = u.job
        BY DEF Upload
      <3>2. \/ agent' = agent \/ agent' = Resting
            \/ agent' = [agent EXCEPT !.no = agent.no + 1, !.sent = FALSE]
        BY <1>7 DEF ReceiveAck
      <3>3. Resting.job = Null
        BY DEF Resting
      <3> QED BY <3>1, <3>2, <3>3, AgentType, Zenon
    <2> QED BY <1>0, <2>1, <2>2 DEF MadeInv
  <1>8. ASSUME NEW x \in Item, MacChanges(x)
        PROVE  MadeInv'
    BY <1>8 DEF MacChanges, MadeInv, Made
  <1>9. CASE Drop
    <2>1. /\ UNCHANGED <<jobs, outbox, attempt>> /\ starts' = {} /\ batches' = {} /\ acks' = {}
          /\ agent'.job = Null
      BY <1>9 DEF Drop, Resting
    <2>2. tx' # Null => tx # Null /\ tx'.batch = tx.batch
      <3>1. \A t \in Transaction : [t EXCEPT !.alive = FALSE].batch = t.batch
        BY DEF Transaction
      <3>2. /\ tx # Null => tx \in Transaction
            /\ \/ tx = Null /\ tx' = Null
               \/ tx # Null /\ tx' = [tx EXCEPT !.alive = FALSE]
        BY <1>9, TxType DEF Drop
      <3> QED BY <3>1, <3>2, Zenon
    <2> QED BY <1>0, <2>1, <2>2 DEF MadeInv
  <1>10. CASE UpsertProjects \/ AbortReconciliation
    BY <1>10, Zenon DEF UpsertProjects, AbortReconciliation, MadeInv, Made
  <1>11. ASSUME NEW b \in batches, Reject(b) \/ Replay(b) \/ BeginReconciliation(b)
         PROVE  MadeInv'
    <2>1. b.job \in Made
      BY DEF MadeInv
    <2>2. /\ UNCHANGED <<jobs, attempt, agent, starts>> /\ batches' = {}
          /\ acks' \subseteq acks \cup {b} /\ (tx' # Null => tx'.batch = b)
      BY <1>11 DEF Reject, Replay, BeginReconciliation
    <2>3. \A i \in Job \ {b.job} : outbox'[i] = outbox[i]
      BY <1>11 DEF Reject, Replay, BeginReconciliation, OutboxAfter, Types
    <2>4. Made' = Made
      BY <2>2 DEF Made
    <2> QED BY <2>1, <2>2, <2>3, <2>4 DEF MadeInv
  <1>12. ASSUME NEW b \in Message, b.job \in Made,
                jobs' = [jobs EXCEPT ![b.job] = JobAfter(b)], outbox' = OutboxAfter(b),
                UNCHANGED <<attempt, agent, starts>>, batches' \subseteq batches,
                acks' \subseteq acks \cup {b}, tx' = Null
         PROVE  MadeInv'
    <2>1. \A i \in Job \ {b.job} : jobs'[i] = jobs[i] /\ outbox'[i] = outbox[i]
      BY <1>12, JobsType DEF OutboxAfter, Types
    <2>2. jobs'[b.job].status # "absent" /\ b.job \in Job
      BY <1>12, JobsType, JobAfterRow DEF Made
    <2>3. Made' = Made
      BY <1>12, <2>1, <2>2 DEF Made
    <2> QED BY <1>12, <2>1, <2>2, <2>3 DEF MadeInv
  <1>13. ASSUME NEW b \in batches, ApplyBootstrapBatch(b)
         PROVE  MadeInv'
    <2>1. b \in Message /\ b.job \in Made
      BY WireType DEF MadeInv
    <2> QED BY <1>12, <1>13, <2>1, ZenonT(30) DEF ApplyBootstrapBatch
  <1>14. CASE CommitReconciliation
    <2>1. tx.batch \in Message /\ tx.batch.job \in Made
      BY <1>14, TxType, Zenon DEF CommitReconciliation, Transaction, MadeInv
    <2> QED BY <1>12, <1>14, <2>1, Zenon DEF CommitReconciliation
  <1> QED BY <1>1, <1>2, <1>3, <1>4, <1>5, <1>6, <1>7, <1>8, <1>9, <1>10, <1>11, <1>13, <1>14,
             Zenon DEF Next

-----------------------------------------------------------------------------
(* What is acknowledged.                                                   *)

\* Steps that neither commit nor acknowledge.
LEMMA NothingAcked ==
  ASSUME AckInv, UNCHANGED <<jobs, watermark>>,
         agent' = agent \/ agent'.job = Null,
         batches' \subseteq batches, acks' \subseteq acks,
         tx' # Null => tx # Null /\ tx'.batch = tx.batch
  PROVE  AckInv'
  BY DEF AckInv, AckedIsCommitted

\* A batch that may be taken is not of a completed job.
LEMMA NextIsOpen ==
  ASSUME Types, AckInv, NEW b \in batches, IsNext(b)
  PROVE  b.no = jobs[b.job].last + 1 /\ jobs[b.job].status # "completed"
  <1>1. b.job \in Job /\ b.no \in Int
    BY WireType DEF Message
  <1>2. jobs[b.job].last \in Int /\ watermark[b.job].last \in Int
    BY <1>1, JobsType, WatermarkType DEF JobRow
  <1>3. b.no = jobs[b.job].last + 1
    BY DEF IsNext
  <1>4. /\ watermark[b.job].last <= jobs[b.job].last
        /\ b.no <= watermark[b.job].last + 1
        /\ watermark[b.job].done => b.no <= watermark[b.job].last
        /\ watermark[b.job].last = jobs[b.job].last /\ jobs[b.job].status = "completed"
             => watermark[b.job].done
    BY <1>1 DEF AckInv, AckedIsCommitted
  <1> QED BY <1>2, <1>3, <1>4

\* A batch is committed: the next one of a job that is not completed.
LEMMA CommitAcks ==
  ASSUME Types, AckInv, NEW b \in Message,
         b.no = jobs[b.job].last + 1, jobs[b.job].status # "completed",
         jobs' = [jobs EXCEPT ![b.job] = JobAfter(b)], UNCHANGED <<watermark, agent>>,
         batches' \subseteq batches, acks' \subseteq acks \cup {b}, tx' = Null
  PROVE  AckInv'
  <1>1. b.job \in Job /\ b.no \in Int
    BY DEF Message
  <1>2. /\ jobs'[b.job].last = b.no /\ jobs'[b.job].checksum[3] = b.done
        /\ jobs'[b.job].status = (IF b.done THEN "completed" ELSE "running")
        /\ \A j \in Job \ {b.job} : jobs'[j] = jobs[j]
    BY <1>1, JobsType, JobAfterRow
  <1>3. \A j \in Job : jobs[j].last \in Int /\ watermark[j].last \in Int
    BY JobsType, WatermarkType DEF JobRow
  <1>4. \A a \in acks : a.job \in Job /\ a.no \in Int
    BY WireType DEF Message
  <1>5. AckedIsCommitted'
    BY <1>1, <1>2, <1>3 DEF AckInv, AckedIsCommitted
  <1>6. \A j \in Job : jobs'[j].status = "completed" => jobs'[j].checksum[3] = TRUE
    <2>1. b.done \in BOOLEAN
      BY DEF Message
    <2> QED BY <1>1, <1>2, <2>1 DEF AckInv
  <1>7. ASSUME NEW a \in acks'
        PROVE  /\ a.no <= jobs'[a.job].last
               /\ a.no = jobs'[a.job].last /\ jobs'[a.job].status = "completed" => a.done
    <2>1. CASE a = b
      BY <1>1, <1>2, <2>1
    <2>2. CASE a # b
      <3>1. a \in acks /\ a.job \in Job /\ a.no \in Int
        BY <1>4, <2>2
      <3>2. CASE a.job = b.job
        <4>1. a.no <= jobs[b.job].last
          BY <3>1, <3>2 DEF AckInv
        <4>2. a.no < jobs'[a.job].last
          BY <1>1, <1>2, <1>3, <3>1, <3>2, <4>1
        <4> QED BY <1>1, <1>2, <3>1, <3>2, <4>2
      <3>3. CASE a.job # b.job
        BY <1>2, <3>1, <3>3 DEF AckInv
      <3> QED BY <3>2, <3>3
    <2> QED BY <2>1, <2>2
  <1>8. \A j \in Job : watermark[j].last = jobs'[j].last /\ jobs'[j].status = "completed"
                         => watermark[j].done
    BY <1>1, <1>2, <1>3 DEF AckInv, AckedIsCommitted
  <1> QED BY <1>5, <1>6, <1>7, <1>8 DEF AckInv

\* The Agent learns that a batch is durable.
LEMMA AckReceived ==
  ASSUME Types, AckInv, NEW b \in acks, ReceiveAck(b)
  PROVE  AckInv'
  <1>1. b.job \in Job /\ b.no \in Int /\ b.done \in BOOLEAN
    BY WireType DEF Message
  <1>2. UNCHANGED <<jobs, tx, batches>> /\ acks' \subseteq acks
    BY DEF ReceiveAck, store
  <1>3. CASE ~ (b.job = agent.job /\ b.no = agent.no)
    <2>1. UNCHANGED <<watermark, agent>>
      BY <1>3 DEF ReceiveAck
    <2> QED BY <1>2, <2>1, NothingAcked
  <1>4. CASE b.job = agent.job /\ b.no = agent.no
    <2>1. /\ watermark' = [watermark EXCEPT ![b.job] = [last |-> b.no, done |-> b.done]]
          /\ agent' = IF b.done THEN Resting ELSE [agent EXCEPT !.no = agent.no + 1, !.sent = FALSE]
      BY <1>4 DEF ReceiveAck
    <2>2. /\ watermark'[b.job].last = b.no /\ watermark'[b.job].done = b.done
          /\ \A j \in Job \ {b.job} : watermark'[j] = watermark[j]
      BY <1>1, <2>1, WatermarkType
    <2>3. \A j \in Job : jobs[j].last \in Int /\ watermark[j].last \in Int
      BY JobsType, WatermarkType DEF JobRow
    <2>4. b.no = watermark[b.job].last + 1
      BY <1>1, <1>4, Constants DEF AckInv
    <2>5. AckedIsCommitted'
      BY <1>1, <1>2, <2>2 DEF AckInv, AckedIsCommitted
    <2>6. \A j \in Job : watermark'[j].last = jobs[j].last /\ jobs[j].status = "completed"
                           => watermark'[j].done
      BY <1>1, <2>2 DEF AckInv
    <2>7. agent'.job # Null => /\ agent'.no = watermark'[agent'.job].last + 1
                               /\ ~ watermark'[agent'.job].done
      <3>1. CASE b.done
        BY <2>1, <3>1 DEF Resting
      <3>2. CASE ~ b.done
        <4>1. \A u \in Upload : /\ [u EXCEPT !.no = u.no + 1, !.sent = FALSE].job = u.job
                                /\ [u EXCEPT !.no = u.no + 1, !.sent = FALSE].no = u.no + 1
          BY DEF Upload
        <4>2. agent'.job = b.job /\ agent'.no = b.no + 1
          BY <1>4, <2>1, <3>2, <4>1, AgentType
        <4> QED BY <2>2, <3>2, <4>2
      <3> QED BY <3>1, <3>2
    <2>8. ASSUME NEW m \in batches
          PROVE  /\ m.no <= watermark'[m.job].last + 1
                 /\ watermark'[m.job].done => m.no <= watermark'[m.job].last
      <3>1. m.job \in Job /\ m.no \in Int
        BY WireType DEF Message
      <3>2. /\ m.no <= watermark[m.job].last + 1
            /\ watermark[m.job].done => m.no <= watermark[m.job].last
        BY DEF AckInv
      <3>3. CASE m.job = b.job
        BY <1>1, <2>2, <2>3, <2>4, <3>1, <3>2, <3>3
      <3>4. CASE m.job # b.job
        BY <2>2, <3>1, <3>2, <3>4
      <3> QED BY <3>3, <3>4
    <2> QED BY <1>2, <2>5, <2>6, <2>7, <2>8 DEF AckInv
  <1> QED BY <1>3, <1>4

\* Every step keeps the numbers of batches, acknowledgements and watermarks.
LEMMA AckStep ==
  ASSUME Types, MadeInv, AckInv, [Next]_vars
  PROVE  AckInv'
  <1> USE DEF store, wire, world
  <1>1. CASE UNCHANGED vars
    BY <1>1, NothingAcked DEF vars
  <1>2. ASSUME NEW j \in Job, CreateSyncJob(j)
        PROVE  AckInv'
    <2> DEFINE row == [AbsentJob EXCEPT !.status = "queued", !.created = Now]
    <2>1. row.status = "queued" /\ row.last = -1
      BY DEF AbsentJob
    <2>2. /\ jobs[j].status = "absent" /\ jobs' = [jobs EXCEPT ![j] = row]
          /\ UNCHANGED <<watermark, tx, agent, batches, acks>>
      BY <1>2, Zenon DEF CreateSyncJob
    <2> HIDE DEF row
    <2>3. /\ j \notin Made /\ jobs[j].last = -1
      BY <2>2 DEF MadeInv, Made, AbsentJob
    <2>4. /\ jobs'[j].status = "queued" /\ jobs'[j].last = jobs[j].last
          /\ \A i \in Job \ {j} : jobs'[i] = jobs[i]
      BY <2>1, <2>2, <2>3, JobsType
    <2>5. (\A b \in acks : b.job \in Job \ {j}) /\ (tx # Null => tx.batch.job \in Job \ {j})
      BY <2>3 DEF MadeInv, Made
    <2>6. AckedIsCommitted'
      BY <2>2, <2>4 DEF AckInv, AckedIsCommitted
    <2> QED BY <2>2, <2>4, <2>5, <2>6 DEF AckInv
  <1>3. ASSUME NEW s \in Session,
               \/ CreateSession(s) \/ CreateRun(s) \/ TurnStarted(s) \/ TurnEnded(s)
               \/ LockForRun(s) \/ CreateRunFails(s) \/ FinishTurn(s)
        PROVE  AckInv'
    <2>1. UNCHANGED <<jobs, watermark, tx, agent, batches, acks>>
      BY <1>3, Zenon DEF CreateSession, CreateRun, TurnStarted, TurnEnded, LockForRun,
         CreateRunFails, FinishTurn
    <2> QED BY <2>1, NothingAcked
  <1>4. ASSUME NEW j \in Job, ClaimCommands(j) \/ sendCommand(j) \/ ReleaseCommand(j)
        PROVE  AckInv'
    <2>1. UNCHANGED <<jobs, watermark, tx, agent, batches, acks>>
      BY <1>4, Zenon DEF ClaimCommands, sendCommand, ReleaseCommand
    <2> QED BY <2>1, NothingAcked
  <1>5. ASSUME NEW j \in starts, ReceiveStart(j)
        PROVE  AckInv'
    <2>1. UNCHANGED <<jobs, watermark, tx, batches, acks>> /\ j \in Job
      BY <1>5, WireType DEF ReceiveStart
    <2>2. \/ agent' = agent
          \/ agent'.job = j /\ agent'.no = watermark[j].last + 1 /\ ~ watermark[j].done
      BY <1>5 DEF ReceiveStart
    <2>3. CASE agent' = agent
      BY <2>1, <2>3, NothingAcked
    <2>4. CASE agent'.job = j /\ agent'.no = watermark[j].last + 1 /\ ~ watermark[j].done
      BY <2>1, <2>4, SMTT(20) DEF AckInv, AckedIsCommitted
    <2> QED BY <2>2, <2>3, <2>4
  <1>6. CASE SendBatch
    <2>1. PICK x \in agent.left \cup {Null} :
            batches' = {Batch(x)} /\ agent' = [agent EXCEPT !.sent = TRUE, !.left = @ \ {x}]
      BY <1>6, Zenon DEF SendBatch
    <2>2. /\ UNCHANGED <<jobs, watermark, tx, acks>> /\ agent.job # Null
      BY <1>6 DEF SendBatch
    <2>3. agent'.job = agent.job /\ agent'.no = agent.no
      BY <2>1, AgentType DEF Upload
    <2>4. Batch(x).job = agent.job /\ Batch(x).no = agent.no
      BY DEF Batch
    <2>5. agent.job \in Job /\ watermark[agent.job].last \in Int
      BY <2>2, AgentType, WatermarkType DEF Upload
    <2>6. agent.no = watermark[agent.job].last + 1 /\ ~ watermark[agent.job].done
      BY <2>2 DEF AckInv
    <2>7. \A b \in batches' : /\ b.no <= watermark[b.job].last + 1
                              /\ watermark[b.job].done => b.no <= watermark[b.job].last
      BY <2>1, <2>4, <2>5, <2>6
    <2> QED BY <2>2, <2>3, <2>7 DEF AckInv, AckedIsCommitted
  <1>7. ASSUME NEW x \in Item, MacChanges(x)
        PROVE  AckInv'
    BY <1>7, NothingAcked DEF MacChanges
  <1>8. CASE Drop
    <2>1. /\ UNCHANGED <<jobs, watermark>> /\ batches' = {} /\ acks' = {} /\ agent'.job = Null
      BY <1>8 DEF Drop, Resting
    <2>2. tx' # Null => tx # Null /\ tx'.batch = tx.batch
      <3>1. \A t \in Transaction : [t EXCEPT !.alive = FALSE].batch = t.batch
        BY DEF Transaction
      <3>2. /\ tx # Null => tx \in Transaction
            /\ \/ tx = Null /\ tx' = Null
               \/ tx # Null /\ tx' = [tx EXCEPT !.alive = FALSE]
        BY <1>8, TxType DEF Drop
      <3> QED BY <3>1, <3>2, Zenon
    <2> QED BY <2>1, <2>2, NothingAcked
  <1>9. CASE UpsertProjects \/ AbortReconciliation
    BY <1>9, NothingAcked, Zenon DEF UpsertProjects, AbortReconciliation
  <1>10. ASSUME NEW b \in batches, Reject(b)
         PROVE  AckInv'
    BY <1>10, NothingAcked DEF Reject
  <1>11. ASSUME NEW b \in batches, Replay(b)
         PROVE  AckInv'
    <2>1. /\ UNCHANGED <<jobs, watermark, agent, tx>> /\ batches' = {} /\ acks' = acks \cup {b}
          /\ b.no = jobs[b.job].last /\ Checksum(b) = jobs[b.job].checksum
      BY <1>11 DEF Replay, Replayed
    <2>2. b.job \in Job /\ b.no \in Int /\ Checksum(b)[3] = b.done
      BY WireType, JobAfterRow DEF Message
    <2>3. b.no <= jobs[b.job].last /\ (jobs[b.job].status = "completed" => b.done)
      BY <2>1, <2>2 DEF AckInv
    <2> QED BY <2>1, <2>3 DEF AckInv, AckedIsCommitted
  <1>12. ASSUME NEW b \in batches, ApplyBootstrapBatch(b)
         PROVE  AckInv'
    <2>1. b \in Message /\ b.no = jobs[b.job].last + 1 /\ jobs[b.job].status # "completed"
      BY <1>12, WireType, NextIsOpen DEF ApplyBootstrapBatch
    <2>2. /\ jobs' = [jobs EXCEPT ![b.job] = JobAfter(b)] /\ UNCHANGED <<watermark, agent>>
          /\ batches' \subseteq batches /\ acks' \subseteq acks \cup {b} /\ tx' = Null
      BY <1>12, Zenon DEF ApplyBootstrapBatch
    <2> QED BY <2>1, <2>2, CommitAcks, Zenon
  <1>13. ASSUME NEW b \in batches, BeginReconciliation(b)
         PROVE  AckInv'
    <2>1. b.no = jobs[b.job].last + 1 /\ jobs[b.job].status # "completed"
      BY <1>13, NextIsOpen DEF BeginReconciliation
    <2>2. /\ UNCHANGED <<jobs, watermark, agent, acks>> /\ batches' = {} /\ tx'.batch = b
      BY <1>13 DEF BeginReconciliation
    <2> QED BY <2>1, <2>2 DEF AckInv, AckedIsCommitted
  <1>14. CASE CommitReconciliation
    <2>1. PICK b \in Message : b = tx.batch
      BY <1>14, TxType, Zenon DEF CommitReconciliation, Transaction
    <2>2. b.no = jobs[b.job].last + 1 /\ jobs[b.job].status # "completed"
      BY <1>14, <2>1, ZenonT(30) DEF CommitReconciliation, AckInv
    <2>3. /\ jobs' = [jobs EXCEPT ![b.job] = JobAfter(b)] /\ UNCHANGED <<watermark, agent>>
          /\ batches' \subseteq batches /\ acks' \subseteq acks \cup {b} /\ tx' = Null
      BY <1>14, <2>1, Zenon DEF CommitReconciliation
    <2> QED BY <2>2, <2>3, CommitAcks, ZenonT(30)
  <1> QED BY <1>1, <1>2, <1>3, <1>4, <1>5, <1>6, <1>7, <1>8, <1>9, <1>10, <1>11, <1>12, <1>13,
             <1>14, AckReceived, Zenon DEF Next

-----------------------------------------------------------------------------
(* What is visible.                                                        *)

\* Steps that touch no Session.
LEMMA SameSessions ==
  ASSUME HeldInv, UNCHANGED <<sessions, creating>>,
         tx' # Null => /\ tx # Null /\ tx'.batch = tx.batch
                       /\ jobs'[tx.batch.job].created = jobs[tx.batch.job].created
  PROVE  HeldInv'
  BY DEF HeldInv, ActiveSessionVisible, Locked, StaleSession

\* Steps that touch a Session no CreateRun holds.
LEMMA OtherSession ==
  ASSUME HeldInv, Types, NEW s \in Session, s # creating, UNCHANGED <<jobs, tx, creating>>,
         \A t \in Session \ {s} : sessions'[t] = sessions[t],
         sessions'[s].run = "active" => ~ sessions'[s].archived
  PROVE  HeldInv'
  <1>1. creating # Null => creating \in Session /\ sessions'[creating] = sessions[creating]
    BY DEF Types
  <1>2. ActiveSessionVisible'
    BY DEF HeldInv, ActiveSessionVisible
  <1> QED BY <1>1, <1>2 DEF HeldInv, Locked, StaleSession

\* Every step keeps a Session with an active Run, or held by CreateRun, visible.
LEMMA HeldStep ==
  ASSUME Types, MadeInv, HeldInv, [Next]_vars
  PROVE  HeldInv'
  <1> USE DEF store, wire, world
  <1>1. CASE UNCHANGED vars
    BY <1>1, SameSessions DEF vars
  <1>2. ASSUME NEW j \in Job, CreateSyncJob(j)
        PROVE  HeldInv'
    <2>1. /\ UNCHANGED <<sessions, creating, tx>> /\ jobs[j].status = "absent"
          /\ \A i \in Job \ {j} : jobs'[i] = jobs[i]
      BY <1>2, JobsType DEF CreateSyncJob
    <2>2. tx # Null => jobs'[tx.batch.job] = jobs[tx.batch.job]
      BY <2>1 DEF MadeInv, Made
    <2> QED BY <2>1, <2>2, SameSessions
  <1>3. ASSUME NEW s \in Session, CreateSession(s)
        PROVE  HeldInv'
    <2>1. /\ UNCHANGED <<jobs, tx, creating>> /\ ~ sessions[s].exists
          /\ sessions'[s].run = "none" /\ \A t \in Session \ {s} : sessions'[t] = sessions[t]
      BY <1>3, SessionsType DEF CreateSession
    <2>2. s # creating
      BY <2>1, Constants DEF HeldInv
    <2> QED BY <2>1, <2>2, OtherSession
  <1>4. ASSUME NEW s \in Session, LockForRun(s)
        PROVE  HeldInv'
    <2>1. /\ UNCHANGED <<jobs, sessions, tx>> /\ creating' = s /\ sessions[s].run = "none"
          /\ sessions[s].exists /\ ~ sessions[s].archived /\ ~ Locked(s)
      BY <1>4 DEF LockForRun
    <2>2. ~ Locked(s)'
      BY <2>1 DEF Locked, StaleSession
    <2>3. creating' = s /\ ~ Locked(creating)'
      BY <2>1, <2>2 DEF Locked
    <2> QED BY <2>1, <2>3 DEF HeldInv, ActiveSessionVisible
  <1>5. ASSUME NEW s \in Session, CreateRun(s)
        PROVE  HeldInv'
    <2>1. creating = s /\ creating' = Null
      BY <1>5 DEF CreateRun
    <2>2. ~ sessions[s].archived
      BY <2>1, Constants DEF HeldInv
    <2>3. /\ sessions'[s].archived = sessions[s].archived
          /\ \A t \in Session \ {s} : sessions'[t] = sessions[t]
      BY <1>5, SessionsType, SMTT(20) DEF CreateRun, SessionRow
    <2> QED BY <2>1, <2>2, <2>3 DEF HeldInv, ActiveSessionVisible
  <1>6. ASSUME NEW s \in Session, CreateRunFails(s)
        PROVE  HeldInv'
    BY <1>6 DEF CreateRunFails, HeldInv, ActiveSessionVisible
  <1>7. ASSUME NEW s \in Session, TurnStarted(s) \/ TurnEnded(s)
        PROVE  HeldInv'
    <2>1. UNCHANGED <<jobs, tx, creating>> /\ s # creating /\ sessions[s].run = "active"
      BY <1>7 DEF TurnStarted, TurnEnded
    <2>2. ~ sessions[s].archived
      BY <2>1 DEF HeldInv, ActiveSessionVisible
    <2>3. /\ sessions'[s].archived = sessions[s].archived
          /\ \A t \in Session \ {s} : sessions'[t] = sessions[t]
      BY <1>7, SessionsType DEF TurnStarted, TurnEnded, SessionRow
    <2> QED BY <2>1, <2>2, <2>3, OtherSession
  <1>8. ASSUME UNCHANGED <<jobs, sessions, creating>>, tx' = tx \/ tx' = Null
        PROVE  HeldInv'
    BY <1>8, SameSessions
  <1>9. ASSUME NEW j \in Job, ClaimCommands(j) \/ sendCommand(j) \/ ReleaseCommand(j)
        PROVE  HeldInv'
    <2>1. UNCHANGED <<jobs, sessions, creating, tx>>
      BY <1>9, Zenon DEF ClaimCommands, sendCommand, ReleaseCommand
    <2> QED BY <1>8, <2>1
  <1>10. ASSUME NEW j \in starts, ReceiveStart(j)
         PROVE  HeldInv'
    BY <1>8, <1>10 DEF ReceiveStart
  <1>11. CASE SendBatch \/ UpsertProjects \/ AbortReconciliation
    BY <1>8, <1>11, Zenon DEF SendBatch, UpsertProjects, AbortReconciliation
  <1>12. ASSUME NEW b \in acks, ReceiveAck(b)
         PROVE  HeldInv'
    BY <1>8, <1>12 DEF ReceiveAck
  <1>13. ASSUME NEW x \in Item, MacChanges(x)
         PROVE  HeldInv'
    BY <1>8, <1>13 DEF MacChanges
  <1>14. ASSUME NEW s \in Session, FinishTurn(s)
         PROVE  HeldInv'
    BY <1>8, <1>14 DEF FinishTurn
  <1>15. CASE Drop
    <2>1. UNCHANGED <<jobs, sessions, creating>>
      BY <1>15 DEF Drop
    <2>2. tx' # Null => tx # Null /\ tx'.batch = tx.batch
      <3>1. \A t \in Transaction : [t EXCEPT !.alive = FALSE].batch = t.batch
        BY DEF Transaction
      <3>2. /\ tx # Null => tx \in Transaction
            /\ \/ tx = Null /\ tx' = Null
               \/ tx # Null /\ tx' = [tx EXCEPT !.alive = FALSE]
        BY <1>15, TxType DEF Drop
      <3> QED BY <3>1, <3>2, Zenon
    <2> QED BY <2>1, <2>2, SameSessions
  <1>16. ASSUME NEW b \in batches, Reject(b) \/ Replay(b)
         PROVE  HeldInv'
    <2>1. UNCHANGED <<jobs, sessions, creating, tx>>
      BY <1>16, Zenon DEF Reject, Replay
    <2> QED BY <1>8, <2>1
  <1>17. ASSUME NEW b \in batches, ApplyBootstrapBatch(b)
         PROVE  HeldInv'
    <2>1. /\ tx' = Null /\ creating' = creating /\ sessions' = ImportSessions(b)
          /\ creating # Null => b.item # creating
      BY <1>17, ZenonT(30) DEF ApplyBootstrapBatch
    <2>2. \A t \in Session : IF t = b.item THEN sessions'[t].archived = FALSE
                             ELSE sessions'[t] = sessions[t]
      BY <2>1 DEF ImportSessions
    <2>3. ActiveSessionVisible'
      BY <2>2 DEF HeldInv, ActiveSessionVisible
    <2>4. creating # Null => creating \in Session /\ sessions'[creating] = sessions[creating]
      BY <2>1, <2>2 DEF Types
    <2> QED BY <2>1, <2>3, <2>4 DEF HeldInv, Locked
  <1>18. ASSUME NEW b \in batches, BeginReconciliation(b)
         PROVE  HeldInv'
    <2>1. /\ UNCHANGED <<jobs, sessions, creating>> /\ tx'.batch = b
          /\ creating # Null => ~ StaleSession(sessions[creating], b)
      BY <1>18 DEF BeginReconciliation
    <2>2. creating # Null => ~ StaleSession(sessions[creating], b)'
      BY <2>1 DEF StaleSession
    <2>3. creating # Null => ~ Locked(creating)'
      BY <2>1, <2>2 DEF Locked, StaleSession
    <2> QED BY <2>1, <2>3 DEF HeldInv, ActiveSessionVisible
  <1>19. CASE CommitReconciliation
    <2>1. /\ tx # Null /\ tx' = Null /\ creating' = creating
          /\ sessions' = [s \in Session |->
               [sessions[s] EXCEPT !.archived = @ \/ StaleSession(sessions[s], tx.batch)]]
      BY <1>19, Zenon DEF CommitReconciliation
    <2>2. ASSUME NEW s \in Session
          PROVE  /\ sessions'[s].run = sessions[s].run /\ sessions'[s].exists = sessions[s].exists
                 /\ sessions'[s].archived => sessions[s].archived \/ Locked(s)
      BY <2>1, SessionsType DEF SessionRow, Locked
    <2>3. \A s \in Session : Locked(s) => sessions[s].run # "active"
      BY DEF Locked, StaleSession
    <2>4. ActiveSessionVisible'
      BY <2>2, <2>3 DEF HeldInv, ActiveSessionVisible
    <2>5. creating # Null => creating \in Session
      BY DEF Types
    <2> QED BY <2>1, <2>2, <2>4, <2>5, ZenonT(30) DEF HeldInv, Locked
  <1> QED BY <1>1, <1>2, <1>3, <1>4, <1>5, <1>6, <1>7, <1>9, <1>10, <1>11, <1>12, <1>13, <1>14,
             <1>15, <1>16, <1>17, <1>18, <1>19, Zenon DEF Next

-----------------------------------------------------------------------------
(* What the steps do to a synchronisation.                                 *)

\* Rows are written anew, or by a batch of snapshot n, or keep their marks.
Touched(n) ==
  /\ \A p \in Project :
       \/ projects'[p].updated = Now
       \/ projects'[p].seen = projects[p].seen /\ projects'[p].updated = projects[p].updated
  /\ \A s \in Session :
       \/ sessions'[s].updated = Now
       \/ sessions'[s].seen = n
       \/ sessions'[s].seen = sessions[s].seen /\ sessions'[s].updated = sessions[s].updated
Quiet ==
  /\ UNCHANGED <<jobs, tx, agent, watermark, starts, batches, acks>>
  /\ \A n \in Int : Touched(n)

\* Batch b of a job that is not completed is committed.
Commits(b) ==
  /\ b \in Message /\ b.job \in Made
  /\ b.no = jobs[b.job].last + 1 /\ jobs[b.job].status # "completed"
  /\ jobs' = [jobs EXCEPT ![b.job] = JobAfter(b)]
  /\ tx' = Null /\ UNCHANGED <<agent, watermark, starts>>

\* A step that leaves the rows alone touches none.
LEMMA SameRows ==
  ASSUME UNCHANGED <<projects, sessions>>, NEW n
  PROVE  Touched(n)
  BY DEF Touched

\* A Session's row is replaced by one written now.
LEMMA SessionWritten ==
  ASSUME Types, NEW s \in Session, NEW row, row.updated = Now, UNCHANGED projects,
         sessions' = [sessions EXCEPT ![s] = row], NEW n
  PROVE  Touched(n)
  BY SessionsType DEF Touched

\* Every step is one of these kinds: what the invariants below tell apart.
LEMMA Steps ==
  ASSUME Types, MadeInv, AckInv, [Next]_vars
  PROVE  \/ Quiet
         \/ \E j \in Job : CreateSyncJob(j) \/ sendCommand(j)
         \/ \E j \in starts : ReceiveStart(j)
         \/ SendBatch
         \/ \E b \in acks : ReceiveAck(b)
         \/ Drop
         \/ \E b \in batches : Reject(b) \/ Replay(b) \/ BeginReconciliation(b)
         \/ \E b \in batches : ApplyBootstrapBatch(b) /\ Commits(b)
         \/ CommitReconciliation /\ Commits(tx.batch)
         \/ AbortReconciliation
  <1> USE DEF store, wire, world
  <1>1. CASE UNCHANGED vars
    BY <1>1, SameRows DEF vars, Quiet
  <1>2. ASSUME NEW s \in Session,
               CreateSession(s) \/ CreateRun(s) \/ TurnStarted(s) \/ TurnEnded(s)
        PROVE  Quiet
    <2>1. UNCHANGED <<jobs, tx, agent, watermark, starts, batches, acks, projects>>
      BY <1>2, Zenon DEF CreateSession, CreateRun, TurnStarted, TurnEnded
    <2>2. sessions[s] \in SessionRow
      BY SessionsType
    <2>3. \E row : row.updated = Now /\ sessions' = [sessions EXCEPT ![s] = row]
      <3>1. CASE CreateSession(s)
        <4> DEFINE row == [exists |-> TRUE, thread |-> FALSE, archived |-> FALSE,
                           seen |-> 0, updated |-> Now, run |-> "none"]
        <4>1. row.updated = Now /\ sessions' = [sessions EXCEPT ![s] = row]
          BY <3>1, Zenon DEF CreateSession
        <4> QED BY <4>1, Zenon
      <3>2. CASE CreateRun(s)
        <4> DEFINE row == [sessions[s] EXCEPT !.run = "active", !.updated = Now]
        <4>1. row.updated = Now
          BY <2>2, Zenon DEF SessionRow
        <4>2. sessions' = [sessions EXCEPT ![s] = row]
          BY <3>2, SessionsType, Zenon DEF CreateRun
        <4> QED BY <4>1, <4>2, Zenon
      <3>3. CASE TurnStarted(s)
        <4> DEFINE row == [sessions[s] EXCEPT !.thread = TRUE, !.updated = Now]
        <4>1. row.updated = Now
          BY <2>2, Zenon DEF SessionRow
        <4>2. sessions' = [sessions EXCEPT ![s] = row]
          BY <3>3, SessionsType, Zenon DEF TurnStarted
        <4> QED BY <4>1, <4>2, Zenon
      <3>4. CASE TurnEnded(s)
        <4> DEFINE row == [sessions[s] EXCEPT !.run = "ended", !.updated = Now]
        <4>1. row.updated = Now
          BY <2>2, Zenon DEF SessionRow
        <4>2. sessions' = [sessions EXCEPT ![s] = row]
          BY <3>4, SessionsType, Zenon DEF TurnEnded
        <4> QED BY <4>1, <4>2, Zenon
      <3> QED BY <1>2, <3>1, <3>2, <3>3, <3>4
    <2> QED BY <2>1, <2>3, SessionWritten, Zenon DEF Quiet
  <1>3. ASSUME NEW s \in Session, LockForRun(s) \/ CreateRunFails(s) \/ FinishTurn(s)
        PROVE  Quiet
    <2>1. UNCHANGED <<jobs, tx, agent, watermark, starts, batches, acks, projects, sessions>>
      BY <1>3, Zenon DEF LockForRun, CreateRunFails, FinishTurn
    <2> QED BY <2>1, SameRows DEF Quiet
  <1>4. ASSUME NEW j \in Job, ClaimCommands(j) \/ ReleaseCommand(j)
        PROVE  Quiet
    <2>1. UNCHANGED <<jobs, tx, agent, watermark, starts, batches, acks, projects, sessions>>
      BY <1>4, Zenon DEF ClaimCommands, ReleaseCommand
    <2> QED BY <2>1, SameRows DEF Quiet
  <1>5. ASSUME NEW x \in Item, MacChanges(x)
        PROVE  Quiet
    <2>1. UNCHANGED <<jobs, tx, agent, watermark, starts, batches, acks, projects, sessions>>
      BY <1>5, Zenon DEF MacChanges
    <2> QED BY <2>1, SameRows DEF Quiet
  <1>6. CASE UpsertProjects
    <2>1. UNCHANGED <<jobs, tx, agent, watermark, starts, batches, acks, sessions>>
      BY <1>6, Zenon DEF UpsertProjects
    <2>2. \A p \in Project : projects'[p].updated = Now \/ projects'[p] = projects[p]
      BY <1>6, ProjectsType, ZenonT(30) DEF UpsertProjects, ProjectRow
    <2> QED BY <2>1, <2>2, Zenon DEF Quiet, Touched
  <1>7. ASSUME NEW b \in batches, ApplyBootstrapBatch(b)
        PROVE  Commits(b)
    <2>1. b \in Message /\ b.job \in Made
      BY WireType DEF MadeInv
    <2>2. b.no = jobs[b.job].last + 1 /\ jobs[b.job].status # "completed"
      BY <1>7, NextIsOpen DEF ApplyBootstrapBatch
    <2> QED BY <1>7, <2>1, <2>2, Zenon DEF ApplyBootstrapBatch, Commits
  <1>8. CASE CommitReconciliation
    <2>1. tx # Null /\ tx.batch \in Message /\ tx.batch.job \in Made
      BY <1>8, TxType, Zenon DEF CommitReconciliation, Transaction, MadeInv
    <2>2. /\ tx.batch.no = jobs[tx.batch.job].last + 1
          /\ jobs[tx.batch.job].status # "completed"
      BY <2>1, Zenon DEF AckInv
    <2> QED BY <1>8, <2>1, <2>2, Zenon DEF CommitReconciliation, Commits
  <1> QED BY <1>1, <1>2, <1>3, <1>4, <1>5, <1>6, <1>7, <1>8, ZenonT(30) DEF Next

\* A committed batch changes the row of its job only.
LEMMA CommitRow ==
  ASSUME Types, NEW b, Commits(b)
  PROVE  /\ b.job \in Job /\ b.no \in Int
         /\ jobs'[b.job].last = b.no /\ jobs'[b.job].checksum = Checksum(b)
         /\ \A j \in Job \ {b.job} : jobs'[j] = jobs[j]
         /\ \A j \in Job : jobs'[j].created = jobs[j].created
         /\ \A j \in Job : jobs[j].status = "completed" => jobs'[j].status = "completed"
         /\ b.done => jobs'[b.job].status = "completed"
         /\ Made' = Made /\ Now' = Now
  <1>1. b \in Message /\ b.job \in Job /\ b.no \in Int /\ jobs[b.job].status # "absent"
    BY DEF Commits, Message, Made
  <1>2. /\ jobs' = [jobs EXCEPT ![b.job] = JobAfter(b)]
        /\ jobs[b.job].status # "completed"
    BY DEF Commits
  <1>3. jobs'[b.job] = JobAfter(b) /\ \A j \in Job \ {b.job} : jobs'[j] = jobs[j]
    BY <1>1, <1>2, JobsType
  <1>4. /\ JobAfter(b).last = b.no /\ JobAfter(b).created = jobs[b.job].created
        /\ JobAfter(b).checksum = Checksum(b)
        /\ JobAfter(b).status = IF b.done THEN "completed" ELSE "running"
    BY <1>1, JobAfterRow
  <1>5. \A j \in Job : jobs'[j].status # "absent" <=> jobs[j].status # "absent"
    BY <1>1, <1>3, <1>4
  <1>6. Made' = Made
    BY <1>5 DEF Made
  <1>7. Now = Cardinality(Made) /\ Now' = Cardinality(Made')
    BY DEF Now, Made
  <1>8. \A j \in Job : jobs'[j].created = jobs[j].created
    BY <1>3, <1>4
  <1>9. \A j \in Job : jobs[j].status = "completed" => jobs'[j].status = "completed"
    BY <1>2, <1>3
  <1> QED BY <1>1, <1>3, <1>4, <1>6, <1>7, <1>8, <1>9

\* The Agent begins the upload of a job, or already knows it.
LEMMA StartRead ==
  ASSUME Types, NEW j \in starts, ReceiveStart(j)
  PROVE  /\ UNCHANGED <<jobs, projects, sessions, tx, watermark, batches, acks>>
         /\ starts' = starts \ {j}
         /\ \A i \in starts : jobs[j].created <= jobs[i].created
         /\ \/ agent' = agent
            \/ /\ agent.job # j /\ ~ watermark[j].done
               /\ agent'.job = j /\ agent'.no = watermark[j].last + 1 /\ ~ agent'.sent
               /\ ~ agent'.resumed => agent'.no <= 0
               /\ agent'.manifest = Catalogue
               /\ agent'.no = 0 => agent'.left = agent'.manifest
  <1> USE DEF store
  <1>1. /\ UNCHANGED <<jobs, projects, sessions, tx, watermark, batches, acks>>
        /\ starts' = starts \ {j} /\ \A i \in starts : jobs[j].created <= jobs[i].created
    BY DEF ReceiveStart
  <1>2. j \in Job /\ watermark[j].last \in Int
    BY WireType, WatermarkType
  <1>3. CASE agent.job = j \/ watermark[j].done
    BY <1>1, <1>3 DEF ReceiveStart
  <1>4. CASE ~ (agent.job = j \/ watermark[j].done)
    <2>1. PICK skip \in SUBSET Catalogue :
            /\ \/ Cardinality(skip) = watermark[j].last + 1
               \/ Cardinality(skip) < watermark[j].last + 1 /\ skip = Catalogue
            /\ agent' = [job |-> j, snapshot |-> snapshots + 1, manifest |-> Catalogue,
                         left |-> Catalogue \ skip, no |-> watermark[j].last + 1,
                         resumed |-> watermark[j].last + 1 > 0, sent |-> FALSE]
      BY <1>4, Zenon DEF ReceiveStart
    <2>2. skip \in SUBSET Item
      BY DEF Catalogue, Types
    <2>3. Cardinality(skip) \in Nat /\ (Cardinality(skip) = 0 => skip = {})
      BY <2>2, Zenon DEF Types, Sizes
    <2>4. watermark[j].last + 1 = 0 => skip = {}
      <3>1. \/ Cardinality(skip) = watermark[j].last + 1
            \/ Cardinality(skip) < watermark[j].last + 1
        BY <2>1, Zenon
      <3> QED BY <1>2, <2>3, <3>1
    <2>5. agent'.no = 0 => agent'.left = agent'.manifest
      BY <2>1, <2>4
    <2>6. ~ agent'.resumed => agent'.no <= 0
      <3>1. agent'.resumed = (watermark[j].last + 1 > 0) /\ agent'.no = watermark[j].last + 1
        BY <2>1, Zenon
      <3>2. ~ (watermark[j].last + 1 > 0) => watermark[j].last + 1 <= 0
        BY <1>2, NextNumber, Zenon
      <3> QED BY <3>1, <3>2, Zenon
    <2> QED BY <1>1, <1>4, <2>1, <2>5, <2>6
  <1> QED BY <1>3, <1>4

\* The Agent sends the next item, or the final batch.
LEMMA BatchSent ==
  ASSUME Types, SendBatch
  PROVE  /\ UNCHANGED <<jobs, projects, sessions, tx, watermark, starts, acks>>
         /\ agent.job # Null /\ ~ agent.sent /\ agent'.sent
         /\ agent'.job = agent.job /\ agent'.no = agent.no
         /\ agent'.snapshot = agent.snapshot
         /\ agent'.manifest = agent.manifest /\ agent'.resumed = agent.resumed
         /\ \E x \in agent.left \cup {Null} :
              /\ batches' = {Batch(x)}
              /\ agent'.left = agent.left \ {x}
              /\ x = Null => agent.left = {}
              /\ x \in Session => agent.left \cap Project = {}
  <1> USE DEF store
  <1>1. /\ UNCHANGED <<jobs, projects, sessions, tx, watermark, starts, acks>>
        /\ agent.job # Null /\ ~ agent.sent
    BY DEF SendBatch
  <1>2. PICK x \in agent.left \cup {Null} :
          /\ batches' = {Batch(x)} /\ agent' = [agent EXCEPT !.sent = TRUE, !.left = @ \ {x}]
          /\ x = Null => agent.left = {}
          /\ x \in Session => agent.left \cap Project = {}
    BY Zenon DEF SendBatch
  <1>3. agent \in Upload
    BY AgentType
  <1>4. /\ agent'.sent /\ agent'.job = agent.job /\ agent'.no = agent.no
        /\ agent'.snapshot = agent.snapshot
        /\ agent'.manifest = agent.manifest /\ agent'.resumed = agent.resumed
        /\ agent'.left = agent.left \ {x}
    BY <1>2, <1>3 DEF Upload
  <1> QED BY <1>1, <1>2, <1>4, Zenon

\* The Agent takes the acknowledgement of the batch it waits for; of any other job
\* it drops it.
LEMMA AckRead ==
  ASSUME Types, WireInv, NEW b \in acks, ReceiveAck(b)
  PROVE  /\ UNCHANGED <<jobs, projects, sessions, tx, starts, batches>>
         /\ acks' = acks \ {b}
         /\ ~ Mine(b) => UNCHANGED <<agent, watermark>>
         /\ Mine(b) =>
              /\ Current(b)
              /\ watermark' = [watermark EXCEPT ![b.job] = [last |-> b.no, done |-> b.done]]
              /\ \/ agent'.job = Null
                 \/ /\ agent'.job = agent.job /\ agent'.no = agent.no + 1 /\ ~ agent'.sent
                    /\ agent'.snapshot = agent.snapshot /\ agent'.left = agent.left
                    /\ agent'.manifest = agent.manifest /\ agent'.resumed = agent.resumed
  <1> USE DEF store
  <1>1. UNCHANGED <<jobs, projects, sessions, tx, starts, batches>> /\ acks' = acks \ {b}
    BY DEF ReceiveAck
  <1>2. CASE ~ Mine(b)
    BY <1>1, <1>2 DEF ReceiveAck, Mine
  <1>3. CASE Mine(b)
    <2>1. Current(b)
      BY <1>3 DEF WireInv, Sent
    <2>2. b.job = agent.job /\ b.no = agent.no
      BY <1>3, <2>1 DEF Mine, Current
    <2>3. /\ watermark' = [watermark EXCEPT ![b.job] = [last |-> b.no, done |-> b.done]]
          /\ agent' = IF b.done THEN Resting
                      ELSE [agent EXCEPT !.no = agent.no + 1, !.sent = FALSE]
      BY <2>2 DEF ReceiveAck
    <2>4. ASSUME NEW u \in Upload, NEW v, v = [u EXCEPT !.no = u.no + 1, !.sent = FALSE]
          PROVE  /\ v.job = u.job /\ v.no = u.no + 1 /\ ~ v.sent
                 /\ v.snapshot = u.snapshot /\ v.left = u.left
                 /\ v.manifest = u.manifest /\ v.resumed = u.resumed
      BY <2>4 DEF Upload
    <2>5. agent \in Upload /\ Resting.job = Null
      BY AgentType DEF Resting
    <2> QED BY <1>1, <1>3, <2>1, <2>3, <2>4, <2>5, Zenon
  <1> QED BY <1>2, <1>3

\* Everything under way is lost; a transaction goes on without its connection.
LEMMA Dropped ==
  ASSUME Types, Drop
  PROVE  /\ UNCHANGED <<jobs, projects, sessions, watermark>>
         /\ starts' = {} /\ batches' = {} /\ acks' = {}
         /\ agent'.job = Null
         /\ tx' # Null => tx # Null /\ tx'.batch = tx.batch /\ ~ tx'.alive
  <1>1. /\ UNCHANGED <<jobs, projects, sessions, watermark>>
        /\ starts' = {} /\ batches' = {} /\ acks' = {} /\ agent'.job = Null
    BY DEF Drop, store, Resting
  <1>2. /\ tx # Null => tx \in Transaction
        /\ \/ tx = Null /\ tx' = Null
           \/ tx # Null /\ tx' = [tx EXCEPT !.alive = FALSE]
    BY TxType DEF Drop
  <1>3. \A t \in Transaction : /\ [t EXCEPT !.alive = FALSE].batch = t.batch
                               /\ ~ [t EXCEPT !.alive = FALSE].alive
    BY DEF Transaction
  <1> QED BY <1>1, <1>2, <1>3, Zenon

-----------------------------------------------------------------------------
(* The order of the jobs.                                                  *)

\* A job that is not completed is the newest.
LEMMA OpenIsNewest ==
  ASSUME Types, OrderInv, NEW j \in Made, jobs[j].status # "completed", NEW i \in Made
  PROVE  jobs[i].created <= jobs[j].created
  <1>1. jobs[i].created \in Int /\ jobs[j].created \in Int
    BY JobsType DEF Made, JobRow
  <1> QED BY <1>1 DEF OrderInv

\* Every step keeps all jobs but the newest completed.
LEMMA OrderStep ==
  ASSUME Types, MadeInv, AckInv, WireInv, OrderInv, [Next]_vars
  PROVE  OrderInv'
  <1>1. ASSUME UNCHANGED jobs, agent'.job = agent.job \/ agent'.job = Null, starts' \subseteq starts
        PROVE  OrderInv'
    BY <1>1 DEF OrderInv, Made, Now
  <1>2. ASSUME NEW j \in Job, CreateSyncJob(j)
        PROVE  OrderInv'
    <2> DEFINE row == [AbsentJob EXCEPT !.status = "queued", !.created = Now]
    <2>1. row.status = "queued" /\ row.created = Now
      BY DEF AbsentJob
    <2>2. /\ jobs[j].status = "absent" /\ jobs' = [jobs EXCEPT ![j] = row]
          /\ \A i \in Job : jobs[i].status \notin {"queued", "running"}
          /\ UNCHANGED <<agent, starts>>
      BY <1>2, Zenon DEF CreateSyncJob, wire
    <2> HIDE DEF row
    <2>3. /\ jobs'[j].status = "queued" /\ jobs'[j].created = Now
          /\ \A i \in Job \ {j} : jobs'[i] = jobs[i]
      BY <2>1, <2>2, JobsType
    <2>4. Made' = Made \cup {j} /\ j \notin Made /\ \A i \in Made : jobs'[i] = jobs[i]
      BY <2>2, <2>3 DEF Made
    <2>5. \A i \in Made : jobs[i].status = "completed" /\ jobs[i].created \in Int
      BY <2>2, JobsType DEF Made, JobRow
    <2>6. Now' = Now + 1
      <3>1. Made \in SUBSET Job
        BY DEF Made
      <3>2. Cardinality(Made') = Cardinality(Made) + 1
        BY <2>4, <3>1, Zenon DEF Types, Sizes
      <3> QED BY <3>2 DEF Now, Made
    <2>7. \A i \in Made : jobs[i].created < Now
      BY DEF OrderInv
    <2>8. \A i \in Made' : jobs'[i].created < Now'
      BY <2>3, <2>4, <2>5, <2>6, <2>7, NowType
    <2>9. \A i, k \in Made' :
            \/ i = k
            \/ jobs'[i].created < jobs'[k].created /\ jobs'[i].status = "completed"
            \/ jobs'[k].created < jobs'[i].created /\ jobs'[k].status = "completed"
      BY <2>3, <2>4, <2>5, <2>7 DEF OrderInv
    <2>10. agent.job # Null => \A i \in starts : jobs'[agent.job].created <= jobs'[i].created
      BY <2>4 DEF OrderInv, MadeInv
    <2> QED BY <2>2, <2>8, <2>9, <2>10 DEF OrderInv
  <1>3. ASSUME NEW j \in Job, sendCommand(j)
        PROVE  OrderInv'
    <2>1. UNCHANGED <<jobs, agent>> /\ j \in Made
      BY <1>3, Constants DEF sendCommand, store, MadeInv
    <2>2. starts' = starts \/ (starts' = starts \cup {j} /\ jobs[j].status # "completed")
      BY <1>3 DEF sendCommand
    <2>3. CASE starts' = starts
      BY <1>1, <2>1, <2>3
    <2>4. CASE starts' = starts \cup {j} /\ jobs[j].status # "completed"
      <3>1. agent.job # Null => jobs[agent.job].created <= jobs[j].created
        BY <2>1, <2>4, OpenIsNewest DEF MadeInv
      <3> QED BY <2>1, <2>4, <3>1 DEF OrderInv, Made, Now
    <2> QED BY <2>2, <2>3, <2>4
  <1>4. ASSUME NEW j \in starts, ReceiveStart(j)
        PROVE  OrderInv'
    <2>1. UNCHANGED jobs /\ starts' \subseteq starts
      BY <1>4, StartRead
    <2>2. agent' = agent \/ agent'.job = j
      BY <1>4, StartRead
    <2>3. \A i \in starts : jobs[j].created <= jobs[i].created
      BY <1>4, StartRead
    <2>4. CASE agent' = agent
      BY <1>1, <2>1, <2>4
    <2>5. CASE agent'.job = j
      BY <2>1, <2>3, <2>5 DEF OrderInv, Made, Now
    <2> QED BY <2>2, <2>4, <2>5
  <1>5. ASSUME NEW b, Commits(b)
        PROVE  OrderInv'
    <2>1. /\ b.job \in Made /\ jobs[b.job].status # "completed" /\ UNCHANGED <<agent, starts>>
      BY <1>5 DEF Commits
    <2>2. /\ Made' = Made /\ Now' = Now
          /\ \A j \in Job : jobs'[j].created = jobs[j].created
          /\ \A j \in Job : jobs[j].status = "completed" => jobs'[j].status = "completed"
      BY <1>5, CommitRow
    <2>3. Made \subseteq Job /\ starts \subseteq Job /\ (agent.job # Null => agent.job \in Job)
      BY DEF Made, MadeInv
    <2>4. agent.job # Null => \A i \in starts : jobs'[agent.job].created <= jobs'[i].created
      BY <2>2, <2>3 DEF OrderInv
    <2>5. \A j \in Made : jobs'[j].created < Now
      BY <2>2, <2>3 DEF OrderInv
    <2>6. \A i, j \in Made :
            \/ i = j
            \/ jobs'[i].created < jobs'[j].created /\ jobs'[i].status = "completed"
            \/ jobs'[j].created < jobs'[i].created /\ jobs'[j].status = "completed"
      BY <2>2, <2>3 DEF OrderInv
    <2> QED BY <2>1, <2>2, <2>4, <2>5, <2>6 DEF OrderInv
  <1>6. CASE SendBatch
    BY <1>1, <1>6, BatchSent
  <1>7. ASSUME NEW b \in acks, ReceiveAck(b)
        PROVE  OrderInv'
    BY <1>1, <1>7, AckRead, Zenon
  <1>8. CASE Drop
    BY <1>1, <1>8, Dropped
  <1>9. CASE Quiet
    BY <1>1, <1>9 DEF Quiet
  <1>10. ASSUME NEW b \in batches, Reject(b) \/ Replay(b) \/ BeginReconciliation(b)
         PROVE  OrderInv'
    <2>1. UNCHANGED <<jobs, agent, starts>>
      BY <1>10, Zenon DEF Reject, Replay, BeginReconciliation, store
    <2> QED BY <1>1, <2>1
  <1>11. CASE AbortReconciliation
    <2>1. UNCHANGED <<jobs, agent, starts>>
      BY <1>11, Zenon DEF AbortReconciliation, store, wire
    <2> QED BY <1>1, <2>1
  <1> QED BY <1>2, <1>3, <1>4, <1>5, <1>6, <1>7, <1>8, <1>9, <1>10, <1>11, Steps, Zenon

-----------------------------------------------------------------------------
(* What is under way.                                                      *)

\* A message of another job than the Agent's stays of a completed job.
LEMMA PastStays ==
  ASSUME NEW b, Past(b), b.job \in Job,
         jobs[b.job].status = "completed" => jobs'[b.job].status = "completed",
         watermark[b.job].done => watermark'[b.job].done,
         b.job \in starts' => b.job \in starts \/ jobs[b.job].status # "completed"
  PROVE  Past(b)'
  BY DEF Past

\* What is under way is of jobs that exist.
LEMMA SentJobs ==
  ASSUME Types, NEW b \in Sent
  PROVE  b.job \in Job
  BY WireType, TxType DEF Sent, Message, Transaction

\* The Agent does nothing, and nothing new is under way.
LEMMA NothingSent ==
  ASSUME Types, WireInv, UNCHANGED <<agent, watermark>>,
         \A j \in Job : jobs[j].status = "completed" => jobs'[j].status = "completed",
         \A j \in starts' : j \in starts \/ jobs[j].status # "completed",
         Sent' \subseteq Sent, AtMostOne'
  PROVE  WireInv'
  <1>1. ASSUME NEW b \in Sent'
        PROVE  /\ b.done => b.item = Null
               /\ IF Mine(b)' THEN Current(b)' ELSE Past(b)'
    <2>1. /\ b \in Sent /\ b.job \in Job
          /\ b.done => b.item = Null
          /\ IF Mine(b) THEN Current(b) ELSE Past(b)
      BY SentJobs DEF WireInv
    <2>2. Mine(b)' <=> Mine(b)
      BY DEF Mine
    <2>3. Mine(b) => Current(b)'
      BY <2>1 DEF Current
    <2>4. ~ Mine(b) => Past(b)'
      BY <2>1, PastStays
    <2> QED BY <2>1, <2>2, <2>3, <2>4
  <1> QED BY <1>1 DEF WireInv

\* A step that takes from what is under way keeps WireInv.
LEMMA LessUnderWay ==
  ASSUME Types, WireInv, UNCHANGED <<agent, watermark>>,
         \A j \in Job : jobs[j].status = "completed" => jobs'[j].status = "completed",
         \A j \in starts' : j \in starts \/ jobs[j].status # "completed",
         batches' \subseteq batches, acks' \subseteq acks,
         tx' # Null /\ tx'.alive => tx # Null /\ tx.alive /\ tx'.batch = tx.batch
  PROVE  WireInv'
  <1>1. Sent' \subseteq Sent
    BY DEF Sent
  <1>2. AtMostOne'
    BY DEF WireInv, AtMostOne, Mine
  <1> QED BY <1>1, <1>2, NothingSent

\* A batch is taken: it becomes the transaction under way, or its acknowledgement.
LEMMA BatchTaken ==
  ASSUME Types, WireInv, UNCHANGED <<agent, watermark, starts>>, NEW b \in batches,
         \A j \in Job : jobs[j].status = "completed" => jobs'[j].status = "completed",
         batches' = {},
         \/ acks' = acks \cup {b} /\ tx = Null /\ tx' = Null
         \/ acks' = acks /\ tx'.batch = b
  PROVE  WireInv'
  <1>1. Sent' \subseteq Sent
    BY DEF Sent
  <1>2. AtMostOne'
    BY DEF WireInv, AtMostOne, Mine
  <1> QED BY <1>1, <1>2, NothingSent

\* Nothing of the job the Agent is at is under way.
LEMMA NothingMine ==
  ASSUME \A b \in Sent' : (b.done => b.item = Null) /\ ~ Mine(b)' /\ Past(b)'
  PROVE  WireInv'
  BY DEF WireInv, AtMostOne, Sent

\* Every step keeps one batch under way of the job the Agent is at.
LEMMA WireStep ==
  ASSUME Types, MadeInv, AckInv, OrderInv, WireInv, [Next]_vars
  PROVE  WireInv'
  <1>1. ASSUME UNCHANGED <<jobs, agent, watermark, starts, batches, acks, tx>>
        PROVE  WireInv'
    BY <1>1, LessUnderWay
  <1>2. ASSUME NEW j \in Job, CreateSyncJob(j)
        PROVE  WireInv'
    <2>1. /\ UNCHANGED <<agent, watermark, starts, batches, acks, tx>>
          /\ jobs[j].status = "absent" /\ \A i \in Job \ {j} : jobs'[i] = jobs[i]
      BY <1>2, JobsType DEF CreateSyncJob, wire
    <2> QED BY <2>1, LessUnderWay
  <1>3. ASSUME NEW j \in Job, sendCommand(j)
        PROVE  WireInv'
    <2>1. /\ UNCHANGED <<jobs, agent, watermark, batches, acks, tx>>
          /\ \A i \in starts' : i \in starts \/ jobs[i].status # "completed"
      BY <1>3 DEF sendCommand, store
    <2> QED BY <2>1, LessUnderWay
  <1>4. ASSUME NEW j \in starts, ReceiveStart(j)
        PROVE  WireInv'
    <2>1. UNCHANGED <<jobs, tx, watermark, batches, acks>> /\ starts' = starts \ {j}
      BY <1>4, StartRead
    <2>2. Sent' = Sent /\ j \in Made
      BY <2>1 DEF Sent, MadeInv
    <2>3. CASE agent' = agent
      BY <2>1, <2>3, LessUnderWay
    <2>4. CASE agent' # agent
      <3>1. agent.job # j /\ ~ watermark[j].done /\ agent'.job = j
        BY <1>4, <2>4, StartRead
      <3>2. ASSUME NEW b \in Sent
            PROVE  (b.done => b.item = Null) /\ b.job # j /\ Past(b)'
        <4>1. /\ b.job \in Job /\ (b.done => b.item = Null)
              /\ IF Mine(b) THEN Current(b) ELSE Past(b)
          BY SentJobs DEF WireInv
        <4>2. CASE ~ Mine(b)
          <5>1. Past(b) /\ b.job # j
            BY <3>1, <4>1, <4>2 DEF Past
          <5>2. Past(b)'
            BY <2>1, <4>1, <5>1, PastStays
          <5> QED BY <4>1, <5>1, <5>2
        <4>3. CASE Mine(b)
          <5>1. b.job = agent.job /\ b.job # j /\ b.job \in Made
            BY <3>1, <4>1, <4>3, Constants DEF Mine, MadeInv
          <5>2. jobs[b.job].created \in Int /\ jobs[j].created \in Int
            BY <2>2, <5>1, JobsType DEF Made, JobRow
          <5>3. jobs[b.job].created <= jobs[j].created
            BY <4>1, <5>1, Constants DEF OrderInv
          <5>4. jobs[b.job].created < jobs[j].created /\ jobs[b.job].status = "completed"
            BY <2>2, <5>1, <5>2, <5>3 DEF OrderInv
          <5>5. \A i \in starts : jobs[j].created <= jobs[i].created
            BY <1>4, StartRead
          <5>6. b.job \notin starts
            BY <5>2, <5>4, <5>5
          <5> QED BY <2>1, <4>1, <5>1, <5>4, <5>6 DEF Past
        <4> QED BY <4>2, <4>3
      <3>3. \A b \in Sent' : (b.done => b.item = Null) /\ ~ Mine(b)' /\ Past(b)'
        BY <2>2, <3>1, <3>2 DEF Mine
      <3> QED BY <3>3, NothingMine
    <2> QED BY <2>3, <2>4
  <1>5. CASE SendBatch
    <2>1. /\ UNCHANGED <<jobs, tx, watermark, starts, acks>> /\ ~ agent.sent /\ agent'.sent
          /\ agent'.job = agent.job /\ agent'.no = agent.no /\ agent'.snapshot = agent.snapshot
          /\ agent'.manifest = agent.manifest /\ agent'.resumed = agent.resumed
      BY <1>5, BatchSent
    <2>2. PICK x \in agent.left \cup {Null} :
            /\ batches' = {Batch(x)} /\ agent'.left = agent.left \ {x}
            /\ x = Null => agent.left = {}
      BY <1>5, BatchSent
    <2>3. PICK m : m = Batch(x)
      OBVIOUS
    <2>4. Mine(m)' /\ Current(m)' /\ (m.done => m.item = Null)
      BY <2>1, <2>2, <2>3, Zenon DEF Mine, Current, Batch
    <2>5. Sent' \subseteq Sent \cup {m} /\ batches' = {m}
      BY <2>1, <2>2, <2>3 DEF Sent
    <2>6. ASSUME NEW b \in Sent
          PROVE  ~ Mine(b) /\ ~ Mine(b)' /\ Past(b)' /\ (b.done => b.item = Null)
      <3>1. ~ Mine(b) /\ Past(b) /\ (b.done => b.item = Null)
        BY <2>1 DEF WireInv, Current
      <3>2. Past(b)'
        BY <2>1, <3>1 DEF Past
      <3> QED BY <2>1, <3>1, <3>2 DEF Mine
    <2>7. \A b \in Sent' : /\ b.done => b.item = Null
                           /\ IF Mine(b)' THEN Current(b)' ELSE Past(b)'
      BY <2>4, <2>5, <2>6
    <2>8. AtMostOne'
      BY <2>1, <2>6 DEF AtMostOne, Sent
    <2> QED BY <2>7, <2>8 DEF WireInv
  <1>6. ASSUME NEW b \in acks, ReceiveAck(b)
        PROVE  WireInv'
    <2>1. UNCHANGED <<jobs, tx, starts, batches>> /\ acks' = acks \ {b}
      BY <1>6, AckRead, ZenonT(30)
    <2>2. CASE ~ Mine(b)
      <3>1. UNCHANGED <<agent, watermark>>
        BY <1>6, <2>2, AckRead, ZenonT(30)
      <3> QED BY <2>1, <3>1, LessUnderWay
    <2>3. CASE Mine(b)
      <3>1. /\ watermark' = [watermark EXCEPT ![b.job] = [last |-> b.no, done |-> b.done]]
            /\ agent'.job = Null \/ agent'.job = agent.job
        BY <1>6, <2>3, AckRead
      <3>2. ASSUME NEW c \in Sent'
            PROVE  (c.done => c.item = Null) /\ ~ Mine(c)' /\ Past(c)'
        <4>1. c \in Sent /\ ~ Mine(c)
          BY <2>1, <2>3 DEF Sent, WireInv, AtMostOne
        <4>2. (c.done => c.item = Null) /\ Past(c) /\ c.job \in Job
          BY <4>1, SentJobs DEF WireInv
        <4>3. c.job # b.job /\ watermark'[c.job] = watermark[c.job]
          BY <2>3, <3>1, <4>1, <4>2, WatermarkType DEF Mine
        <4>4. ~ Mine(c)'
          BY <3>1, <4>1, <4>2, Constants DEF Mine
        <4> QED BY <2>1, <4>2, <4>3, <4>4, PastStays
      <3> QED BY <3>2, NothingMine
    <2> QED BY <2>2, <2>3
  <1>7. CASE Drop
    <2>1. Sent' = {}
      BY <1>7, Dropped DEF Sent
    <2> QED BY <2>1, NothingMine
  <1>8. ASSUME NEW b \in batches, Reject(b)
        PROVE  WireInv'
    <2>1. /\ UNCHANGED <<jobs, agent, watermark, starts, acks, tx>> /\ batches' = {}
      BY <1>8 DEF Reject, store
    <2> QED BY <2>1, LessUnderWay
  <1>9. ASSUME NEW b \in batches, Replay(b)
        PROVE  WireInv'
    <2>1. /\ UNCHANGED <<jobs, agent, watermark, starts>> /\ batches' = {}
          /\ acks' = acks \cup {b} /\ tx = Null /\ tx' = Null
      BY <1>9 DEF Replay, store
    <2> QED BY <2>1, BatchTaken
  <1>10. ASSUME NEW b \in batches, BeginReconciliation(b)
         PROVE  WireInv'
    <2>1. /\ UNCHANGED <<jobs, agent, watermark, starts, acks>> /\ batches' = {}
          /\ tx'.batch = b
      BY <1>10 DEF BeginReconciliation, store
    <2> QED BY <2>1, BatchTaken
  <1>11. ASSUME NEW b \in batches, ApplyBootstrapBatch(b), Commits(b)
         PROVE  WireInv'
    <2>1. /\ UNCHANGED <<agent, watermark, starts>> /\ batches' = {}
          /\ acks' = acks \cup {b} /\ tx = Null /\ tx' = Null
      BY <1>11 DEF ApplyBootstrapBatch
    <2>2. \A j \in Job : jobs[j].status = "completed" => jobs'[j].status = "completed"
      BY <1>11, CommitRow
    <2> QED BY <2>1, <2>2, BatchTaken
  <1>12. ASSUME CommitReconciliation, Commits(tx.batch)
         PROVE  WireInv'
    <2>1. /\ UNCHANGED <<agent, watermark, starts, batches>> /\ tx # Null /\ tx' = Null
          /\ acks' = IF tx.alive THEN acks \cup {tx.batch} ELSE acks
      BY <1>12, Zenon DEF CommitReconciliation
    <2>2. \A j \in Job : jobs[j].status = "completed" => jobs'[j].status = "completed"
      BY <1>12, CommitRow
    <2>3. Sent' \subseteq Sent
      BY <2>1 DEF Sent
    <2>4. AtMostOne'
      BY <2>1 DEF WireInv, AtMostOne, Mine
    <2> QED BY <2>1, <2>2, <2>3, <2>4, NothingSent
  <1>13. CASE AbortReconciliation
    <2>1. UNCHANGED <<jobs, agent, watermark, starts, batches, acks>> /\ tx' = Null
      BY <1>13, Zenon DEF AbortReconciliation, store, wire
    <2> QED BY <2>1, LessUnderWay
  <1>14. CASE Quiet
    BY <1>1, <1>14 DEF Quiet
  <1> QED BY <1>2, <1>3, <1>4, <1>5, <1>6, <1>7, <1>8, <1>9, <1>10, <1>11, <1>12, <1>13, <1>14,
             Steps, Zenon

-----------------------------------------------------------------------------
(* How far an upload has come.                                             *)

\* A batch that is committed from the wire is the one the Agent waits for.
LEMMA OpenIsMine ==
  ASSUME WireInv, NEW b \in Sent, jobs[b.job].status # "completed"
  PROVE  Mine(b) /\ Current(b)
  BY DEF WireInv, Past

\* Nothing of its job is under way when the Agent has sent nothing.
LEMMA UnsentIsAlone ==
  ASSUME WireInv, ~ agent.sent, NEW b \in batches \cup acks
  PROVE  ~ Mine(b)
  BY DEF WireInv, Current, Sent
\* The same after a step.
LEMMA UnsentIsAloneNext ==
  ASSUME WireInv', ~ agent'.sent, NEW b \in batches' \cup acks'
  PROVE  ~ Mine(b)'
  BY DEF WireInv, Current, Sent

\* The number of the Agent's batch.
LEMMA AgentNumber ==
  ASSUME Types, AckInv, MarkInv, agent.job # Null
  PROVE  /\ agent.job \in Job /\ agent.no \in Nat
         /\ agent.no = watermark[agent.job].last + 1
         /\ watermark[agent.job].last \in Int /\ jobs[agent.job].last \in Int
         /\ agent.no - 1 <= jobs[agent.job].last
  <1>1. agent.job \in Job /\ agent.no \in Int
    BY AgentType DEF Upload
  <1>2. watermark[agent.job].last \in Int /\ jobs[agent.job].last \in Int
    BY <1>1, WatermarkType, JobsType DEF JobRow
  <1>3. /\ agent.no = watermark[agent.job].last + 1
        /\ watermark[agent.job].last <= jobs[agent.job].last
        /\ watermark[agent.job].last >= -1
    BY <1>1 DEF AckInv, AckedIsCommitted, MarkInv
  <1> QED BY <1>1, <1>2, <1>3

\* Every step keeps the transaction within reach of the watermark.
LEMMA MarkStep ==
  ASSUME Types, MadeInv, AckInv, WireInv, MarkInv, [Next]_vars
  PROVE  MarkInv'
  <1>1. ASSUME UNCHANGED watermark, tx' # Null => tx # Null /\ tx'.batch = tx.batch
        PROVE  MarkInv'
    BY <1>1 DEF MarkInv
  <1>2. ASSUME NEW j \in Job, CreateSyncJob(j) \/ sendCommand(j)
        PROVE  MarkInv'
    <2>1. UNCHANGED <<watermark, tx>>
      BY <1>2, Zenon DEF CreateSyncJob, sendCommand
    <2> QED BY <1>1, <2>1
  <1>3. ASSUME NEW j \in starts, ReceiveStart(j)
        PROVE  MarkInv'
    BY <1>1, <1>3, StartRead
  <1>4. CASE SendBatch
    BY <1>1, <1>4, BatchSent
  <1>5. ASSUME NEW b \in acks, ReceiveAck(b)
        PROVE  MarkInv'
    <2>1. CASE ~ Mine(b)
      BY <1>1, <1>5, <2>1, AckRead, ZenonT(30)
    <2>2. CASE Mine(b)
      <3>1. /\ watermark' = [watermark EXCEPT ![b.job] = [last |-> b.no, done |-> b.done]]
            /\ b.no = agent.no /\ b.job = agent.job /\ UNCHANGED tx
        BY <1>5, <2>2, AckRead DEF Current, Mine
      <3>2. b.job \in Job
        BY WireType DEF Message
      <3>3. agent.no \in Nat /\ agent.no = watermark[b.job].last + 1
        BY <3>1, <3>2, AgentNumber, Constants
      <3>4. /\ watermark'[b.job].last = agent.no
            /\ \A j \in Job \ {b.job} : watermark'[j].last = watermark[j].last
        BY <3>1, <3>2, WatermarkType
      <3>5. \A j \in Job : watermark'[j].last >= -1
        BY <3>3, <3>4 DEF MarkInv
      <3>6. tx # Null => tx.batch.no <= watermark'[tx.batch.job].last + 1
        <4>1. tx # Null => tx.batch.job \in Job /\ tx.batch.no \in Int
          BY TxType DEF Transaction, Message
        <4> QED BY <3>3, <3>4, <4>1 DEF MarkInv
      <3> QED BY <3>1, <3>5, <3>6 DEF MarkInv
    <2> QED BY <2>1, <2>2
  <1>6. CASE Drop
    BY <1>1, <1>6, Dropped
  <1>7. ASSUME NEW b \in batches, Reject(b) \/ Replay(b)
        PROVE  MarkInv'
    <2>1. UNCHANGED <<watermark, tx>>
      BY <1>7, Zenon DEF Reject, Replay
    <2> QED BY <1>1, <2>1
  <1>8. ASSUME NEW b \in batches, BeginReconciliation(b)
        PROVE  MarkInv'
    <2>1. UNCHANGED watermark /\ tx'.batch = b /\ b.done
      BY <1>8 DEF BeginReconciliation, Reconciles
    <2>2. b.item = Null /\ b.no <= watermark[b.job].last + 1
      BY <2>1 DEF WireInv, Sent, AckInv
    <2> QED BY <2>1, <2>2 DEF MarkInv
  <1>9. ASSUME NEW b, Commits(b)
        PROVE  MarkInv'
    BY <1>1, <1>9 DEF Commits
  <1>10. CASE AbortReconciliation
    <2>1. UNCHANGED watermark /\ tx' = Null
      BY <1>10, Zenon DEF AbortReconciliation
    <2> QED BY <1>1, <2>1
  <1>11. CASE Quiet
    BY <1>1, <1>11 DEF Quiet
  <1> QED BY <1>2, <1>3, <1>4, <1>5, <1>6, <1>7, <1>8, <1>9, <1>10, <1>11, Steps, Zenon

\* A step that brings nothing new for the upload keeps NumberInv.
LEMMA SameNumbers ==
  ASSUME NumberInv, UNCHANGED agent,
         agent.job # Null => jobs'[agent.job].last = jobs[agent.job].last,
         batches' \subseteq batches, acks' \subseteq acks,
         tx' # Null /\ ~ tx'.alive => tx # Null /\ ~ tx.alive /\ tx'.batch = tx.batch
  PROVE  NumberInv'
  BY DEF NumberInv, Unresumed, Mine

\* Every step keeps how far an upload in one piece has come.
LEMMA NumberStep ==
  ASSUME Types, MadeInv, AckInv, OrderInv, WireInv, MarkInv, NumberInv, [Next]_vars
  PROVE  NumberInv'
  <1>0. WireInv'
    BY WireStep
  <1>1. ASSUME NEW j \in Job, CreateSyncJob(j)
        PROVE  NumberInv'
    <2>1. /\ UNCHANGED <<agent, batches, acks, tx>> /\ jobs[j].status = "absent"
          /\ \A i \in Job \ {j} : jobs'[i] = jobs[i]
      BY <1>1, JobsType DEF CreateSyncJob, wire
    <2>2. agent.job # Null => agent.job \in Job \ {j}
      BY <2>1 DEF MadeInv, Made
    <2> QED BY <2>1, <2>2, SameNumbers
  <1>2. ASSUME NEW j \in Job, sendCommand(j)
        PROVE  NumberInv'
    <2>1. UNCHANGED <<jobs, agent, batches, acks, tx>>
      BY <1>2, Zenon DEF sendCommand, store
    <2> QED BY <2>1, SameNumbers
  <1>3. ASSUME NEW j \in starts, ReceiveStart(j)
        PROVE  NumberInv'
    <2>1. UNCHANGED <<jobs, tx, watermark, batches, acks>>
      BY <1>3, StartRead
    <2>2. CASE agent' = agent
      BY <2>1, <2>2, SameNumbers
    <2>3. CASE agent' # agent
      <3>1. /\ agent'.job = j /\ agent'.no = watermark[j].last + 1 /\ ~ agent'.sent
            /\ ~ agent'.resumed => agent'.no <= 0
        BY <1>3, <2>3, StartRead
      <3>2. \A b \in batches' \cup acks' : ~ Mine(b)'
        BY <1>0, <3>1, UnsentIsAloneNext
      <3>3. ASSUME Unresumed', tx # Null, tx.batch.job = j
            PROVE  tx.batch.no = 0
        <4>1. j \in Job /\ watermark[j].last \in Int /\ jobs[j].last \in Int /\ tx.batch.no \in Int
          BY <3>3, WireType, WatermarkType, JobsType, TxType
             DEF JobRow, Transaction, Message
        <4>2. /\ tx.batch.no <= watermark[j].last + 1 /\ watermark[j].last >= -1
              /\ watermark[j].last <= jobs[j].last /\ tx.batch.no = jobs[j].last + 1
          BY <3>3, <4>1, Zenon DEF MarkInv, AckInv, AckedIsCommitted
        <4>3. watermark[j].last + 1 <= 0
          BY <3>1, <3>3 DEF Unresumed
        <4> QED BY <4>1, <4>2, <4>3
      <3>4. Unresumed' => ~ (agent'.no > 0)
        <4>1. j \in Job /\ watermark[j].last \in Int
          BY WireType, WatermarkType
        <4> QED BY <3>1, <4>1 DEF Unresumed
      <3> QED BY <2>1, <3>1, <3>2, <3>3, <3>4 DEF NumberInv, Mine
    <2> QED BY <2>2, <2>3
  <1>4. CASE SendBatch
    <2>1. /\ UNCHANGED <<jobs, tx, acks>> /\ agent.job # Null /\ ~ agent.sent /\ agent'.sent
          /\ agent'.job = agent.job /\ agent'.no = agent.no /\ agent'.resumed = agent.resumed
      BY <1>4, BatchSent
    <2>2. PICK x \in agent.left \cup {Null} : batches' = {Batch(x)}
      BY <1>4, BatchSent
    <2>3. Batch(x).job = agent.job /\ Batch(x).no = agent.no
      BY DEF Batch
    <2>4. \A b \in acks : ~ Mine(b)
      BY <2>1, UnsentIsAlone
    <2> QED BY <2>1, <2>2, <2>3, <2>4 DEF NumberInv, Unresumed, Mine
  <1>5. ASSUME NEW b \in acks, ReceiveAck(b)
        PROVE  NumberInv'
    <2>1. UNCHANGED <<jobs, tx, batches>> /\ acks' \subseteq acks
      BY <1>5, AckRead, ZenonT(30)
    <2>2. CASE ~ Mine(b)
      <3>1. UNCHANGED agent
        BY <1>5, <2>2, AckRead, ZenonT(30)
      <3> QED BY <2>1, <3>1, SameNumbers
    <2>3. CASE Mine(b)
      <3>1. /\ Current(b)
            /\ \/ agent'.job = Null
               \/ /\ agent'.job = agent.job /\ agent'.no = agent.no + 1 /\ ~ agent'.sent
                  /\ agent'.resumed = agent.resumed
        BY <1>5, <2>3, AckRead, ZenonT(30)
      <3>2. CASE agent'.job = Null
        BY <3>2 DEF NumberInv, Unresumed
      <3>3. CASE agent'.job # Null
        <4>1. \A c \in batches' \cup acks' : ~ Mine(c)'
          BY <1>0, <3>1, <3>3, UnsentIsAloneNext
        <4>2. agent.no \in Nat /\ b.no = agent.no /\ b.job = agent.job
          BY <2>3, <3>1, <3>3, AgentNumber DEF Current, Mine
        <4>3. Unresumed => jobs[agent.job].last = agent.no
          BY <2>3, <4>2 DEF NumberInv
        <4>4. Unresumed' => Unresumed
          BY <3>1, <3>3, Zenon DEF Unresumed
        <4>5. Unresumed' => jobs'[agent'.job].last = agent'.no - 1
          BY <2>1, <3>1, <3>3, <4>2, <4>3, <4>4
        <4>6. Unresumed' /\ tx' # Null /\ ~ tx'.alive /\ Mine(tx.batch)' => tx'.batch.no = 0
          BY <2>1, <3>1, <3>3, <4>4 DEF NumberInv, Mine
        <4> QED BY <2>1, <4>1, <4>5, <4>6, Zenon DEF NumberInv
      <3> QED BY <3>2, <3>3
    <2> QED BY <2>2, <2>3
  <1>6. CASE Drop
    BY <1>6, Dropped DEF NumberInv, Unresumed
  <1>7. ASSUME NEW b \in batches, Reject(b)
        PROVE  NumberInv'
    <2>1. UNCHANGED <<jobs, agent, acks, tx>> /\ batches' = {}
      BY <1>7 DEF Reject, store
    <2> QED BY <2>1, SameNumbers
  <1>8. ASSUME NEW b \in batches, Replay(b)
        PROVE  NumberInv'
    <2>1. /\ UNCHANGED <<jobs, agent, tx>> /\ batches' = {} /\ acks' = acks \cup {b}
          /\ b.no = jobs[b.job].last
      BY <1>8 DEF Replay, store, Replayed
    <2> QED BY <2>1 DEF NumberInv, Unresumed, Mine
  <1>9. ASSUME NEW b \in batches, BeginReconciliation(b)
        PROVE  NumberInv'
    <2>1. UNCHANGED <<jobs, agent, acks>> /\ batches' = {} /\ tx'.alive
      BY <1>9 DEF BeginReconciliation, store
    <2> QED BY <2>1, SameNumbers
  <1>10. ASSUME NEW b \in batches, ApplyBootstrapBatch(b), Commits(b)
         PROVE  NumberInv'
    <2>1. /\ UNCHANGED agent /\ batches' = {} /\ acks' = acks \cup {b} /\ tx' = Null
          /\ jobs[b.job].status # "completed"
      BY <1>10 DEF ApplyBootstrapBatch, Commits
    <2>2. Mine(b) /\ Current(b)
      BY <2>1, OpenIsMine DEF Sent
    <2>3. agent.sent /\ \A a \in acks : ~ Mine(a)
      BY <2>2 DEF Current, WireInv, AtMostOne
    <2>4. jobs'[b.job].last = b.no
      BY <1>10, CommitRow
    <2> QED BY <2>1, <2>2, <2>3, <2>4 DEF NumberInv, Mine
  <1>11. ASSUME CommitReconciliation, Commits(tx.batch)
         PROVE  NumberInv'
    <2>1. PICK b : b = tx.batch
      OBVIOUS
    <2>2. /\ UNCHANGED <<agent, batches>> /\ tx # Null /\ tx' = Null
          /\ acks' = IF tx.alive THEN acks \cup {b} ELSE acks
          /\ jobs[b.job].status # "completed" /\ b.no = jobs[b.job].last + 1
      BY <1>11, <2>1, Zenon DEF CommitReconciliation, Commits
    <2>3. /\ b.job \in Job /\ jobs'[b.job].last = b.no
          /\ \A j \in Job \ {b.job} : jobs'[j] = jobs[j]
      BY <1>11, <2>1, CommitRow
    <2>4. CASE tx.alive
      <3>1. Mine(b) /\ Current(b)
        BY <2>1, <2>2, <2>4, OpenIsMine DEF Sent
      <3>2. agent.sent /\ \A a \in batches \cup acks : ~ Mine(a)
        BY <2>1, <2>2, <2>4, <3>1 DEF Current, WireInv, AtMostOne
      <3> QED BY <2>2, <2>3, <2>4, <3>1, <3>2 DEF NumberInv, Mine
    <2>5. CASE ~ tx.alive /\ ~ Mine(b)
      <3>1. agent.job # Null => jobs'[agent.job] = jobs[agent.job]
        BY <2>3, <2>5, AgentType DEF Mine, Upload
      <3> QED BY <2>2, <2>5, <3>1, SameNumbers
    <2>6. CASE ~ tx.alive /\ Mine(b)
      <3> SUFFICES ASSUME Unresumed
                   PROVE  NumberInv'
        BY <2>2 DEF NumberInv, Unresumed
      <3>1. b.no = 0 /\ b.job = agent.job
        BY <2>1, <2>2, <2>6 DEF NumberInv, Mine
      <3>2. agent.no \in Nat /\ agent.no - 1 <= jobs[b.job].last /\ jobs[b.job].last \in Int
        BY <3>1, AgentNumber DEF Unresumed
      <3>3. agent.no = 0
        BY <2>2, <3>1, <3>2
      <3>4. \A a \in batches \cup acks : Mine(a) => a.no = agent.no
        BY DEF WireInv, Sent, Current
      <3>5. \A a \in acks : ~ Mine(a)
        BY <2>2, <3>1, <3>2, <3>3, <3>4 DEF NumberInv, Mine
      <3>6. ~ agent.no > 0 /\ \A a \in batches : Mine(a) => ~ a.no > 0
        BY <3>3, <3>4
      <3>7. \A a : Mine(a)' <=> Mine(a)
        BY <2>2, Zenon DEF Mine
      <3> QED BY <2>2, <2>6, <3>5, <3>6, <3>7, Zenon DEF NumberInv
    <2> QED BY <2>4, <2>5, <2>6
  <1>12. CASE AbortReconciliation
    <2>1. UNCHANGED <<jobs, agent, batches, acks>> /\ tx' = Null
      BY <1>12, Zenon DEF AbortReconciliation, store, wire
    <2> QED BY <2>1, SameNumbers
  <1>13. CASE Quiet
    BY <1>13, SameNumbers DEF Quiet
  <1> QED BY <1>1, <1>2, <1>3, <1>4, <1>5, <1>6, <1>7, <1>8, <1>9, <1>10, <1>11, <1>12, <1>13,
             Steps, Zenon

-----------------------------------------------------------------------------
(* The first batch of a job.                                               *)

\* A step that brings nothing new for the upload keeps FirstInv.
LEMMA SameFirst ==
  ASSUME FirstInv, UNCHANGED agent, batches' \subseteq batches
  PROVE  FirstInv'
  BY DEF FirstInv, Unresumed, Mine

\* Every step keeps batch 0 a Project or nothing.
LEMMA FirstStep ==
  ASSUME Types, MadeInv, AckInv, OrderInv, WireInv, MarkInv, FirstInv, [Next]_vars
  PROVE  FirstInv'
  <1>0. WireInv'
    BY WireStep
  <1>1. ASSUME NEW j \in Job, CreateSyncJob(j) \/ sendCommand(j)
        PROVE  FirstInv'
    <2>1. UNCHANGED <<agent, batches>>
      BY <1>1, Zenon DEF CreateSyncJob, sendCommand, wire
    <2> QED BY <2>1, SameFirst
  <1>2. ASSUME NEW j \in starts, ReceiveStart(j)
        PROVE  FirstInv'
    <2>1. CASE agent' = agent
      BY <1>2, <2>1, StartRead, SameFirst
    <2>2. CASE agent' # agent
      <3>1. /\ ~ agent'.sent /\ agent'.manifest = Catalogue
            /\ agent'.no = 0 => agent'.left = agent'.manifest
        BY <1>2, <2>2, StartRead
      <3>2. \A b \in batches' : ~ Mine(b)'
        BY <1>0, <3>1, UnsentIsAloneNext
      <3>3. \A s \in Catalogue \cap Session : ProjectOf[s] \in Catalogue
        BY Constants DEF Catalogue
      <3> QED BY <3>1, <3>2, <3>3 DEF FirstInv
    <2> QED BY <2>1, <2>2
  <1>3. CASE SendBatch
    <2>1. /\ agent.job # Null /\ ~ agent.sent /\ agent'.sent
          /\ agent'.job = agent.job /\ agent'.resumed = agent.resumed
      BY <1>3, BatchSent
    <2>2. PICK x \in agent.left \cup {Null} :
            batches' = {Batch(x)} /\ (x \in Session => agent.left \cap Project = {})
      BY <1>3, BatchSent
    <2>3. Batch(x).item = x /\ Batch(x).no = agent.no
      BY DEF Batch
    <2>4. ASSUME Unresumed, agent.no = 0
          PROVE  x \notin Session
      <3>1. /\ agent.left = agent.manifest
            /\ \A s \in agent.manifest \cap Session : ProjectOf[s] \in agent.manifest
        BY <2>1, <2>4 DEF FirstInv
      <3>2. x \in Session => x \in agent.left /\ ProjectOf[x] \in Project
        BY Constants
      <3> QED BY <2>2, <3>1, <3>2
    <2> QED BY <2>1, <2>2, <2>3, <2>4 DEF FirstInv, Unresumed
  <1>4. ASSUME NEW b \in acks, ReceiveAck(b)
        PROVE  FirstInv'
    <2>1. UNCHANGED batches
      BY <1>4, AckRead, ZenonT(30)
    <2>2. CASE ~ Mine(b)
      <3>1. UNCHANGED agent
        BY <1>4, <2>2, AckRead, Zenon
      <3> QED BY <2>1, <3>1, SameFirst
    <2>3. CASE Mine(b)
      <3>1. \/ agent'.job = Null
            \/ agent'.job = agent.job /\ agent'.no = agent.no + 1 /\ ~ agent'.sent
        BY <1>4, <2>3, AckRead, Zenon
      <3>2. CASE agent'.job = Null
        BY <3>2 DEF FirstInv, Unresumed
      <3>3. CASE agent'.job # Null
        <4>1. \A c \in batches' : ~ Mine(c)'
          BY <1>0, <3>1, <3>3, UnsentIsAloneNext
        <4>2. agent.no \in Nat
          BY <3>1, <3>3, AgentNumber
        <4>3. agent'.no # 0
          BY <3>1, <3>3, <4>2
        <4> QED BY <4>1, <4>3 DEF FirstInv
      <3> QED BY <3>2, <3>3
    <2> QED BY <2>2, <2>3
  <1>5. CASE Drop
    BY <1>5, Dropped DEF FirstInv, Unresumed
  <1>6. ASSUME NEW b \in batches, Reject(b) \/ Replay(b) \/ BeginReconciliation(b)
        PROVE  FirstInv'
    <2>1. UNCHANGED agent /\ batches' = {}
      BY <1>6, Zenon DEF Reject, Replay, BeginReconciliation
    <2> QED BY <2>1, SameFirst
  <1>7. ASSUME NEW b \in batches, ApplyBootstrapBatch(b)
        PROVE  FirstInv'
    <2>1. UNCHANGED agent /\ batches' = {}
      BY <1>7, Zenon DEF ApplyBootstrapBatch
    <2> QED BY <2>1, SameFirst
  <1>8. CASE CommitReconciliation \/ AbortReconciliation
    <2>1. UNCHANGED <<agent, batches>>
      BY <1>8, Zenon DEF CommitReconciliation, AbortReconciliation, wire
    <2> QED BY <2>1, SameFirst
  <1>9. CASE Quiet
    BY <1>9, SameFirst DEF Quiet
  <1> QED BY <1>1, <1>2, <1>3, <1>4, <1>5, <1>6, <1>7, <1>8, <1>9, Steps, Zenon

\* What the batch of a snapshot and the archiving transaction do to the rows.
LEMMA RowsImported ==
  ASSUME Types, NEW b \in batches, ApplyBootstrapBatch(b)
  PROVE  /\ Touched(b.snapshot)
         /\ b.item \in Project => projects'[b.item].updated = Now
         /\ b.item \in Project => projects'[b.item].seen = b.snapshot
         /\ b.item \in Session => sessions'[b.item].seen = b.snapshot
  <1>1. projects' = ImportProjects(b) /\ sessions' = ImportSessions(b)
    BY Zenon DEF ApplyBootstrapBatch
  <1>2. /\ \A p \in Project : p # b.item => projects'[p] = projects[p]
        /\ b.item \in Project => /\ projects'[b.item].updated = Now
                                 /\ projects'[b.item].seen = b.snapshot
    BY <1>1 DEF ImportProjects
  <1>3. /\ \A s \in Session : s # b.item => sessions'[s] = sessions[s]
        /\ b.item \in Session => sessions'[b.item].seen = b.snapshot
    BY <1>1 DEF ImportSessions
  <1> QED BY <1>2, <1>3 DEF Touched

\* A reconciliation archives rows; a Project it archives is written now.
LEMMA RowsArchived ==
  ASSUME Types, CommitReconciliation, NEW n
  PROVE  Touched(n)
  <1>1. /\ projects' = [p \in Project |-> [projects[p] EXCEPT !.archived = @ \/ StaleProject(p),
              !.updated = IF StaleProject(p) THEN Now ELSE @]]
        /\ sessions' = [s \in Session |->
              [sessions[s] EXCEPT !.archived = @ \/ StaleSession(sessions[s], tx.batch)]]
    BY Zenon DEF CommitReconciliation
  <1>2. ASSUME NEW p \in Project
        PROVE  \/ projects'[p].updated = Now
               \/ projects'[p].seen = projects[p].seen /\ projects'[p].updated = projects[p].updated
    BY <1>1, ProjectsType, ZenonT(30) DEF ProjectRow
  <1>3. ASSUME NEW s \in Session
        PROVE  sessions'[s].seen = sessions[s].seen /\ sessions'[s].updated = sessions[s].updated
    BY <1>1, SessionsType, ZenonT(30) DEF SessionRow
  <1> QED BY <1>2, <1>3 DEF Touched

\* Every step keeps the Project of a committed batch 0 younger than its job.
LEMMA ZeroStep ==
  ASSUME Types, MadeInv, AckInv, OrderInv, WireInv, MarkInv, ZeroInv, [Next]_vars
  PROVE  ZeroInv'
  <1>1. ASSUME NEW n, Touched(n), NEW j \in Made, jobs'[j] = jobs[j],
               jobs[j].last = 0, jobs[j].checksum[1] \in Project
        PROVE  projects'[jobs'[j].checksum[1]].updated > jobs'[j].created
    <2>1. PICK p \in Project : p = jobs[j].checksum[1]
      BY <1>1
    <2>2. /\ projects[p].updated > jobs[j].created /\ jobs[j].created < Now
          /\ projects'[p].updated = Now \/ projects'[p].updated = projects[p].updated
      BY <1>1, <2>1 DEF ZeroInv, OrderInv, Touched
    <2>3. jobs[j].created \in Int /\ Now \in Int
      BY NowType, JobsType DEF Made, JobRow
    <2> QED BY <1>1, <2>1, <2>2, <2>3
  <1>2. ASSUME NEW n, Touched(n), UNCHANGED jobs
        PROVE  ZeroInv'
    <2>1. Made' = Made
      BY <1>2 DEF Made
    <2>2. \A j \in Made : jobs'[j] = jobs[j]
      BY <1>2
    <2> QED BY <1>1, <1>2, <2>1, <2>2 DEF ZeroInv
  <1>3. ASSUME UNCHANGED <<jobs, projects, sessions>>
        PROVE  ZeroInv'
    <2>1. Touched(0)
      BY <1>3, SameRows
    <2> QED BY <1>2, <1>3, <2>1
  <1>4. ASSUME NEW j \in Job, CreateSyncJob(j)
        PROVE  ZeroInv'
    <2> DEFINE row == [AbsentJob EXCEPT !.status = "queued", !.created = Now]
    <2>1. row.last = -1
      BY DEF AbsentJob
    <2>2. jobs' = [jobs EXCEPT ![j] = row] /\ UNCHANGED projects
      BY <1>4, Zenon DEF CreateSyncJob
    <2> HIDE DEF row
    <2>3. jobs'[j].last = -1 /\ \A i \in Job \ {j} : jobs'[i] = jobs[i]
      BY <2>1, <2>2, JobsType
    <2> QED BY <2>2, <2>3 DEF ZeroInv, Made
  <1>5. ASSUME NEW j \in Job, sendCommand(j)
        PROVE  ZeroInv'
    <2>1. UNCHANGED <<jobs, projects, sessions>>
      BY <1>5, Zenon DEF sendCommand, store
    <2> QED BY <1>3, <2>1
  <1>6. ASSUME NEW j \in starts, ReceiveStart(j)
        PROVE  ZeroInv'
    BY <1>3, <1>6, StartRead
  <1>7. CASE SendBatch
    BY <1>3, <1>7, BatchSent
  <1>8. ASSUME NEW b \in acks, ReceiveAck(b)
        PROVE  ZeroInv'
    BY <1>3, <1>8, AckRead, ZenonT(30)
  <1>9. CASE Drop
    BY <1>3, <1>9, Dropped
  <1>10. ASSUME NEW b \in batches, Reject(b) \/ Replay(b) \/ BeginReconciliation(b)
         PROVE  ZeroInv'
    <2>1. UNCHANGED <<jobs, projects, sessions>>
      BY <1>10, Zenon DEF Reject, Replay, BeginReconciliation, store
    <2> QED BY <1>3, <2>1
  <1>11. ASSUME NEW b, Commits(b), NEW n, Touched(n),
                b.item \in Project => projects'[b.item].updated = Now
         PROVE  ZeroInv'
    <2>1. /\ b.job \in Job /\ jobs'[b.job].checksum = Checksum(b)
          /\ \A j \in Job \ {b.job} : jobs'[j] = jobs[j]
          /\ jobs'[b.job].created = jobs[b.job].created /\ Made' = Made
      BY <1>11, CommitRow
    <2>2. Checksum(b)[1] = b.item
      BY DEF Checksum
    <2>3. b.job \in Made /\ jobs[b.job].created < Now
      BY <1>11 DEF Commits, OrderInv
    <2>4. jobs[b.job].created \in Int /\ Now \in Int
      BY <2>1, NowType, JobsType DEF JobRow
    <2>5. ASSUME NEW j \in Made, jobs'[j].last = 0, jobs'[j].checksum[1] \in Project
          PROVE  projects'[jobs'[j].checksum[1]].updated > jobs'[j].created
      <3>1. CASE j = b.job
        BY <1>11, <2>1, <2>2, <2>3, <2>4, <2>5, <3>1
      <3>2. CASE j # b.job
        <4>1. jobs'[j] = jobs[j]
          BY <2>1, <3>2 DEF Made
        <4> QED BY <1>1, <1>11, <2>5, <4>1
      <3> QED BY <3>1, <3>2
    <2> QED BY <2>1, <2>5 DEF ZeroInv
  <1>12. ASSUME NEW b \in batches, ApplyBootstrapBatch(b), Commits(b)
         PROVE  ZeroInv'
    BY <1>11, <1>12, RowsImported
  <1>13. ASSUME CommitReconciliation, Commits(tx.batch)
         PROVE  ZeroInv'
    <2>1. tx.batch.item \notin Project
      BY <1>13, Constants, Zenon DEF CommitReconciliation, MarkInv, Item
    <2>2. Touched(0)
      BY <1>13, RowsArchived
    <2> QED BY <1>11, <1>13, <2>1, <2>2
  <1>14. CASE AbortReconciliation
    <2>1. UNCHANGED <<jobs, projects, sessions>>
      BY <1>14, Zenon DEF AbortReconciliation, store
    <2> QED BY <1>3, <2>1
  <1>15. CASE Quiet
    <2>1. UNCHANGED jobs /\ \A n \in Int : Touched(n)
      BY <1>15, Zenon DEF Quiet
    <2>2. 0 \in Int
      OBVIOUS
    <2> QED BY <1>2, <2>1, <2>2, Zenon
  <1> QED BY <1>4, <1>5, <1>6, <1>7, <1>8, <1>9, <1>10, <1>12, <1>13, <1>14, <1>15, Steps, Zenon

-----------------------------------------------------------------------------
(* What an upload has brought.                                             *)

\* A fresh row stays fresh while rows are touched.
LEMMA FreshStays ==
  ASSUME Types, OrderInv, NEW j \in Made, NEW n, NEW x, Touched(n),
         jobs'[j].created = jobs[j].created, Fresh(x, n, j)
  PROVE  Fresh(x, n, j)'
  <1>1. jobs[j].created \in Int /\ Now \in Int /\ jobs[j].created < Now
    BY NowType, JobsType DEF Made, JobRow, OrderInv
  <1>2. x \in Project => projects'[x].seen = n \/ projects'[x].updated > jobs'[j].created
    BY <1>1 DEF Fresh, Touched
  <1>3. x \in Session => sessions'[x].seen = n \/ sessions'[x].updated > jobs'[j].created
    BY <1>1 DEF Fresh, Touched
  <1> QED BY <1>2, <1>3 DEF Fresh

\* A step that leaves the upload alone keeps its rows fresh.
LEMMA UploadStays ==
  ASSUME Types, OrderInv, agent.job \in Made, Touched(agent.snapshot),
         jobs'[agent.job].created = jobs[agent.job].created,
         agent'.job = agent.job, agent'.snapshot = agent.snapshot,
         agent'.manifest = agent.manifest, agent'.left = agent.left,
         NEW y, UploadedBut(y)
  PROVE  UploadedBut(y)'
  <1> SUFFICES ASSUME NEW x \in agent.manifest \ agent.left, x # y
               PROVE  Fresh(x, agent.snapshot, agent.job)'
    BY DEF UploadedBut, Fresh
  <1>1. PICK j \in Made : j = agent.job
    OBVIOUS
  <1>2. PICK n : n = agent.snapshot
    BY Zenon
  <1>3. Fresh(x, n, j)
    BY <1>1, <1>2 DEF UploadedBut
  <1>4. Fresh(x, n, j)'
    BY <1>1, <1>2, <1>3, FreshStays
  <1> QED BY <1>1, <1>2, <1>4 DEF Fresh

\* The Agent does nothing, and no message is added.
LEMMA SameUpload ==
  ASSUME Types, MadeInv, OrderInv, UploadInv, UNCHANGED agent,
         agent.job # Null => jobs'[agent.job].created = jobs[agent.job].created,
         Touched(agent.snapshot), batches' \subseteq batches, acks' \subseteq acks
  PROVE  UploadInv'
  <1> SUFFICES ASSUME Unresumed
               PROVE  UploadInv'
    BY DEF UploadInv, Unresumed
  <1>1. agent.job \in Made /\ jobs'[agent.job].created = jobs[agent.job].created
    BY DEF Unresumed, MadeInv
  <1>2. \A y : UploadedBut(y) => UploadedBut(y)'
    BY <1>1, UploadStays
  <1>3. ~ agent'.sent => UploadedBut(Null)'
    BY <1>2 DEF UploadInv
  <1>4. \A b \in acks' : Mine(b)' => UploadedBut(Null)'
    BY <1>2 DEF UploadInv, Mine
  <1>5. \A b \in batches' : Mine(b)' => UploadedBut(b.item)'
    BY <1>2 DEF UploadInv, Mine
  <1> QED BY <1>3, <1>4, <1>5 DEF UploadInv, UploadedBut, Fresh

\* A batch that was committed before, of an upload in one piece, has a fresh item.
LEMMA ReplayedIsFresh ==
  ASSUME Types, MadeInv, AckInv, WireInv, MarkInv, NumberInv, FirstInv, ZeroInv,
         Unresumed, NEW b \in batches, Mine(b), Replayed(b), b.item # Null
  PROVE  Fresh(b.item, agent.snapshot, agent.job)
  <1>1. b.no = agent.no /\ b.job = agent.job /\ agent.job \in Made
    BY DEF WireInv, Sent, Current, Mine, Unresumed, MadeInv
  <1>2. agent.no \in Nat /\ jobs[b.job].last \in Int
    BY <1>1, AgentNumber DEF Unresumed
  <1>3. b.no = jobs[b.job].last /\ jobs[b.job].checksum = Checksum(b)
    BY DEF Replayed
  <1>4. b.no = 0
    BY <1>1, <1>2, <1>3 DEF NumberInv
  <1>5. b.item \in Item /\ b.item \notin Session
    BY <1>4, WireType DEF FirstInv, Message
  <1>6. b.item \in Project /\ jobs[b.job].checksum[1] = b.item
    <2>1. b.item \in Project
      BY <1>5, Zenon DEF Item
    <2>2. Checksum(b)[1] = b.item
      BY DEF Checksum
    <2> QED BY <1>3, <2>1, <2>2, Zenon
  <1>7. projects[b.item].updated > jobs[b.job].created
    BY <1>1, <1>3, <1>4, <1>6, Zenon DEF ZeroInv
  <1> QED BY <1>1, <1>5, <1>7 DEF Fresh

\* Every step keeps what an upload in one piece has brought fresh.
LEMMA UploadStep ==
  ASSUME Types, MadeInv, AckInv, OrderInv, WireInv, MarkInv, NumberInv, FirstInv, ZeroInv,
         UploadInv, ClosedInv, [Next]_vars
  PROVE  UploadInv'
  <1>0. WireInv'
    BY WireStep
  <1>1. ASSUME UNCHANGED <<jobs, projects, sessions, agent>>,
               batches' \subseteq batches, acks' \subseteq acks
        PROVE  UploadInv'
    BY <1>1, SameRows, SameUpload
  <1>2. ASSUME NEW j \in Job, CreateSyncJob(j)
        PROVE  UploadInv'
    <2>1. /\ UNCHANGED <<projects, sessions, agent, batches, acks>> /\ jobs[j].status = "absent"
          /\ \A i \in Job \ {j} : jobs'[i] = jobs[i]
      BY <1>2, JobsType DEF CreateSyncJob, wire
    <2>2. agent.job # Null => jobs'[agent.job] = jobs[agent.job]
      BY <2>1 DEF MadeInv, Made
    <2> QED BY <2>1, <2>2, SameRows, SameUpload
  <1>3. ASSUME NEW j \in Job, sendCommand(j)
        PROVE  UploadInv'
    <2>1. UNCHANGED <<jobs, projects, sessions, agent, batches, acks>>
      BY <1>3, Zenon DEF sendCommand, store
    <2> QED BY <1>1, <2>1
  <1>4. ASSUME NEW j \in starts, ReceiveStart(j)
        PROVE  UploadInv'
    <2>1. UNCHANGED <<jobs, projects, sessions, batches, acks>>
      BY <1>4, StartRead
    <2>2. CASE agent' = agent
      BY <1>1, <2>1, <2>2
    <2>3. CASE agent' # agent
      <3>1. /\ agent'.no = watermark[j].last + 1 /\ ~ agent'.sent
            /\ ~ agent'.resumed => agent'.no <= 0
            /\ agent'.no = 0 => agent'.left = agent'.manifest
        BY <1>4, <2>3, StartRead
      <3>2. \A b \in batches' \cup acks' : ~ Mine(b)'
        BY <1>0, <3>1, UnsentIsAloneNext
      <3>3. j \in Job /\ watermark[j].last \in Int /\ watermark[j].last >= -1
        BY WireType, WatermarkType DEF MarkInv
      <3>4. Unresumed' => agent'.left = agent'.manifest
        BY <3>1, <3>3 DEF Unresumed
      <3>5. Unresumed' => UploadedBut(Null)'
        BY <3>4 DEF UploadedBut
      <3> QED BY <3>2, <3>5 DEF UploadInv
    <2> QED BY <2>2, <2>3
  <1>5. CASE SendBatch
    <2>1. /\ UNCHANGED <<jobs, projects, sessions, acks>>
          /\ agent.job # Null /\ ~ agent.sent /\ agent'.sent
          /\ agent'.job = agent.job /\ agent'.snapshot = agent.snapshot
          /\ agent'.manifest = agent.manifest /\ agent'.resumed = agent.resumed
      BY <1>5, BatchSent
    <2>2. PICK x \in agent.left \cup {Null} :
            batches' = {Batch(x)} /\ agent'.left = agent.left \ {x}
      BY <1>5, BatchSent
    <2>3. Batch(x).item = x
      BY DEF Batch
    <2>4. \A b \in acks' : ~ Mine(b)'
      BY <2>1, UnsentIsAlone DEF Mine
    <2>5. ASSUME Unresumed
          PROVE  UploadedBut(x)'
      <3>1. \A y \in agent.manifest : y # Null
        BY AgentType, Constants DEF Upload
      <3>2. \A y \in agent.manifest \ agent.left : Fresh(y, agent.snapshot, agent.job)
        BY <2>1, <2>5, <3>1 DEF UploadInv, UploadedBut
      <3>3. \A y \in agent'.manifest \ agent'.left : y # x => y \in agent.manifest \ agent.left
        BY <2>1, <2>2
      <3> QED BY <2>1, <3>2, <3>3 DEF UploadedBut, Fresh
    <2>6. \A b \in batches' : b.item = x
      BY <2>2, <2>3
    <2>7. Unresumed' => Unresumed
      BY <2>1 DEF Unresumed
    <2> QED BY <2>1, <2>4, <2>5, <2>6, <2>7 DEF UploadInv, UploadedBut
  <1>6. ASSUME NEW b \in acks, ReceiveAck(b)
        PROVE  UploadInv'
    <2>1. UNCHANGED <<jobs, projects, sessions, batches>> /\ acks' \subseteq acks
      BY <1>6, AckRead, ZenonT(30)
    <2>2. CASE ~ Mine(b)
      <3>1. UNCHANGED agent
        BY <1>6, <2>2, AckRead, Zenon
      <3> QED BY <1>1, <2>1, <3>1
    <2>3. CASE Mine(b)
      <3>1. \/ agent'.job = Null
            \/ /\ agent'.job = agent.job /\ ~ agent'.sent
               /\ agent'.snapshot = agent.snapshot /\ agent'.left = agent.left
               /\ agent'.manifest = agent.manifest /\ agent'.resumed = agent.resumed
        BY <1>6, <2>3, AckRead, ZenonT(30)
      <3>2. CASE agent'.job = Null
        BY <3>2 DEF UploadInv, Unresumed
      <3>3. CASE agent'.job # Null
        <4>1. \A c \in batches' \cup acks' : ~ Mine(c)'
          BY <1>0, <3>1, <3>3, UnsentIsAloneNext
        <4>2. Unresumed' => UploadedBut(Null)
          BY <2>3, <3>1, <3>3 DEF UploadInv, Unresumed
        <4>3. Unresumed' => UploadedBut(Null)'
          BY <2>1, <3>1, <3>3, <4>2 DEF UploadedBut, Fresh
        <4> QED BY <4>1, <4>3 DEF UploadInv
      <3> QED BY <3>2, <3>3
    <2> QED BY <2>2, <2>3
  <1>7. CASE Drop
    BY <1>7, Dropped DEF UploadInv, Unresumed
  <1>8. ASSUME NEW b \in batches, Reject(b) \/ BeginReconciliation(b)
        PROVE  UploadInv'
    <2>1. UNCHANGED <<jobs, projects, sessions, agent, acks>> /\ batches' = {}
      BY <1>8, Zenon DEF Reject, BeginReconciliation, store
    <2> QED BY <1>1, <2>1
  <1>9. ASSUME NEW b \in batches, Replay(b)
        PROVE  UploadInv'
    <2>1. /\ UNCHANGED <<jobs, projects, sessions, agent>> /\ batches' = {}
          /\ acks' = acks \cup {b} /\ Replayed(b)
      BY <1>9 DEF Replay, store
    <2>2. ASSUME Unresumed, Mine(b)
          PROVE  UploadedBut(Null)
      <3>1. UploadedBut(b.item)
        BY <2>2 DEF UploadInv
      <3>2. b.item # Null => Fresh(b.item, agent.snapshot, agent.job)
        BY <2>1, <2>2, ReplayedIsFresh
      <3> QED BY <3>1, <3>2 DEF UploadedBut
    <2>3. UploadedBut(Null) => UploadedBut(Null)'
      BY <2>1 DEF UploadedBut, Fresh
    <2>4. /\ Unresumed' <=> Unresumed
          /\ \A a : Mine(a)' <=> Mine(a)
      BY <2>1 DEF Unresumed, Mine
    <2> QED BY <2>1, <2>2, <2>3, <2>4 DEF UploadInv
  <1>10. ASSUME NEW b \in batches, ApplyBootstrapBatch(b), Commits(b)
         PROVE  UploadInv'
    <2>1. /\ UNCHANGED agent /\ batches' = {} /\ acks' = acks \cup {b}
          /\ jobs[b.job].status # "completed" /\ b.job \in Made
      BY <1>10 DEF ApplyBootstrapBatch, Commits
    <2>2. Mine(b) /\ Current(b)
      BY <2>1, OpenIsMine DEF Sent
    <2>3. b.snapshot = agent.snapshot /\ agent.sent /\ b.job = agent.job
      BY <2>2 DEF Current, Mine
    <2>4. jobs'[agent.job].created = jobs[agent.job].created
      BY <1>10, <2>3, CommitRow
    <2>5. ASSUME Unresumed
          PROVE  UploadedBut(Null)'
      <3>1. UploadedBut(b.item)
        BY <2>2, <2>5 DEF UploadInv
      <3>2. Touched(agent.snapshot)
        BY <1>10, <2>3, RowsImported
      <3>3. PICK y : y = b.item
        BY Zenon
      <3>4. UploadedBut(y)'
        BY <2>1, <2>3, <2>4, <3>1, <3>2, <3>3, UploadStays
      <3>5. Fresh(y, agent.snapshot, agent.job)'
        BY <1>10, <2>1, <2>3, <3>3, RowsImported DEF Fresh
      <3> QED BY <3>4, <3>5 DEF UploadedBut, Fresh
    <2>6. Unresumed' => Unresumed
      BY <2>1 DEF Unresumed
    <2> QED BY <2>1, <2>3, <2>5, <2>6 DEF UploadInv
  <1>11. ASSUME CommitReconciliation, Commits(tx.batch)
         PROVE  UploadInv'
    <2>1. /\ UNCHANGED <<agent, batches>> /\ tx # Null
          /\ acks' = IF tx.alive THEN acks \cup {tx.batch} ELSE acks
          /\ jobs[tx.batch.job].status # "completed"
      BY <1>11, Zenon DEF CommitReconciliation, Commits
    <2>2. Touched(agent.snapshot)
      BY <1>11, RowsArchived
    <2>3. \A j \in Job : jobs'[j].created = jobs[j].created
      BY <1>11, CommitRow
    <2>4. agent.job # Null => jobs'[agent.job].created = jobs[agent.job].created
      BY <2>3 DEF MadeInv, Made
    <2>5. CASE ~ tx.alive
      BY <2>1, <2>2, <2>4, <2>5, SameUpload
    <2>6. CASE tx.alive
      <3>1. Mine(tx.batch) /\ Current(tx.batch)
        BY <2>1, <2>6, OpenIsMine DEF Sent
      <3>2. agent.sent /\ \A a \in batches \cup acks : ~ Mine(a)
        BY <2>1, <2>6, <3>1 DEF Current, WireInv, AtMostOne
      <3>3. UploadedBut(Null)
        BY <2>1, <3>1 DEF ClosedInv, UploadedBut, Current, Mine
      <3>4. Unresumed => UploadedBut(Null)'
        BY <2>1, <2>2, <2>4, <3>3, UploadStays DEF Unresumed, MadeInv
      <3>5. /\ Unresumed' <=> Unresumed
            /\ \A a : Mine(a)' <=> Mine(a)
        BY <2>1 DEF Unresumed, Mine
      <3> QED BY <2>1, <2>6, <3>2, <3>4, <3>5 DEF UploadInv
    <2> QED BY <2>5, <2>6
  <1>12. CASE AbortReconciliation
    <2>1. UNCHANGED <<jobs, projects, sessions, agent, batches, acks>>
      BY <1>12, Zenon DEF AbortReconciliation, store, wire
    <2> QED BY <1>1, <2>1
  <1>13. CASE Quiet
    <2>1. agent.snapshot \in Int
      BY AgentType DEF Upload
    <2> QED BY <1>13, <2>1, SameUpload DEF Quiet
  <1> QED BY <1>2, <1>3, <1>4, <1>5, <1>6, <1>7, <1>8, <1>9, <1>10, <1>11, <1>12, <1>13,
             Steps, Zenon

\* A step that leaves the transaction alone keeps its catalogue fresh.
LEMMA ClosedStays ==
  ASSUME Types, MadeInv, OrderInv, ClosedInv,
         tx' # Null => /\ tx # Null /\ tx'.batch = tx.batch
                       /\ jobs'[tx.batch.job].created = jobs[tx.batch.job].created
                       /\ Touched(tx.batch.snapshot)
  PROVE  ClosedInv'
  <1> SUFFICES ASSUME tx' # Null, NEW x \in tx.batch.manifest
               PROVE  Fresh(x, tx.batch.snapshot, tx.batch.job)'
    BY DEF ClosedInv, Fresh
  <1>1. PICK j \in Made : j = tx.batch.job
    BY DEF MadeInv
  <1>2. PICK n : n = tx.batch.snapshot
    BY Zenon
  <1>3. Fresh(x, n, j)
    BY <1>1, <1>2 DEF ClosedInv
  <1>4. Fresh(x, n, j)'
    BY <1>1, <1>2, <1>3, FreshStays
  <1> QED BY <1>1, <1>2, <1>4 DEF Fresh

\* Every step keeps the catalogue that the transaction closes fresh.
LEMMA ClosedStep ==
  ASSUME Types, MadeInv, AckInv, OrderInv, WireInv, UploadInv, ClosedInv, [Next]_vars
  PROVE  ClosedInv'
  <1>1. ASSUME UNCHANGED <<jobs, projects, sessions>>,
               tx' # Null => tx # Null /\ tx'.batch = tx.batch
        PROVE  ClosedInv'
    BY <1>1, SameRows, ClosedStays
  <1>2. ASSUME NEW j \in Job, CreateSyncJob(j)
        PROVE  ClosedInv'
    <2>1. /\ UNCHANGED <<projects, sessions, tx>> /\ jobs[j].status = "absent"
          /\ \A i \in Job \ {j} : jobs'[i] = jobs[i]
      BY <1>2, JobsType DEF CreateSyncJob
    <2>2. tx # Null => jobs'[tx.batch.job] = jobs[tx.batch.job]
      BY <2>1 DEF MadeInv, Made
    <2> QED BY <2>1, <2>2, SameRows, ClosedStays
  <1>3. ASSUME NEW j \in Job, sendCommand(j)
        PROVE  ClosedInv'
    <2>1. UNCHANGED <<jobs, projects, sessions, tx>>
      BY <1>3, Zenon DEF sendCommand, store
    <2> QED BY <1>1, <2>1
  <1>4. ASSUME NEW j \in starts, ReceiveStart(j)
        PROVE  ClosedInv'
    BY <1>1, <1>4, StartRead
  <1>5. CASE SendBatch
    BY <1>1, <1>5, BatchSent
  <1>6. ASSUME NEW b \in acks, ReceiveAck(b)
        PROVE  ClosedInv'
    BY <1>1, <1>6, AckRead, Zenon
  <1>7. CASE Drop
    BY <1>1, <1>7, Dropped
  <1>8. ASSUME NEW b \in batches, Reject(b) \/ Replay(b)
        PROVE  ClosedInv'
    <2>1. UNCHANGED <<jobs, projects, sessions, tx>>
      BY <1>8, Zenon DEF Reject, Replay, store
    <2> QED BY <1>1, <2>1
  <1>9. ASSUME NEW b \in batches, BeginReconciliation(b)
        PROVE  ClosedInv'
    <2>1. /\ UNCHANGED <<jobs, projects, sessions>> /\ tx'.batch = b
          /\ b.done /\ b.safe /\ IsNext(b)
      BY <1>9 DEF BeginReconciliation, Reconciles, store
    <2>2. jobs[b.job].status # "completed" /\ b \in Sent
      BY <2>1, NextIsOpen DEF Sent
    <2>3. Mine(b) /\ Current(b) /\ b.item = Null
      BY <2>1, <2>2, OpenIsMine DEF WireInv
    <2>4. /\ b.job = agent.job /\ b.snapshot = agent.snapshot /\ b.manifest = agent.manifest
          /\ agent.left = {} /\ ~ agent.resumed
      BY <2>1, <2>3 DEF Mine, Current
    <2>5. Unresumed
      BY <2>4, WireType, Constants DEF Unresumed, Message
    <2>6. UploadedBut(Null)
      BY <2>3, <2>5 DEF UploadInv
    <2>7. \A x \in b.manifest : x # Null
      BY WireType, Constants DEF Message
    <2>8. \A x \in b.manifest : Fresh(x, b.snapshot, b.job)
      BY <2>4, <2>6, <2>7 DEF UploadedBut
    <2> QED BY <2>1, <2>8 DEF ClosedInv, Fresh
  <1>10. ASSUME NEW b, Commits(b)
         PROVE  ClosedInv'
    BY <1>10 DEF Commits, ClosedInv
  <1>11. CASE AbortReconciliation
    BY <1>11, Zenon DEF AbortReconciliation, ClosedInv
  <1>12. CASE Quiet
    <2>1. tx # Null => tx.batch.snapshot \in Int
      BY TxType DEF Transaction, Message
    <2> QED BY <1>12, <2>1, ClosedStays DEF Quiet
  <1> QED BY <1>2, <1>3, <1>4, <1>5, <1>6, <1>7, <1>8, <1>9, <1>10, <1>11, <1>12, Steps, Zenon

-----------------------------------------------------------------------------
(* The theorems.                                                           *)

\* Every step keeps the inductive invariant.
LEMMA BootstrapStep ==
  ASSUME BootstrapInv, [Next]_vars
  PROVE  BootstrapInv'
  <1>1. /\ Types /\ MadeInv /\ AckInv /\ HeldInv /\ OrderInv /\ WireInv /\ MarkInv /\ NumberInv
        /\ FirstInv /\ ZeroInv /\ UploadInv /\ ClosedInv
    BY Zenon DEF BootstrapInv
  <1>2. Types' /\ MadeInv' /\ AckInv' /\ HeldInv'
    BY <1>1, TypesStep, MadeStep, AckStep, HeldStep, Zenon
  <1>3. OrderInv' /\ WireInv' /\ MarkInv' /\ NumberInv'
    BY <1>1, OrderStep, WireStep, MarkStep, NumberStep, Zenon
  <1>4. FirstInv' /\ ZeroInv' /\ UploadInv' /\ ClosedInv'
    BY <1>1, FirstStep, ZeroStep, UploadStep, ClosedStep, Zenon
  <1> QED BY <1>2, <1>3, <1>4, Zenon DEF BootstrapInv

-----------------------------------------------------------------------------
(* The sizes of finite sets.                                               *)

F == INSTANCE FiniteSetTheorems

\* Job and Item are finite, so their subsets have sizes.
LEMMA SizesHold == Sizes
  <1>1. \A S : IsFiniteSet(S) <=> F!IsFiniteSet(S)
    BY DEF IsFiniteSet, F!IsFiniteSet
  <1>2. \A S : Cardinality(S) = F!Cardinality(S)
    BY DEF Cardinality, F!Cardinality
  <1>3. F!IsFiniteSet(Job) /\ F!IsFiniteSet(Item)
    <2>1. F!IsFiniteSet(Job) /\ F!IsFiniteSet(Project) /\ F!IsFiniteSet(Session)
      BY <1>1, Constants
    <2> QED BY <2>1, F!FS_Union, Zenon DEF Item
  <1>4. ASSUME NEW S, F!IsFiniteSet(S), NEW T \in SUBSET S
        PROVE  /\ F!Cardinality(T) \in Nat /\ (F!Cardinality(T) = 0 => T = {})
               /\ \A x : x \notin T => F!Cardinality(T \cup {x}) = F!Cardinality(T) + 1
    <2>1. F!IsFiniteSet(T)
      BY <1>4, F!FS_Subset
    <2>2. F!Cardinality(T) \in Nat
      BY <2>1, F!FS_CardinalityType
    <2>3. F!Cardinality(T) = 0 => T = {}
      BY <2>1, F!FS_EmptySet
    <2>4. \A x : x \notin T => F!Cardinality(T \cup {x}) = F!Cardinality(T) + 1
      BY <2>1, F!FS_AddElement
    <2> QED BY <2>2, <2>3, <2>4
  <1> QED BY <1>2, <1>3, <1>4 DEF Sizes

\* The invariant holds in every state a synchronisation can reach.
THEOREM BootstrapCorrect == Spec => []BootstrapInv
  <1>1. Init => BootstrapInv
    BY BootstrapInit, SizesHold
  <1>2. BootstrapInv /\ [Next]_vars => BootstrapInv'
    BY BootstrapStep
  <1> QED BY <1>1, <1>2, PTL DEF Spec

\* Whatever is lost, repeated, refused or resumed, the watermark the Agent keeps
\* is never ahead of last_committed_batch_no, for any number of jobs.
THEOREM WatermarkIsDurable == Spec => []AckedIsCommitted
  <1>1. BootstrapInv => AckedIsCommitted
    BY DEF BootstrapInv, AckInv
  <1> QED BY <1>1, BootstrapCorrect, PTL

\* CreateRun and the archiving statement, which meet on the Session's row, never
\* leave an archived Session with an active Run.
THEOREM ActiveSessionsStay == Spec => []ActiveSessionVisible
  <1>1. BootstrapInv => ActiveSessionVisible
    BY DEF BootstrapInv, HeldInv
  <1> QED BY <1>1, BootstrapCorrect, PTL

\* No step reopens or rewrites a completed job, although ApplyBootstrapBatch does
\* not look at the job's status: every batch that may still come is an old one.
THEOREM CompletedIsFinal == Spec => CompletedStays
  <1>1. ASSUME BootstrapInv, [Next]_vars, NEW j \in Job, jobs[j].status = "completed"
        PROVE  jobs'[j] = jobs[j]
    <2> USE DEF store, wire, world
    <2>1. Types /\ AckInv
      BY <1>1 DEF BootstrapInv
    <2>2. CASE UNCHANGED jobs
      BY <2>2
    <2>3. ASSUME NEW i \in Job, CreateSyncJob(i)
          PROVE  jobs'[j] = jobs[j]
      BY <1>1, <2>1, <2>3, JobsType, SMTT(20) DEF CreateSyncJob
    <2>4. ASSUME NEW b \in batches, ApplyBootstrapBatch(b)
          PROVE  jobs'[j] = jobs[j]
      <3>1. jobs[b.job].status # "completed" /\ b.job \in Job
        BY <2>1, <2>4, NextIsOpen, WireType, SMTT(20) DEF ApplyBootstrapBatch, Message
      <3> QED BY <1>1, <2>1, <2>4, <3>1, JobsType DEF ApplyBootstrapBatch
    <2>5. CASE CommitReconciliation
      <3>1. jobs[tx.batch.job].status # "completed"
        BY <2>1, <2>5, Zenon DEF CommitReconciliation, AckInv
      <3> QED BY <1>1, <2>1, <2>5, <3>1, JobsType, ZenonT(30) DEF CommitReconciliation
    <2>6. \/ UNCHANGED jobs \/ CommitReconciliation
          \/ \E i \in Job : CreateSyncJob(i)
          \/ \E b \in batches : ApplyBootstrapBatch(b)
      BY <1>1, ZenonT(30) DEF Next, vars, CreateSession, LockForRun, CreateRun, CreateRunFails,
         TurnStarted, TurnEnded, ClaimCommands, sendCommand, ReleaseCommand, ReceiveStart, SendBatch,
         ReceiveAck, MacChanges, FinishTurn, Drop, UpsertProjects, Reject, Replay,
         BeginReconciliation, AbortReconciliation
    <2> QED BY <2>2, <2>3, <2>4, <2>5, <2>6
  <1>2. BootstrapInv /\ [Next]_vars =>
          [\A j \in Job : jobs[j].status = "completed" => jobs'[j] = jobs[j]]_vars
    BY <1>1
  <1> QED BY <1>2, BootstrapCorrect, PTL DEF Spec, CompletedStays

\* Reconciliation archives a Session or a Project only when the catalogue that its
\* final batch closes does not hold it, for any number of jobs, lost connections and
\* changes on the Mac: everything an upload in one piece has brought is fresh, and
\* an upload that was resumed does not archive.
THEOREM OnlyMissingIsHidden == Spec => HidesOnlyMissing
  <1> DEFINE Kept ==
        /\ \A s \in Session : ~ sessions[s].archived /\ sessions'[s].archived
             => s \notin tx.batch.manifest
        /\ \A p \in Project : ~ projects[p].archived /\ projects'[p].archived
             => p \notin tx.batch.manifest
  <1>1. ASSUME BootstrapInv, CommitReconciliation
        PROVE  Kept
    <2>1. Types /\ ClosedInv /\ tx # Null
      BY <1>1, Zenon DEF BootstrapInv, CommitReconciliation
    <2>2. tx.batch.job \in Job
      BY <2>1, TxType DEF Transaction, Message
    <2>3. jobs[tx.batch.job].created \in Int
      BY <2>1, <2>2, JobsType DEF JobRow
    <2>4. \A x \in tx.batch.manifest : Fresh(x, tx.batch.snapshot, tx.batch.job)
      BY <2>1 DEF ClosedInv
    <2>5. ASSUME NEW s \in Session, ~ sessions[s].archived, sessions'[s].archived
          PROVE  s \notin tx.batch.manifest
      <3>1. sessions'[s] = [sessions[s] EXCEPT !.archived =
                              sessions[s].archived \/ StaleSession(sessions[s], tx.batch)]
        BY <1>1, Zenon DEF CommitReconciliation
      <3>2. StaleSession(sessions[s], tx.batch)
        BY <2>1, <2>5, <3>1, SessionsType DEF SessionRow
      <3>3. sessions[s].updated \in Int
        BY <2>1, SessionsType DEF SessionRow
      <3>4. ~ Fresh(s, tx.batch.snapshot, tx.batch.job)
        <4>1. /\ sessions[s].seen # tx.batch.snapshot
              /\ sessions[s].updated <= jobs[tx.batch.job].created
          BY <3>2, Zenon DEF StaleSession
        <4>2. ~ sessions[s].updated > jobs[tx.batch.job].created
          BY <2>3, <3>3, <4>1
        <4> QED BY <4>1, <4>2, Zenon DEF Fresh
      <3> QED BY <2>4, <3>4
    <2>6. ASSUME NEW p \in Project, ~ projects[p].archived, projects'[p].archived
          PROVE  p \notin tx.batch.manifest
      <3>1. projects'[p] = [projects[p] EXCEPT !.archived = projects[p].archived \/ StaleProject(p),
                              !.updated = IF StaleProject(p) THEN Now ELSE projects[p].updated]
        BY <1>1, Zenon DEF CommitReconciliation
      <3>2. StaleProject(p)
        BY <2>1, <2>6, <3>1, ProjectsType DEF ProjectRow
      <3>3. projects[p].updated \in Int
        BY <2>1, ProjectsType DEF ProjectRow
      <3>4. ~ Fresh(p, tx.batch.snapshot, tx.batch.job)
        <4>1. /\ projects[p].seen # tx.batch.snapshot
              /\ projects[p].updated <= jobs[tx.batch.job].created
          BY <3>2, Zenon DEF StaleProject
        <4>2. ~ projects[p].updated > jobs[tx.batch.job].created
          BY <2>3, <3>3, <4>1
        <4> QED BY <4>1, <4>2, Zenon DEF Fresh
      <3> QED BY <2>4, <3>4
    <2> QED BY <2>5, <2>6
  <1>2. ASSUME Types, [Next]_vars, ~ CommitReconciliation
        PROVE  Kept
    <2> USE DEF store
    <2>1. CASE UNCHANGED <<projects, sessions>>
      BY <2>1
    <2>2. ASSUME NEW s \in Session,
                 CreateSession(s) \/ CreateRun(s) \/ TurnStarted(s) \/ TurnEnded(s)
          PROVE  Kept
      <3>1. UNCHANGED projects /\ \A t \in Session \ {s} : sessions'[t] = sessions[t]
        BY <1>2, <2>2, SessionsType DEF CreateSession, CreateRun, TurnStarted, TurnEnded
      <3>2. sessions'[s].archived => sessions[s].archived
        BY <1>2, <2>2, SessionsType
           DEF CreateSession, CreateRun, TurnStarted, TurnEnded, SessionRow
      <3> QED BY <3>1, <3>2
    <2>3. CASE UpsertProjects
      BY <1>2, <2>3, ProjectsType, ZenonT(30) DEF UpsertProjects, ProjectRow
    <2>4. ASSUME NEW b \in batches, ApplyBootstrapBatch(b)
          PROVE  Kept
      BY <2>4, ZenonT(30) DEF ApplyBootstrapBatch, ImportProjects, ImportSessions
    <2>5. \/ UNCHANGED <<projects, sessions>> \/ UpsertProjects
          \/ \E s \in Session : CreateSession(s) \/ CreateRun(s) \/ TurnStarted(s) \/ TurnEnded(s)
          \/ \E b \in batches : ApplyBootstrapBatch(b)
      BY <1>2, ZenonT(30) DEF Next, vars, CreateSyncJob, LockForRun, CreateRunFails,
         ClaimCommands, sendCommand, ReleaseCommand, ReceiveStart, SendBatch, ReceiveAck,
         MacChanges, FinishTurn, Drop, Reject, Replay, BeginReconciliation, AbortReconciliation
    <2> QED BY <2>1, <2>2, <2>3, <2>4, <2>5, Zenon
  <1>3. BootstrapInv /\ [Next]_vars => [Kept]_vars
    BY <1>1, <1>2, Zenon DEF BootstrapInv
  <1> QED BY <1>3, BootstrapCorrect, PTL DEF Spec, HidesOnlyMissing
=============================================================================
