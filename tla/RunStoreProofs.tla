--------------------------- MODULE RunStoreProofs ---------------------------
(***************************************************************************)
(* StoreInv is an invariant of RunStore, for every set of runs, sessions,  *)
(* keys, sequences, threads and turns, and every claim limit.              *)
(***************************************************************************)
EXTENDS RunStore, TLAPS

\* An event sets a status a run can have, never one from before its acceptance.
LEMMA StatusOfEvent ==
  ASSUME NEW e \in EventType
  PROVE  statusForEvent[e] \in (Status \ {"queued", "dispatching"}) \cup {""}
  BY DEF statusForEvent, EventType, Status

\* Commands of different runs, or of different types, are different.
LEMMA CommandNames ==
  ASSUME NEW q \in Run, NEW r \in Run
  PROVE  /\ Start(r) \in Command /\ Cancel(r) \in Command
         /\ Start(q) # Cancel(r)
         /\ Start(q) = Start(r) => q = r
         /\ Cancel(q) = Cancel(r) => q = r
  BY DEF Start, Cancel, Command

\* Rows after an update are rows.
LEMMA CommandUpdates ==
  ASSUME NEW o \in CommandRow
  PROVE  /\ [o EXCEPT !.status = "claimed", !.due = FALSE] \in CommandRow
         /\ [o EXCEPT !.status = "delivered", !.due = FALSE] \in CommandRow
         /\ [o EXCEPT !.status = "pending", !.due = FALSE] \in CommandRow
         /\ [o EXCEPT !.due = TRUE] \in CommandRow
  BY Zenon DEF CommandRow

\* Setting a run's status or cancellation along with its version leaves a run row.
LEMMA RunUpdates ==
  ASSUME NEW o \in RunRow, NEW st \in Status, NEW v \in Nat
  PROVE  /\ [o EXCEPT !.status = st, !.version = v] \in RunRow
         /\ [o EXCEPT !.cancel = TRUE, !.version = v] \in RunRow
  <1>1. [o EXCEPT !.status = st, !.version = v] \in RunRow
    BY Zenon DEF RunRow
  <1>2. [o EXCEPT !.cancel = TRUE, !.version = v] \in RunRow
    BY Zenon DEF RunRow
  <1> QED BY <1>1, <1>2

\* So do the updates of ClaimCommands and RequestCancel, which count the version up.
LEMMA RunCounts ==
  ASSUME NEW o \in RunRow
  PROVE  /\ [o EXCEPT !.status = "dispatching", !.version = @ + 1] \in RunRow
         /\ [o EXCEPT !.cancel = TRUE, !.version = @ + 1] \in RunRow
  <1>1. o.version + 1 \in Nat
    BY DEF RunRow
  <1>2. "dispatching" \in Status
    BY DEF Status
  <1> QED BY <1>1, <1>2, RunUpdates, Zenon

\* The row CreateRun and RequestCancel insert into the outbox is a command row.
LEMMA NewCommandRow ==
  ASSUME NEW th \in Thread \cup {Null}, NEW tu \in Turn \cup {Null}, clock \in Nat
  PROVE  NewCommand(th, tu) \in CommandRow
  BY DEF NewCommand, CommandRow

\* The columns of a run row.
LEMMA RunColumns ==
  ASSUME NEW o \in RunRow
  PROVE  /\ o.status \in Status \cup {"absent"}
         /\ o.version \in Nat
         /\ o.turn \in Turn \cup {Null}
         /\ o.through \in Sequence \cup {0}
         /\ o.final \in Sequence \cup {0}
  BY DEF RunRow

-----------------------------------------------------------------------------
(* The type invariant.                                                     *)

\* The empty schema is well typed.
LEMMA InitType == Init => TypeOK
  BY StoreAssumption
  DEF Init, TypeOK, Created, AbsentRun, AbsentCommand, RunRow, CommandRow, FeedRow, Status

\* CreateRun, with its log entry and start command, keeps the types.
LEMMA CreateRunType ==
  ASSUME TypeOK, NEW r \in Run, NEW s \in Session, NEW k \in Key, CreateRun(r, s, k)
  PROVE  TypeOK'
  <1> USE StoreAssumption
  <1>1. runs' \in [Run -> RunRow]
    BY Zenon DEF TypeOK, CreateRun, AbsentRun, RunRow, Status
  <1>2. \A q \in Created' : runs'[q].session \in Session
    BY DEF TypeOK, CreateRun, AbsentRun, RunRow, Created
  <1>3. sessions' \in [Session -> [thread : Thread \cup {Null}, seq : Nat]]
    BY DEF TypeOK, CreateRun
  <1>4. feed' \in [Session -> SUBSET FeedRow]
    BY DEF TypeOK, CreateRun, Announce, FeedRow, Status
  <1>5. outbox' \in [Command -> CommandRow]
    <2>1. NewCommand(sessions[s].thread, Null) \in CommandRow
      BY NewCommandRow DEF TypeOK
    <2> QED BY <2>1, CommandNames DEF TypeOK, CreateRun
  <1>6. clock' \in Nat /\ journal' = journal
    BY DEF TypeOK, CreateRun
  <1> QED BY <1>1, <1>2, <1>3, <1>4, <1>5, <1>6 DEF TypeOK

\* RequestCancel, with its cancel command, keeps the types.
LEMMA RequestCancelType ==
  ASSUME TypeOK, NEW r \in Run, RequestCancel(r)
  PROVE  TypeOK'
  <1>1. runs' \in [Run -> RunRow]
    BY RunCounts, Zenon DEF TypeOK, RequestCancel
  <1>2. \A q \in Created' : runs'[q].session \in Session
    BY DEF TypeOK, RequestCancel, RunRow, Created
  <1>3. outbox' \in [Command -> CommandRow] /\ clock' \in Nat
    <2>1. runs[r].session \in Session /\ runs[r].turn \in Turn \cup {Null}
      BY DEF TypeOK, RequestCancel, RunRow, Created
    <2>2. sessions[runs[r].session].thread \in Thread \cup {Null}
      BY <2>1 DEF TypeOK
    <2>3. NewCommand(sessions[runs[r].session].thread, runs[r].turn) \in CommandRow
      BY <2>1, <2>2, NewCommandRow, Zenon DEF TypeOK
    <2> QED BY <2>3, CommandNames DEF TypeOK, RequestCancel
  <1> QED BY <1>1, <1>2, <1>3 DEF TypeOK, RequestCancel

\* ClaimCommands, which also moves runs to dispatching, keeps the types.
LEMMA ClaimCommandsType ==
  ASSUME TypeOK, NEW B \in SUBSET Command, ClaimCommands(B)
  PROVE  TypeOK'
  <1>1. runs' \in [Run -> RunRow]
    BY RunCounts, Zenon DEF TypeOK, ClaimCommands
  <1>2. \A q \in Created' : runs'[q].session \in Session
    BY Zenon DEF TypeOK, ClaimCommands, RunRow, Created, Dispatchable
  <1>3. outbox' \in [Command -> CommandRow]
    BY CommandUpdates, Zenon DEF TypeOK, ClaimCommands
  <1> QED BY <1>1, <1>2, <1>3, Zenon DEF TypeOK, ClaimCommands

\* The passing of a lease, MarkCommandDelivered and ReleaseCommand keep the types.
LEMMA CommandStepType ==
  ASSUME TypeOK, NEW c \in Command,
         ComesDue(c) \/ MarkCommandDelivered(c) \/ ReleaseCommand(c)
  PROVE  TypeOK'
  <1>1. PICK o \in CommandRow : outbox' = [outbox EXCEPT ![c] = o]
    <2>1. outbox[c] \in CommandRow
      BY DEF TypeOK
    <2> QED BY <2>1, CommandUpdates, Zenon
            DEF ComesDue, MarkCommandDelivered, ReleaseCommand
  <1>2. outbox' \in [Command -> CommandRow]
    BY <1>1 DEF TypeOK
  <1> QED BY <1>2 DEF TypeOK, Created, ComesDue, MarkCommandDelivered, ReleaseCommand

\* AppendAgentEvent, column by column, keeps the types.
LEMMA AppendAgentEventType ==
  ASSUME TypeOK, NEW r \in Run, NEW n \in Sequence, NEW e \in EventType,
         NEW th \in Thread, NEW tu \in Turn, AppendAgentEvent(r, n, e, th, tu)
  PROVE  TypeOK'
  <1> USE StoreAssumption
  <1>0. r \in Created /\ runs[r].session \in Session
    BY DEF TypeOK, AppendAgentEvent
  <1>1. runs[r] \in RunRow /\ runs[r].status \in Status
    BY <1>0, RunColumns DEF TypeOK, Created
  <1>2. statusForEvent[e] \in Status \cup {""}
    BY StatusOfEvent
  <1>3. StatusAfter(r, e) \in Status
    BY <1>1, <1>2 DEF StatusAfter
  <1>4. VersionAfter(r, e) \in Nat
    <2>1. runs[r].version \in Nat
      BY <1>1, RunColumns
    <2>2. runs[r].version + 1 \in Nat
      BY <2>1
    <2> QED BY <2>1, <2>2, Zenon DEF VersionAfter
  <1>5. /\ ThroughAfter(r, n) \in Sequence \cup {0}
        /\ FinalAfter(r, n, e) \in Sequence \cup {0}
    BY <1>1, RunColumns DEF ThroughAfter, FinalAfter
  <1>6. RunAfter(r, n, e, tu) \in RunRow
    <2>1. (IF e = "turn.started" THEN tu ELSE runs[r].turn) \in Turn \cup {Null}
      BY <1>1, RunColumns
    <2>2. \A st \in Status, v \in Nat, t \in Turn \cup {Null},
             m \in Sequence \cup {0}, f \in Sequence \cup {0} :
            [runs[r] EXCEPT !.status = st, !.version = v, !.turn = t,
                            !.through = m, !.final = f] \in RunRow
      BY <1>1, Zenon DEF RunRow
    <2> QED BY <1>3, <1>4, <1>5, <2>1, <2>2, Zenon DEF RunAfter
  <1>7. runs' \in [Run -> RunRow]
    BY <1>6 DEF TypeOK, AppendAgentEvent
  <1>8. RunAfter(r, n, e, tu).session = runs[r].session
    BY <1>1 DEF RunAfter, RunRow
  <1>9. \A q \in Created' : runs'[q].session \in Session
    <2> SUFFICES ASSUME NEW q \in Created' PROVE runs'[q].session \in Session
      OBVIOUS
    <2>1. CASE q = r
      BY <1>0, <1>8, <2>1 DEF TypeOK, AppendAgentEvent
    <2>2. CASE q # r
      BY <2>2 DEF TypeOK, AppendAgentEvent, Created
    <2> QED BY <2>1, <2>2
  <1>10. sessions' \in [Session -> [thread : Thread \cup {Null}, seq : Nat]]
    <2>1. sessions[runs[r].session] \in [thread : Thread \cup {Null}, seq : Nat]
      BY <1>0 DEF TypeOK
    <2>2. (IF e = "turn.started" /\ sessions[runs[r].session].thread = Null
           THEN th ELSE sessions[runs[r].session].thread) \in Thread \cup {Null}
      BY <2>1
    <2>3. (IF statusForEvent[e] # "" THEN sessions[runs[r].session].seq + 1
           ELSE sessions[runs[r].session].seq) \in Nat
      <3>1. sessions[runs[r].session].seq + 1 \in Nat /\ sessions[runs[r].session].seq \in Nat
        BY <2>1
      <3> QED BY <3>1, Zenon
    <2> QED BY <1>0, <2>2, <2>3 DEF TypeOK, AppendAgentEvent
  <1>11. feed' \in [Session -> SUBSET FeedRow]
    <2>1. CASE statusForEvent[e] # ""
      <3> DEFINE x == [seq |-> sessions[runs[r].session].seq + 1, run |-> r,
                       status |-> statusForEvent[e]]
      <3>1. sessions[runs[r].session].seq \in Nat
        BY <1>0 DEF TypeOK
      <3>2. x \in FeedRow
        <4>1. sessions[runs[r].session].seq + 1 \in Nat \ {0}
          BY <3>1
        <4> QED BY <1>2, <2>1, <4>1, Zenon DEF FeedRow
      <3>3. feed' = [feed EXCEPT ![runs[r].session] = @ \cup {x}]
        BY <2>1 DEF AppendAgentEvent, Announce
      <3> HIDE DEF x
      <3> QED BY <1>0, <3>2, <3>3 DEF TypeOK
    <2>2. CASE statusForEvent[e] = ""
      BY <2>2 DEF TypeOK, AppendAgentEvent
    <2> QED BY <2>1, <2>2
  <1>12. journal' \in [Run -> [Sequence -> EventType \cup {"none"}]]
    BY DEF TypeOK, AppendAgentEvent
  <1> QED BY <1>7, <1>9, <1>10, <1>11, <1>12 DEF TypeOK, AppendAgentEvent

\* Every step of the store keeps the types.
LEMMA NextType == TypeOK /\ [Next]_storeVars => TypeOK'
  <1> SUFFICES ASSUME TypeOK, [Next]_storeVars PROVE TypeOK'
    OBVIOUS
  <1>1. CASE Next
    BY <1>1, CreateRunType, RequestCancelType, ClaimCommandsType, CommandStepType,
       AppendAgentEventType DEF Next
  <1>2. CASE UNCHANGED storeVars
    BY <1>2 DEF TypeOK, storeVars, Created
  <1> QED BY <1>1, <1>2

\* Type correctness of the store under every caller.
THEOREM TypeCorrect == Spec => []TypeOK
  BY InitType, NextType, PTL DEF Spec
-----------------------------------------------------------------------------
(* What each action does to the rows, column by column.                    *)

\* CreateRun adds one queued run and leaves the other rows alone.
LEMMA CreateRunEffect ==
  ASSUME TypeOK, NEW r \in Run, NEW s \in Session, NEW k \in Key, CreateRun(r, s, k)
  PROVE  /\ \A q \in Run \ {r} : runs'[q] = runs[q]
         /\ runs'[r].status = "queued" /\ runs'[r].session = s /\ runs'[r].key = k
         /\ runs'[r].cancel = FALSE /\ runs'[r].through = 0
         /\ r \notin Created
         /\ Created' = Created \cup {r}
  <1>1. runs' = [runs EXCEPT ![r] = runs'[r]]
    BY DEF TypeOK, CreateRun
  <1>2. /\ runs'[r].status = "queued" /\ runs'[r].session = s /\ runs'[r].key = k
        /\ runs'[r].cancel = FALSE /\ runs'[r].through = 0
    BY DEF TypeOK, CreateRun, AbsentRun
  <1>3. r \notin Created
    BY DEF CreateRun, Created
  <1>4. Created' = Created \cup {r}
    BY <1>1, <1>2 DEF TypeOK, Created
  <1> QED BY <1>1, <1>2, <1>3, <1>4 DEF TypeOK

\* RequestCancel sets the cancellation and counts the version of one run.
LEMMA RequestCancelEffect ==
  ASSUME TypeOK, NEW r \in Run, RequestCancel(r)
  PROVE  /\ \A q \in Run \ {r} : runs'[q] = runs[q]
         /\ runs'[r].cancel = TRUE /\ runs'[r].version = runs[r].version + 1
         /\ \A q \in Run :
              /\ runs'[q].status = runs[q].status /\ runs'[q].session = runs[q].session
              /\ runs'[q].key = runs[q].key /\ runs'[q].through = runs[q].through
              /\ runs'[q].final = runs[q].final
         /\ r \in Created
         /\ Created' = Created
  <1> DEFINE o == runs[r]
  <1>1. o \in RunRow /\ r \in Created
    BY DEF TypeOK, RequestCancel
  <1>2. runs' = [runs EXCEPT ![r] = [o EXCEPT !.cancel = TRUE, !.version = o.version + 1]]
    BY DEF RequestCancel
  <1> HIDE DEF o
  <1>3. LET x == [o EXCEPT !.cancel = TRUE, !.version = o.version + 1]
        IN /\ x.cancel = TRUE /\ x.version = o.version + 1
           /\ x.status = o.status /\ x.session = o.session /\ x.key = o.key
           /\ x.through = o.through /\ x.final = o.final
    BY <1>1 DEF RunRow
  <1> USE DEF o
  <1>4. /\ \A q \in Run \ {r} : runs'[q] = runs[q]
        /\ runs'[r] = [o EXCEPT !.cancel = TRUE, !.version = o.version + 1]
    BY <1>2 DEF TypeOK
  <1>5. \A q \in Run :
          /\ runs'[q].status = runs[q].status /\ runs'[q].session = runs[q].session
          /\ runs'[q].key = runs[q].key /\ runs'[q].through = runs[q].through
          /\ runs'[q].final = runs[q].final
    BY <1>3, <1>4, Zenon
  <1>6. Created' = Created
    BY <1>5 DEF Created
  <1> QED BY <1>1, <1>3, <1>4, <1>5, <1>6, Zenon

\* ClaimCommands changes a run only from queued to dispatching.
LEMMA ClaimCommandsEffect ==
  ASSUME TypeOK, NEW B \in SUBSET Command, ClaimCommands(B)
  PROVE  /\ \A q \in Run :
              /\ \/ runs'[q] = runs[q]
                 \/ /\ runs[q].status = "queued" /\ runs'[q].status = "dispatching"
                    /\ runs'[q].version = runs[q].version + 1
              /\ runs'[q].session = runs[q].session /\ runs'[q].key = runs[q].key
              /\ runs'[q].cancel = runs[q].cancel /\ runs'[q].through = runs[q].through
              /\ runs'[q].final = runs[q].final
         /\ Created' = Created
  <1>1. ASSUME NEW o \in RunRow
        PROVE  LET x == [o EXCEPT !.status = "dispatching", !.version = o.version + 1]
               IN /\ x.status = "dispatching" /\ x.version = o.version + 1
                  /\ x.session = o.session /\ x.key = o.key /\ x.cancel = o.cancel
                  /\ x.through = o.through /\ x.final = o.final
    BY DEF RunRow
  <1>2. \A q \in Run :
          /\ \/ runs'[q] = runs[q]
             \/ /\ runs[q].status = "queued" /\ runs'[q].status = "dispatching"
                /\ runs'[q].version = runs[q].version + 1
          /\ runs'[q].session = runs[q].session /\ runs'[q].key = runs[q].key
          /\ runs'[q].cancel = runs[q].cancel /\ runs'[q].through = runs[q].through
          /\ runs'[q].final = runs[q].final
    <2> SUFFICES ASSUME NEW q \in Run
                 PROVE  /\ \/ runs'[q] = runs[q]
                           \/ /\ runs[q].status = "queued"
                              /\ runs'[q].status = "dispatching"
                              /\ runs'[q].version = runs[q].version + 1
                        /\ runs'[q].session = runs[q].session
                        /\ runs'[q].key = runs[q].key
                        /\ runs'[q].cancel = runs[q].cancel
                        /\ runs'[q].through = runs[q].through
                        /\ runs'[q].final = runs[q].final
      OBVIOUS
    <2>1. runs[q] \in RunRow
      BY DEF TypeOK
    <2>2. \/ runs'[q] = runs[q]
          \/ /\ runs[q].status = "queued"
             /\ runs'[q] = [runs[q] EXCEPT !.status = "dispatching",
                                           !.version = runs[q].version + 1]
      BY Zenon DEF ClaimCommands, Dispatchable
    <2> QED BY <1>1, <2>1, <2>2, Zenon
  <1>3. Created' = Created
    BY <1>2 DEF Created
  <1> QED BY <1>2, <1>3, Zenon

\* AppendAgentEvent fills one free journal position and updates its run from it.
LEMMA AppendEffect ==
  ASSUME TypeOK, NEW r \in Run, NEW n \in Sequence, NEW e \in EventType,
         NEW th \in Thread, NEW tu \in Turn, AppendAgentEvent(r, n, e, th, tu)
  PROVE  /\ r \in Created /\ journal[r][n] = "none"
         /\ \A q \in Run \ {r} : runs'[q] = runs[q] /\ journal'[q] = journal[q]
         /\ \A m \in Sequence : journal'[r][m] = IF m = n THEN e ELSE journal[r][m]
         /\ runs'[r].status = StatusAfter(r, e)
         /\ runs'[r].version = VersionAfter(r, e)
         /\ runs'[r].through = ThroughAfter(r, n)
         /\ runs'[r].final = FinalAfter(r, n, e)
         /\ runs'[r].session = runs[r].session /\ runs'[r].key = runs[r].key
         /\ runs'[r].cancel = runs[r].cancel
         /\ Created' = Created
  <1>1. r \in Created /\ journal[r][n] = "none" /\ runs[r] \in RunRow
    BY DEF TypeOK, AppendAgentEvent, FirstCopy
  <1>2. runs' = [runs EXCEPT ![r] = RunAfter(r, n, e, tu)]
    BY DEF AppendAgentEvent
  <1>3. /\ RunAfter(r, n, e, tu).status = StatusAfter(r, e)
        /\ RunAfter(r, n, e, tu).version = VersionAfter(r, e)
        /\ RunAfter(r, n, e, tu).through = ThroughAfter(r, n)
        /\ RunAfter(r, n, e, tu).final = FinalAfter(r, n, e)
        /\ RunAfter(r, n, e, tu).session = runs[r].session
        /\ RunAfter(r, n, e, tu).key = runs[r].key
        /\ RunAfter(r, n, e, tu).cancel = runs[r].cancel
    BY <1>1 DEF RunAfter, RunRow
  <1>4. /\ \A q \in Run \ {r} : runs'[q] = runs[q]
        /\ runs'[r] = RunAfter(r, n, e, tu)
    BY <1>2 DEF TypeOK
  <1>5. /\ \A q \in Run \ {r} : journal'[q] = journal[q]
        /\ \A m \in Sequence : journal'[r][m] = IF m = n THEN e ELSE journal[r][m]
    BY DEF TypeOK, AppendAgentEvent
  <1>6. StatusAfter(r, e) # "absent"
    BY <1>1, StatusOfEvent DEF StatusAfter, Created, Status
  <1>7. Created' = Created
    BY <1>1, <1>3, <1>4, <1>6 DEF Created
  <1> QED BY <1>1, <1>3, <1>4, <1>5, <1>7, Zenon

\* The steps of the outbox alone.
CommandStep ==
  \E c \in Command : ComesDue(c) \/ MarkCommandDelivered(c) \/ ReleaseCommand(c)

\* Steps on a single command change the outbox only, and no command disappears.
LEMMA CommandStepEffect ==
  ASSUME TypeOK, CommandStep
  PROVE  /\ UNCHANGED <<runs, journal, sessions, feed, clock>>
         /\ Created' = Created
         /\ \A c \in Command : outbox'[c].status = "absent" <=> outbox[c].status = "absent"
  <1>1. PICK c \in Command : ComesDue(c) \/ MarkCommandDelivered(c) \/ ReleaseCommand(c)
    BY DEF CommandStep
  <1>2. UNCHANGED <<runs, journal, sessions, feed, clock>> /\ Created' = Created
    BY <1>1 DEF ComesDue, MarkCommandDelivered, ReleaseCommand, Created
  <1>3. outbox[c].status # "absent" /\ outbox'[c].status # "absent"
    BY <1>1, Zenon DEF TypeOK, CommandRow, ComesDue, MarkCommandDelivered, ReleaseCommand
  <1>4. \A d \in Command \ {c} : outbox'[d] = outbox[d]
    BY <1>1 DEF TypeOK, ComesDue, MarkCommandDelivered, ReleaseCommand
  <1> QED BY <1>2, <1>3, <1>4

\* The steps of the store, those on a single command taken together.
LEMMA NextCases ==
  Next <=> \/ \E r \in Run, s \in Session, k \in Key : CreateRun(r, s, k)
           \/ \E r \in Run : RequestCancel(r)
           \/ \E B \in SUBSET Command : ClaimCommands(B)
           \/ CommandStep
           \/ \E r \in Run, n \in Sequence, e \in EventType, th \in Thread, tu \in Turn :
                AppendAgentEvent(r, n, e, th, tu)
  BY DEF Next, CommandStep

\* The status of a run that is over changes only with a new event in its journal.
LEMMA StatusNeedsEvent ==
  ASSUME TypeOK, Next, NEW r \in Run, isTerminal(runs[r].status),
         runs'[r].status # runs[r].status
  PROVE  \E n \in Sequence : journal[r][n] = "none" /\ journal'[r][n] # "none"
  <1>1. ASSUME NEW q \in Run, NEW s \in Session, NEW k \in Key, CreateRun(q, s, k)
        PROVE  FALSE
    BY <1>1, CreateRunEffect, Zenon DEF Created, isTerminal
  <1>2. ASSUME NEW q \in Run, RequestCancel(q) PROVE FALSE
    BY <1>2, RequestCancelEffect, Zenon
  <1>3. ASSUME NEW B \in SUBSET Command, ClaimCommands(B) PROVE FALSE
    BY <1>3, ClaimCommandsEffect DEF isTerminal
  <1>4. ~ CommandStep
    BY CommandStepEffect
  <1>5. ASSUME NEW q \in Run, NEW n \in Sequence, NEW e \in EventType,
               NEW th \in Thread, NEW tu \in Turn, AppendAgentEvent(q, n, e, th, tu)
        PROVE  journal[r][n] = "none" /\ journal'[r][n] # "none"
    <2>1. /\ journal[q][n] = "none" /\ journal'[q][n] = e
          /\ \A x \in Run \ {q} : runs'[x] = runs[x]
      BY <1>5, AppendEffect
    <2>2. q = r
      BY <2>1
    <2> QED BY <2>1, <2>2 DEF EventType
  <1> QED BY <1>1, <1>2, <1>3, <1>4, <1>5, NextCases

-----------------------------------------------------------------------------
(* Each conjunct of the invariant is preserved.                            *)

\* No step writes a run's row before CreateRun does.
LEMMA BlankStep ==
  ASSUME TypeOK, BlankUntilCreated, Next
  PROVE  BlankUntilCreated'
  <1> USE DEF BlankUntilCreated
  <1>1. ASSUME NEW r \in Run, NEW s \in Session, NEW k \in Key, CreateRun(r, s, k)
        PROVE  BlankUntilCreated'
    BY <1>1, CreateRunEffect, Zenon DEF AbsentRun
  <1>2. ASSUME NEW r \in Run, RequestCancel(r) PROVE BlankUntilCreated'
    BY <1>2, RequestCancelEffect, Zenon DEF AbsentRun
  <1>3. ASSUME NEW B \in SUBSET Command, ClaimCommands(B) PROVE BlankUntilCreated'
    BY <1>3, ClaimCommandsEffect, Zenon DEF AbsentRun, Created
  <1>4. ASSUME CommandStep PROVE BlankUntilCreated'
    BY <1>4, CommandStepEffect, Zenon DEF AbsentRun
  <1>5. ASSUME NEW r \in Run, NEW n \in Sequence, NEW e \in EventType,
               NEW th \in Thread, NEW tu \in Turn, AppendAgentEvent(r, n, e, th, tu)
        PROVE  BlankUntilCreated'
    BY <1>5, AppendEffect, Zenon DEF AbsentRun
  <1> QED BY <1>1, <1>2, <1>3, <1>4, <1>5, NextCases

\* GREATEST in AppendAgentEvent keeps persisted_through_sequence the greatest one.
LEMMA ThroughStep ==
  ASSUME TypeOK, BlankUntilCreated, ThroughIsGreatest, Next
  PROVE  ThroughIsGreatest'
  <1>0. ASSUME journal' = journal, \A q \in Run : runs'[q].through = runs[q].through
        PROVE  ThroughIsGreatest'
    BY <1>0 DEF ThroughIsGreatest, Rows
  <1>1. ASSUME NEW r \in Run, NEW s \in Session, NEW k \in Key, CreateRun(r, s, k)
        PROVE  ThroughIsGreatest'
    <2>1. runs[r] = AbsentRun
      BY <1>1, CreateRunEffect, Zenon DEF BlankUntilCreated
    <2>2. AbsentRun.through = 0
      BY DEF AbsentRun
    <2>3. \A q \in Run : runs'[q].through = runs[q].through
      BY <1>1, <2>1, <2>2, CreateRunEffect, ZenonT(30)
    <2> QED BY <1>0, <1>1, <2>3 DEF CreateRun
  <1>2. ASSUME NEW r \in Run, RequestCancel(r) PROVE ThroughIsGreatest'
    BY <1>0, <1>2, RequestCancelEffect, Zenon DEF RequestCancel
  <1>3. ASSUME NEW B \in SUBSET Command, ClaimCommands(B) PROVE ThroughIsGreatest'
    BY <1>0, <1>3, ClaimCommandsEffect, Zenon DEF ClaimCommands
  <1>4. ASSUME CommandStep PROVE ThroughIsGreatest'
    BY <1>0, <1>4, CommandStepEffect
  <1>5. ASSUME NEW r \in Run, NEW n \in Sequence, NEW e \in EventType,
               NEW th \in Thread, NEW tu \in Turn, AppendAgentEvent(r, n, e, th, tu)
        PROVE  ThroughIsGreatest'
    <2>1. \A q \in Run \ {r} : Rows(q)' = Rows(q) /\ runs'[q].through = runs[q].through
      BY <1>5, AppendEffect DEF Rows
    <2>2. Rows(r)' = Rows(r) \cup {n}
      BY <1>5, AppendEffect DEF Rows, EventType
    <2>3. runs[r].through \in Sequence \cup {0}
      BY RunColumns DEF TypeOK
    <2>4. /\ ThroughAfter(r, n) \in Rows(r) \cup {n, 0}
          /\ \A m \in Rows(r) \cup {n} : m <= ThroughAfter(r, n)
      <3>1. /\ runs[r].through \in Rows(r) \cup {0}
            /\ \A m \in Rows(r) : m <= runs[r].through
        BY DEF ThroughIsGreatest
      <3>2. (\A m \in Sequence : m \in Nat) /\ 0 \in Nat /\ Rows(r) \subseteq Sequence
        BY StoreAssumption DEF Rows
      <3>5. n \in Nat /\ runs[r].through \in Nat
        BY <2>3, <3>2, Zenon
      <3>3. CASE n > runs[r].through
        <4>1. ThroughAfter(r, n) = n
          BY <3>3, Zenon DEF ThroughAfter
        <4>2. \A m \in Rows(r) : m \in Nat
          BY <3>2, Zenon
        <4> QED BY <3>1, <3>3, <3>5, <4>1, <4>2
      <3>4. CASE ~ n > runs[r].through
        <4>1. ThroughAfter(r, n) = runs[r].through
          BY <3>4, Zenon DEF ThroughAfter
        <4> QED BY <3>1, <3>4, <3>5, <4>1
      <3> QED BY <3>3, <3>4
    <2> QED BY <1>5, <2>1, <2>2, <2>4, AppendEffect DEF ThroughIsGreatest
  <1> QED BY <1>1, <1>2, <1>3, <1>4, <1>5, NextCases

\* A terminal status keeps its event: journal positions are written only once.
LEMMA TerminalStepInv ==
  ASSUME TypeOK, TerminalHasEvent, Next
  PROVE  TerminalHasEvent'
  <1> USE DEF TerminalHasEvent
  <1>0. ASSUME journal' = journal,
               \A q \in Created' : isTerminal(runs'[q].status) =>
                  /\ q \in Created
                  /\ runs'[q].status = runs[q].status /\ runs'[q].final = runs[q].final
        PROVE  TerminalHasEvent'
    <2>1. \A q \in Run : Rows(q)' = Rows(q)
      BY <1>0 DEF Rows
    <2> QED BY <1>0, <2>1 DEF Created
  <1>1. ASSUME NEW r \in Run, NEW s \in Session, NEW k \in Key, CreateRun(r, s, k)
        PROVE  TerminalHasEvent'
    <2>1. ~ isTerminal(runs'[r].status)
      BY <1>1, CreateRunEffect, Zenon DEF isTerminal
    <2>2. journal' = journal
      BY <1>1 DEF CreateRun
    <2>3. \A q \in Created : q # r /\ runs'[q] = runs[q]
      BY <1>1, CreateRunEffect, Zenon DEF Created
    <2>4. Created' = Created \cup {r}
      BY <1>1, CreateRunEffect, Zenon
    <2> QED BY <1>0, <2>1, <2>2, <2>3, <2>4
  <1>2. ASSUME NEW r \in Run, RequestCancel(r) PROVE TerminalHasEvent'
    <2>1. journal' = journal
      BY <1>2 DEF RequestCancel
    <2>2. /\ Created' = Created
          /\ \A q \in Created : runs'[q].status = runs[q].status /\ runs'[q].final = runs[q].final
      BY <1>2, RequestCancelEffect, Zenon DEF Created
    <2> QED BY <1>0, <2>1, <2>2
  <1>3. ASSUME NEW B \in SUBSET Command, ClaimCommands(B) PROVE TerminalHasEvent'
    <2>1. journal' = journal
      BY <1>3, Zenon DEF ClaimCommands
    <2>2. ~ isTerminal("dispatching")
      BY DEF isTerminal
    <2>3. /\ Created' = Created
          /\ \A q \in Created : /\ isTerminal(runs'[q].status) => runs'[q].status = runs[q].status
                               /\ runs'[q].final = runs[q].final
      BY <1>3, <2>2, ClaimCommandsEffect DEF Created
    <2> QED BY <1>0, <2>1, <2>3
  <1>4. ASSUME CommandStep PROVE TerminalHasEvent'
    BY <1>4, CommandStepEffect DEF Rows
  <1>5. ASSUME NEW r \in Run, NEW n \in Sequence, NEW e \in EventType,
               NEW th \in Thread, NEW tu \in Turn, AppendAgentEvent(r, n, e, th, tu)
        PROVE  TerminalHasEvent'
    <2>0. ~ isTerminal("")
      BY DEF isTerminal
    <2>1. \A q \in Created' \ {r} : isTerminal(runs'[q].status) =>
             /\ runs'[q].final \in Rows(q)'
             /\ statusForEvent[journal'[q][runs'[q].final]] = runs'[q].status
      BY <1>5, AppendEffect DEF Rows, Created
    <2>2. Rows(r)' = Rows(r) \cup {n}
      BY <1>5, AppendEffect DEF Rows, EventType
    <2>3. CASE isTerminal(statusForEvent[e])
      <3>1. runs'[r].status = statusForEvent[e] /\ runs'[r].final = n
        <4>1. statusForEvent[e] # ""
          BY <2>0, <2>3
        <4>2. runs'[r].status = StatusAfter(r, e) /\ runs'[r].final = FinalAfter(r, n, e)
          BY <1>5, AppendEffect
        <4> QED BY <2>3, <4>1, <4>2 DEF StatusAfter, FinalAfter
      <3>2. journal'[r][n] = e
        BY <1>5, AppendEffect
      <3> QED BY <2>1, <2>2, <3>1, <3>2
    <2>4. CASE ~ isTerminal(statusForEvent[e])
      <3>1. runs'[r].final = runs[r].final
        BY <1>5, <2>4, AppendEffect DEF FinalAfter
      <3>2. isTerminal(runs'[r].status) => runs'[r].status = runs[r].status
        <4>1. runs'[r].status = StatusAfter(r, e)
          BY <1>5, AppendEffect
        <4> QED BY <2>4, <4>1 DEF StatusAfter
      <3>3. \A m \in Rows(r) : journal'[r][m] = journal[r][m]
        BY <1>5, AppendEffect DEF Rows
      <3> QED BY <1>5, <2>1, <2>2, <3>1, <3>2, <3>3, AppendEffect
    <2> QED BY <2>3, <2>4
  <1> QED BY <1>1, <1>2, <1>3, <1>4, <1>5, NextCases

\* CreateRun's lookup under the session's lock keeps keys unique.
LEMMA KeyStep ==
  ASSUME TypeOK, OneRunPerKey, Next
  PROVE  OneRunPerKey'
  <1> USE DEF OneRunPerKey
  <1>0. ASSUME Created' = Created, \A q \in Run : /\ runs'[q].session = runs[q].session
                                                 /\ runs'[q].key = runs[q].key
        PROVE  OneRunPerKey'
    BY <1>0 DEF Created
  <1>1. ASSUME NEW r \in Run, NEW s \in Session, NEW k \in Key, CreateRun(r, s, k)
        PROVE  OneRunPerKey'
    <2>1. \A q \in Created : ~ (runs[q].session = s /\ runs[q].key = k)
      BY <1>1 DEF CreateRun, KeyFree
    <2>2. \A q \in Created : q # r /\ q \in Run /\ runs'[q] = runs[q]
      BY <1>1, CreateRunEffect, Zenon DEF Created
    <2>3. Created' = Created \cup {r} /\ runs'[r].session = s /\ runs'[r].key = k
      BY <1>1, CreateRunEffect, ZenonT(30)
    <2> QED BY <2>1, <2>2, <2>3
  <1>2. ASSUME NEW r \in Run, RequestCancel(r) PROVE OneRunPerKey'
    BY <1>0, <1>2, RequestCancelEffect, Zenon
  <1>3. ASSUME NEW B \in SUBSET Command, ClaimCommands(B) PROVE OneRunPerKey'
    BY <1>0, <1>3, ClaimCommandsEffect
  <1>4. ASSUME CommandStep PROVE OneRunPerKey'
    BY <1>0, <1>4, CommandStepEffect
  <1>5. ASSUME NEW r \in Run, NEW n \in Sequence, NEW e \in EventType,
               NEW th \in Thread, NEW tu \in Turn, AppendAgentEvent(r, n, e, th, tu)
        PROVE  OneRunPerKey'
    BY <1>0, <1>5, AppendEffect
  <1> QED BY <1>1, <1>2, <1>3, <1>4, <1>5, NextCases

\* Runs and cancellations are written together with their commands.
LEMMA OutboxStep ==
  ASSUME TypeOK, BlankUntilCreated, OutboxMatchesRuns, Next
  PROVE  OutboxMatchesRuns'
  <1> USE DEF OutboxMatchesRuns
  <1>0. ASSUME Created' = Created, \A q \in Run : runs'[q].cancel = runs[q].cancel,
               \A c \in Command : outbox'[c].status = "absent" <=> outbox[c].status = "absent"
        PROVE  OutboxMatchesRuns'
    BY <1>0, CommandNames
  <1>1. ASSUME NEW r \in Run, NEW s \in Session, NEW k \in Key, CreateRun(r, s, k)
        PROVE  OutboxMatchesRuns'
    <2>1. runs[r] = AbsentRun
      BY <1>1, CreateRunEffect, Zenon DEF BlankUntilCreated
    <2>2. \A q \in Run : runs'[q].cancel = runs[q].cancel
      <3>1. AbsentRun.cancel = FALSE
        BY DEF AbsentRun
      <3>2. runs'[r].cancel = FALSE /\ \A q \in Run \ {r} : runs'[q] = runs[q]
        BY <1>1, CreateRunEffect, Zenon
      <3>3. runs[r].cancel = FALSE
        BY <2>1, <3>1, Zenon
      <3> QED BY <3>2, <3>3, Zenon
    <2>3. /\ outbox'[Start(r)].status # "absent"
          /\ \A c \in Command \ {Start(r)} : outbox'[c] = outbox[c]
      BY <1>1, CommandNames DEF CreateRun, NewCommand, TypeOK
    <2>4. \A q \in Run : /\ q \in Created' <=> outbox'[Start(q)].status # "absent"
                         /\ outbox'[Cancel(q)] = outbox[Cancel(q)]
      <3>1. Created' = Created \cup {r}
        BY <1>1, CreateRunEffect, Zenon
      <3> QED BY <2>3, <3>1, CommandNames
    <2> QED BY <2>2, <2>4
  <1>2. ASSUME NEW r \in Run, RequestCancel(r) PROVE OutboxMatchesRuns'
    <2>1. outbox[Cancel(r)].status = "absent"
      BY <1>2 DEF RequestCancel
    <2>2. /\ outbox'[Cancel(r)].status # "absent"
          /\ \A c \in Command \ {Cancel(r)} : outbox'[c] = outbox[c]
      BY <1>2, <2>1, CommandNames DEF RequestCancel, NewCommand, TypeOK
    <2>3. \A q \in Run : /\ runs'[q].cancel <=> outbox'[Cancel(q)].status # "absent"
                         /\ outbox'[Start(q)] = outbox[Start(q)]
      <3>1. \A q \in Run : q # r => Cancel(q) \in Command \ {Cancel(r)}
        BY CommandNames
      <3>2. \A q \in Run : Start(q) \in Command \ {Cancel(r)}
        BY CommandNames
      <3>3. runs'[r].cancel /\ \A q \in Run \ {r} : runs'[q] = runs[q]
        BY <1>2, RequestCancelEffect, Zenon
      <3> QED BY <2>2, <3>1, <3>2, <3>3, Zenon
    <2> QED BY <1>2, <2>3, RequestCancelEffect, Zenon
  <1>3. ASSUME NEW B \in SUBSET Command, ClaimCommands(B) PROVE OutboxMatchesRuns'
    <2>1. \A c \in Command : outbox'[c].status = "absent" <=> outbox[c].status = "absent"
      BY <1>3, Zenon DEF ClaimCommands, OldestClaimable, Claimable, TypeOK, CommandRow
    <2> QED BY <1>0, <1>3, <2>1, ClaimCommandsEffect
  <1>4. ASSUME CommandStep PROVE OutboxMatchesRuns'
    BY <1>0, <1>4, CommandStepEffect
  <1>5. ASSUME NEW r \in Run, NEW n \in Sequence, NEW e \in EventType,
               NEW th \in Thread, NEW tu \in Turn, AppendAgentEvent(r, n, e, th, tu)
        PROVE  OutboxMatchesRuns'
    <2>1. outbox' = outbox
      BY <1>5 DEF AppendAgentEvent
    <2>2. Created' = Created /\ \A q \in Run : runs'[q].cancel = runs[q].cancel
      BY <1>5, AppendEffect, Zenon
    <2> QED BY <1>0, <2>1, <2>2, Zenon
  <1> QED BY <1>1, <1>2, <1>3, <1>4, <1>5, NextCases

\* The log of one session takes one entry, numbered next.
LEMMA FeedAppend ==
  ASSUME TypeOK, FeedGapFree, NEW s \in Session, NEW r \in Run, NEW st \in Status,
         Announce(s, r, st),
         sessions'[s].seq = sessions[s].seq + 1,
         \A t \in Session \ {s} : sessions'[t].seq = sessions[t].seq
  PROVE  /\ FeedGapFree'
         /\ feed'[s] = feed[s] \cup
              {[seq |-> sessions[s].seq + 1, run |-> r, status |-> st]}
         /\ \A t \in Session \ {s} : feed'[t] = feed[t]
         /\ \A f \in feed[s] : f.seq < sessions[s].seq + 1
  <1> DEFINE x == [seq |-> sessions[s].seq + 1, run |-> r, status |-> st]
  <1>1. sessions[s].seq \in Nat
    BY DEF TypeOK
  <1>2. /\ feed'[s] = feed[s] \cup {x}
        /\ \A t \in Session \ {s} : feed'[t] = feed[t]
    BY DEF Announce, TypeOK
  <1>3. x.seq = sessions[s].seq + 1
    OBVIOUS
  <1>4. \A f \in feed[s] : f.seq \in Nat /\ f.seq <= sessions[s].seq
    BY DEF TypeOK, FeedGapFree, FeedRow
  <1> HIDE DEF x
  <1>5. \A f \in feed[s] : f.seq < sessions[s].seq + 1
    BY <1>1, <1>4
  <1>6. ASSUME NEW t \in Session
        PROVE  /\ \A i \in 1 .. sessions'[t].seq : \E e \in feed'[t] : e.seq = i
               /\ \A e \in feed'[t] : e.seq <= sessions'[t].seq
               /\ \A e, f \in feed'[t] : e.seq = f.seq => e = f
    <2>1. CASE t = s
      <3>1. \A i \in 1 .. sessions[s].seq + 1 : i \in 1 .. sessions[s].seq \/ i = x.seq
        BY <1>1, <1>3
      <3>2. \A i \in 1 .. sessions[s].seq : \E e \in feed[s] : e.seq = i
        BY DEF FeedGapFree
      <3>3. \A e \in feed'[s] : e.seq <= sessions[s].seq + 1
        BY <1>1, <1>2, <1>3, <1>4
      <3>4. \A e, f \in feed'[s] : e.seq = f.seq => e = f
        BY <1>1, <1>2, <1>3, <1>4 DEF FeedGapFree
      <3> QED BY <1>2, <2>1, <3>1, <3>2, <3>3, <3>4
    <2>2. CASE t # s
      BY <1>2, <2>2 DEF FeedGapFree
    <2> QED BY <2>1, <2>2
  <1>7. FeedGapFree'
    BY <1>6 DEF FeedGapFree
  <1> USE DEF x
  <1> QED BY <1>2, <1>5, <1>7

\* The counter of the session row numbers its log without gaps.
LEMMA FeedStep ==
  ASSUME TypeOK, FeedGapFree, Next
  PROVE  FeedGapFree'
  <1>0. ASSUME feed' = feed, \A t \in Session : sessions'[t].seq = sessions[t].seq
        PROVE  FeedGapFree'
    BY <1>0 DEF FeedGapFree
  <1>1. ASSUME NEW r \in Run, NEW s \in Session, NEW k \in Key, CreateRun(r, s, k)
        PROVE  FeedGapFree'
    <2>1. /\ sessions'[s].seq = sessions[s].seq + 1
          /\ \A t \in Session \ {s} : sessions'[t].seq = sessions[t].seq
      BY <1>1 DEF CreateRun, TypeOK
    <2>2. Announce(s, r, "queued") /\ "queued" \in Status
      BY <1>1 DEF CreateRun, Status
    <2> QED BY <2>1, <2>2, FeedAppend
  <1>2. ASSUME NEW r \in Run, RequestCancel(r) PROVE FeedGapFree'
    BY <1>0, <1>2 DEF RequestCancel
  <1>3. ASSUME NEW B \in SUBSET Command, ClaimCommands(B) PROVE FeedGapFree'
    BY <1>0, <1>3, Zenon DEF ClaimCommands
  <1>4. ASSUME CommandStep PROVE FeedGapFree'
    BY <1>0, <1>4, CommandStepEffect
  <1>5. ASSUME NEW r \in Run, NEW n \in Sequence, NEW e \in EventType,
               NEW th \in Thread, NEW tu \in Turn, AppendAgentEvent(r, n, e, th, tu)
        PROVE  FeedGapFree'
    <2>0. runs[r].session \in Session
      BY <1>5 DEF AppendAgentEvent, TypeOK
    <2>1. CASE statusForEvent[e] # ""
      <3>1. /\ sessions'[runs[r].session].seq = sessions[runs[r].session].seq + 1
            /\ \A t \in Session \ {runs[r].session} : sessions'[t].seq = sessions[t].seq
        BY <1>5, <2>0, <2>1 DEF AppendAgentEvent, TypeOK
      <3>2. Announce(runs[r].session, r, statusForEvent[e]) /\ statusForEvent[e] \in Status
        BY <1>5, <2>1, StatusOfEvent DEF AppendAgentEvent
      <3> QED BY <2>0, <3>1, <3>2, FeedAppend
    <2>2. CASE statusForEvent[e] = ""
      <3>1. /\ feed' = feed
            /\ \A t \in Session : sessions'[t].seq = sessions[t].seq
        BY <1>5, <2>0, <2>2 DEF AppendAgentEvent, TypeOK
      <3> QED BY <1>0, <3>1
    <2> QED BY <2>1, <2>2
  <1> QED BY <1>1, <1>2, <1>3, <1>4, <1>5, NextCases

\* The run an entry is written for is shown by it, the other runs as before.
LEMMA TracksAppend ==
  ASSUME TypeOK, FeedGapFree, FeedTracksStatus,
         NEW s \in Session, NEW r \in Run, NEW st \in Status,
         Announce(s, r, st),
         sessions'[s].seq = sessions[s].seq + 1,
         \A t \in Session \ {s} : sessions'[t].seq = sessions[t].seq,
         \A q \in Run \ {r} : runs'[q] = runs[q],
         runs'[r].status = st, runs'[r].session = s
  PROVE  FeedTracksStatus'
  <1> DEFINE x == [seq |-> sessions[s].seq + 1, run |-> r, status |-> st]
  <1>1. sessions[s].seq \in Nat
    BY DEF TypeOK
  <1>2. /\ feed'[s] = feed[s] \cup {x}
        /\ \A t \in Session \ {s} : feed'[t] = feed[t]
        /\ \A f \in feed[s] : f.seq < sessions[s].seq + 1
    BY FeedAppend
  <1>3. x.seq = sessions[s].seq + 1 /\ x.run = r /\ x.status = st
    OBVIOUS
  <1>4. \A f \in feed[s] : f.seq \in Nat
    BY DEF TypeOK, FeedRow
  <1> HIDE DEF x
  <1> SUFFICES ASSUME NEW q \in Created'
               PROVE  \E e \in feed'[runs'[q].session] :
                        /\ e.run = q
                        /\ \A f \in feed'[runs'[q].session] : f.run = q => f.seq <= e.seq
                        /\ \/ e.status = runs'[q].status
                           \/ e.status = "queued" /\ runs'[q].status = "dispatching"
    BY DEF FeedTracksStatus, Newest
  <1>5. CASE q = r
    <2>1. x \in feed'[s] /\ \A f \in feed'[s] : f.seq <= x.seq
      BY <1>1, <1>2, <1>3, <1>4
    <2> QED BY <1>3, <1>5, <2>1
  <1>6. CASE q # r
    <2>1. q \in Created /\ runs'[q] = runs[q] /\ runs[q].session \in Session
      BY <1>6 DEF Created, TypeOK
    <2>2. PICK e \in feed[runs[q].session] :
            /\ e.run = q
            /\ \A f \in feed[runs[q].session] : f.run = q => f.seq <= e.seq
            /\ \/ e.status = runs[q].status
               \/ e.status = "queued" /\ runs[q].status = "dispatching"
      BY <2>1 DEF FeedTracksStatus, Newest
    <2>3. \A f \in feed'[runs[q].session] : f.run = q => f \in feed[runs[q].session]
      BY <1>2, <1>3, <1>6, <2>1
    <2>4. e \in feed'[runs[q].session]
      BY <1>2, <2>1
    <2> QED BY <2>1, <2>2, <2>3, <2>4
  <1> QED BY <1>5, <1>6

\* Each change of status but dispatching is announced in the session log.
LEMMA TracksStep ==
  ASSUME TypeOK, FeedGapFree, FeedTracksStatus, Next
  PROVE  FeedTracksStatus'
  <1>0. ASSUME feed' = feed, Created' = Created,
               \A q \in Run :
                 /\ runs'[q].session = runs[q].session
                 /\ \/ runs'[q].status = runs[q].status
                    \/ runs[q].status = "queued" /\ runs'[q].status = "dispatching"
        PROVE  FeedTracksStatus'
    BY <1>0 DEF FeedTracksStatus, Newest, Created
  <1>1. ASSUME NEW r \in Run, NEW s \in Session, NEW k \in Key, CreateRun(r, s, k)
        PROVE  FeedTracksStatus'
    <2>1. /\ sessions'[s].seq = sessions[s].seq + 1
          /\ \A t \in Session \ {s} : sessions'[t].seq = sessions[t].seq
      BY <1>1 DEF CreateRun, TypeOK
    <2>2. Announce(s, r, "queued") /\ "queued" \in Status
      BY <1>1 DEF CreateRun, Status
    <2>3. /\ \A q \in Run \ {r} : runs'[q] = runs[q]
          /\ runs'[r].status = "queued" /\ runs'[r].session = s
      BY <1>1, CreateRunEffect, Zenon
    <2> QED BY <2>1, <2>2, <2>3, TracksAppend
  <1>2. ASSUME NEW r \in Run, RequestCancel(r) PROVE FeedTracksStatus'
    <2>1. feed' = feed
      BY <1>2 DEF RequestCancel
    <2> QED BY <1>0, <1>2, <2>1, RequestCancelEffect, Zenon
  <1>3. ASSUME NEW B \in SUBSET Command, ClaimCommands(B) PROVE FeedTracksStatus'
    <2>1. feed' = feed
      BY <1>3, Zenon DEF ClaimCommands
    <2> QED BY <1>0, <1>3, <2>1, ClaimCommandsEffect
  <1>4. ASSUME CommandStep PROVE FeedTracksStatus'
    BY <1>0, <1>4, CommandStepEffect
  <1>5. ASSUME NEW r \in Run, NEW n \in Sequence, NEW e \in EventType,
               NEW th \in Thread, NEW tu \in Turn, AppendAgentEvent(r, n, e, th, tu)
        PROVE  FeedTracksStatus'
    <2>0. runs[r].session \in Session
      BY <1>5 DEF AppendAgentEvent, TypeOK
    <2>3. /\ \A q \in Run \ {r} : runs'[q] = runs[q]
          /\ runs'[r].status = StatusAfter(r, e)
          /\ runs'[r].session = runs[r].session
          /\ Created' = Created
      BY <1>5, AppendEffect
    <2>1. CASE statusForEvent[e] # ""
      <3>1. /\ sessions'[runs[r].session].seq = sessions[runs[r].session].seq + 1
            /\ \A t \in Session \ {runs[r].session} : sessions'[t].seq = sessions[t].seq
        BY <1>5, <2>0, <2>1 DEF AppendAgentEvent, TypeOK
      <3>2. Announce(runs[r].session, r, statusForEvent[e]) /\ statusForEvent[e] \in Status
        BY <1>5, <2>1, StatusOfEvent DEF AppendAgentEvent
      <3>3. runs'[r].status = statusForEvent[e]
        BY <2>1, <2>3 DEF StatusAfter
      <3> QED BY <2>0, <2>3, <3>1, <3>2, <3>3, TracksAppend
    <2>2. CASE statusForEvent[e] = ""
      <3>1. feed' = feed
        BY <1>5, <2>2 DEF AppendAgentEvent
      <3>2. runs'[r].status = runs[r].status
        BY <2>2, <2>3 DEF StatusAfter
      <3> QED BY <1>0, <2>3, <3>1, <3>2
    <2> QED BY <2>1, <2>2
  <1> QED BY <1>1, <1>2, <1>3, <1>4, <1>5, NextCases

-----------------------------------------------------------------------------
\* The empty schema satisfies the invariant.
LEMMA InitInv == Init => StoreInv
  <1> SUFFICES ASSUME Init PROVE StoreInv
    OBVIOUS
  <1>1. Created = {} /\ \A r \in Run : Rows(r) = {} /\ runs[r] = AbsentRun
    BY DEF Init, Created, AbsentRun, Rows
  <1>2. AbsentRun.through = 0 /\ AbsentRun.cancel = FALSE
    BY DEF AbsentRun
  <1>3. \A r \in Run : ~ runs[r].cancel
    BY <1>1, <1>2, Zenon
  <1>4. OutboxMatchesRuns
    <2>1. \A c \in Command : outbox[c].status = "absent"
      BY DEF Init, AbsentCommand
    <2> QED BY <1>1, <1>3, <2>1, CommandNames, Zenon DEF OutboxMatchesRuns
  <1>5. ThroughIsGreatest
    BY <1>1, <1>2 DEF ThroughIsGreatest
  <1>6. FeedGapFree
    BY DEF Init, FeedGapFree
  <1> QED BY <1>1, <1>4, <1>5, <1>6, InitType
          DEF StoreInv, BlankUntilCreated, FeedTracksStatus, TerminalHasEvent, OneRunPerKey

\* A step that leaves the store alone keeps the invariant.
LEMMA StutterInv ==
  ASSUME StoreInv, UNCHANGED storeVars
  PROVE  StoreInv'
  BY DEF StoreInv, storeVars, TypeOK, BlankUntilCreated, ThroughIsGreatest, FeedGapFree,
         FeedTracksStatus, TerminalHasEvent, OneRunPerKey, OutboxMatchesRuns,
         Created, Rows, Newest

\* StoreInv is inductive.
LEMMA NextInv == StoreInv /\ [Next]_storeVars => StoreInv'
  <1> SUFFICES ASSUME StoreInv, Next PROVE StoreInv'
    BY StutterInv
  <1> QED BY NextType, BlankStep, ThroughStep, FeedStep, TracksStep, TerminalStepInv,
             KeyStep, OutboxStep DEF StoreInv

\* Under every caller and every interleaving of transactions the store keeps
\* its journal position, its gap-free session log that tells the status of
\* every run, the event behind every terminal status, one run per idempotency
\* key and the outbox in step with the runs.
THEOREM StoreCorrect == Spec => []StoreInv
  BY InitInv, NextInv, PTL DEF Spec

\* persisted_through_sequence is the greatest stored sequence of its run,
\* whatever the order of the AppendAgentEvent calls.
THEOREM ThroughCorrect == Spec => []ThroughIsGreatest
  BY StoreCorrect, PTL DEF StoreInv

\* A terminal status is backed by the stored event final_sequence names.
THEOREM TerminalBacked == Spec => []TerminalHasEvent
  BY StoreCorrect, PTL DEF StoreInv

\* Any number of runs write a session's log without a gap or a duplicate.
THEOREM FeedComplete == Spec => []FeedGapFree
  BY StoreCorrect, PTL DEF StoreInv

\* The newest log entry about a run shows its status, dispatching excepted.
THEOREM FeedTruthful == Spec => []FeedTracksStatus
  BY StoreCorrect, PTL DEF StoreInv

\* CreateRun makes one run of an idempotency key in a session.
THEOREM KeysUnique == Spec => []OneRunPerKey
  BY StoreCorrect, PTL DEF StoreInv

\* Runs and their cancellations exist exactly with their outbox commands.
THEOREM OutboxFaithful == Spec => []OutboxMatchesRuns
  BY StoreCorrect, PTL DEF StoreInv

\* A step keeps every created run and counts what it changes of it.
LEMMA VersionsStep ==
  ASSUME TypeOK, Next
  PROVE  VersionStep
  <1> USE DEF VersionStep
  <1>0. \A q \in Created : q \in Run /\ runs[q].status # "absent" /\ runs[q].version \in Nat
    BY RunColumns DEF Created, TypeOK
  <1>1. ASSUME NEW r \in Run, NEW s \in Session, NEW k \in Key, CreateRun(r, s, k)
        PROVE  VersionStep
    <2>1. \A q \in Created : runs'[q] = runs[q]
      BY <1>1, CreateRunEffect, ZenonT(30) DEF Created
    <2> QED BY <1>0, <2>1
  <1>2. ASSUME NEW r \in Run, RequestCancel(r) PROVE VersionStep
    BY <1>0, <1>2, RequestCancelEffect, ZenonT(30)
  <1>3. ASSUME NEW B \in SUBSET Command, ClaimCommands(B) PROVE VersionStep
    BY <1>0, <1>3, ClaimCommandsEffect
  <1>4. ASSUME CommandStep PROVE VersionStep
    BY <1>0, <1>4, CommandStepEffect
  <1>5. ASSUME NEW r \in Run, NEW n \in Sequence, NEW e \in EventType,
               NEW th \in Thread, NEW tu \in Turn, AppendAgentEvent(r, n, e, th, tu)
        PROVE  VersionStep
    BY <1>0, <1>5, AppendEffect, StatusOfEvent, ZenonT(30) DEF StatusAfter, VersionAfter, Created
  <1> QED BY <1>1, <1>2, <1>3, <1>4, <1>5, NextCases

\* state_version counts the changes of a run a client can see.
THEOREM VersionsCount == Spec => VersionCountsChanges
  <1>1. TypeOK /\ [Next]_storeVars => [VersionStep]_storeVars
    BY VersionsStep
  <1> QED BY <1>1, TypeCorrect, PTL DEF Spec, VersionCountsChanges
=============================================================================
