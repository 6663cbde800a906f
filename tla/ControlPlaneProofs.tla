-------------------------- MODULE ControlPlaneProofs --------------------------
(***************************************************************************)
(* Proofs about ControlPlane for any number of sessions, runs, keys,       *)
(* requests and failures.                                                  *)
(***************************************************************************)
EXTENDS ControlPlane, TLAPS

(* A run that was accepted names its session, and only an accepted run has *)
(* an executor.                                                            *)
RowsExist ==
    /\ \A r \in Runs : runs[r].status # "NONE" => runs[r].session \in Sessions
    /\ \A r \in Runs : exec[r].pc # "none" => runs[r].status # "NONE"

-----------------------------------------------------------------------------
(* What the flush leaves is the stored or the new value. *)
LEMMA DirtyValue ==
    ASSUME NEW S, NEW stored \in S, NEW loaded, NEW new \in S
    PROVE  Dirty(stored, loaded, new) \in S
BY DEF Dirty

(* Writing a status keeps the table a table of session rows. *)
LEMMA WriteStatusType ==
    ASSUME sessions \in [Sessions -> SessionRow], NEW s, NEW loaded,
           NEW new \in SessionStatus, WriteStatus(s, loaded, new)
    PROVE  sessions' \in [Sessions -> SessionRow]
BY DEF WriteStatus, Dirty, SessionRow, SessionStatus

LEMMA CreateStepType ==
    ASSUME TypeOK, NEW s \in Sessions, CreateStep(s)
    PROVE  TypeOK'
<1> USE DEF TypeOK, DatabaseTypeOK, ServiceTypeOK, ExecutorTypeOK, ReconcilerTypeOK,
            processVars, databaseVars, ContainerState, CreatePC
<1>1. UNCHANGED <<exec, rec, processVars>>
  BY DEF CreateStep
<1>2. CASE DockerCreate(s)
  BY <1>1, <1>2 DEF DockerCreate
<1>3. CASE DockerStart(s)
  BY <1>1, <1>3 DEF DockerStart
<1>4. CASE DockerStartNotFound(s)
  BY <1>1, <1>4 DEF DockerStartNotFound
<1>5. CASE AwaitHealthy(s)
  BY <1>1, <1>5 DEF AwaitHealthy
<1>6. CASE HealthFails(s)
  BY <1>1, <1>6 DEF HealthFails, RemoveContainer
<1>7. CASE BindRuntime(s)
  <2>1. sessions' \in [Sessions -> SessionRow]
    BY <1>7 DEF BindRuntime, Dirty, SessionRow, SessionStatus
  <2> QED
    BY <1>1, <1>7, <2>1 DEF BindRuntime
<1>8. CASE CreateFailed(s)
  <2>1. sessions' \in [Sessions -> SessionRow]
    BY <1>8, WriteStatusType DEF CreateFailed, SessionStatus
  <2> QED
    BY <1>1, <1>8, <2>1 DEF CreateFailed
<1> QED
  BY <1>2, <1>3, <1>4, <1>5, <1>6, <1>7, <1>8 DEF CreateStep

LEMMA ArriveType ==
    ASSUME TypeOK, Arrive
    PROVE  TypeOK'
<1> USE DEF TypeOK, DatabaseTypeOK, ServiceTypeOK, ExecutorTypeOK, ReconcilerTypeOK,
            processVars, databaseVars, CreatePC
<1>1. UNCHANGED <<exec, rec, processVars>>
  BY DEF Arrive
<1>2. ASSUME NEW s \in Sessions, CreateSession(s)
      PROVE  TypeOK'
  <2>1. sessions' \in [Sessions -> SessionRow]
    <3>1. PICK row \in SessionRow : sessions' = [sessions EXCEPT ![s] = row]
      BY <1>2 DEF CreateSession, SessionRow, SessionStatus
    <3> QED
      BY <3>1
  <2> QED
    BY <1>1, <1>2, <2>1 DEF CreateSession
<1>3. ASSUME NEW h \in Requests, NEW s \in Sessions, StopRead(h, s) \/ DeleteRead(h, s)
      PROVE  TypeOK'
  <2>1. sessions[s] \in SessionRow
    OBVIOUS
  <2>2. call' \in [Requests -> Call]
    BY <1>3, <2>1 DEF StopRead, DeleteRead, Call, CallPC
  <2> QED
    BY <1>1, <1>3, <2>2 DEF StopRead, DeleteRead
<1> QED
  BY <1>2, <1>3 DEF Arrive

LEMMA AddMessageType ==
    ASSUME messages \in [Sessions -> Seq(Message)], NEW s, NEW r \in Runs,
           NEW role \in {"USER", "ASSISTANT"}, AddMessage(s, r, role)
    PROVE  messages' \in [Sessions -> Seq(Message)]
<1> DEFINE m == [run |-> r, role |-> role]
<1>1. m \in Message
  BY DEF Message
<1> HIDE DEF m
<1>2. \A q \in Seq(Message) : Append(q, m) \in Seq(Message)
  BY <1>1
<1>3. messages' = [messages EXCEPT ![s] = Append(@, m)]
  BY DEF AddMessage, m
<1> QED
  BY <1>2, <1>3

(* create_run's transaction, whether or not its run is scheduled after it. *)
RunAccepted(r, s, k) == CreateRun(r, s, k) /\ (Schedule(r) \/ UNCHANGED exec)

LEMMA RunAcceptedType ==
    ASSUME TypeOK, NEW r \in Runs, NEW s \in Sessions, NEW k \in Keys \cup {Null},
           RunAccepted(r, s, k), UNCHANGED rec
    PROVE  DatabaseTypeOK' /\ ServiceTypeOK' /\ ExecutorTypeOK' /\ ReconcilerTypeOK'
<1> USE DEF TypeOK, DatabaseTypeOK, ServiceTypeOK, ExecutorTypeOK, ReconcilerTypeOK,
            processVars, serviceVars
<1>1. CreateRun(r, s, k) /\ (Schedule(r) \/ UNCHANGED exec)
  BY DEF RunAccepted
<1>2. runs' \in [Runs -> RunRow]
  BY <1>1 DEF CreateRun, RunRow, RunStatus
<1>3. messages' \in [Sessions -> Seq(Message)]
  BY <1>1, AddMessageType DEF CreateRun
<1>4. sessions' \in [Sessions -> SessionRow]
  BY <1>1, ZenonT(30) DEF CreateRun, SessionRow, SessionStatus
<1>5. exec' \in [Runs -> Exec]
  BY <1>1 DEF Schedule, Step, ExecAt, Exec, ExecPC
<1> QED
  BY <1>1, <1>2, <1>3, <1>4, <1>5 DEF CreateRun

LEMMA SubmitRunType ==
    ASSUME TypeOK, SubmitRun
    PROVE  TypeOK'
<1>1. PICK r \in Runs, s \in Sessions, k \in Keys \cup {Null} : RunAccepted(r, s, k)
  BY DEF SubmitRun, RunAccepted
<1> QED
  BY <1>1, RunAcceptedType DEF SubmitRun, processVars, TypeOK

LEMMA CallStepType ==
    ASSUME TypeOK, NEW h \in Requests, CallStep(h)
    PROVE  TypeOK'
<1> USE DEF TypeOK, DatabaseTypeOK, ServiceTypeOK, ExecutorTypeOK, ReconcilerTypeOK,
            processVars, databaseVars
<1>1. UNCHANGED <<exec, rec, processVars>>
  BY DEF CallStep
<1>2. ASSUME NEW pc \in CallPC, Goto(h, pc)
      PROVE  call' \in [Requests -> Call]
  BY <1>2 DEF Goto, Call
<1>3. ASSUME Finish(h)
      PROVE  call' \in [Requests -> Call]
  BY <1>3 DEF Finish, EmptyCall, AbsentRow, Call, CallPC, SessionRow, SessionStatus
<1>4. ASSUME CommitCancelled(h)
      PROVE  /\ runs' \in [Runs -> RunRow]
             /\ runLocks' \in SUBSET Runs
             /\ call' \in [Requests -> Call]
  <2>1. runs' \in [Runs -> RunRow]
    <3> DEFINE cancelled(r) == [runs[r] EXCEPT !.status = "CANCELLED"]
               row(r) == IF r \in call[h].locked THEN cancelled(r) ELSE runs[r]
    <3>1. \A r \in Runs : cancelled(r) \in RunRow
      BY DEF RunRow, RunStatus
    <3>2. \A r \in Runs : row(r) \in RunRow
      <4> HIDE DEF cancelled
      <4> QED
        BY <3>1
    <3>3. runs' = [r \in Runs |-> row(r)]
      BY <1>4 DEF CommitCancelled
    <3> HIDE DEF row
    <3> QED
      BY <3>2, <3>3
  <2>2. runLocks' \in SUBSET Runs
    BY <1>4 DEF CommitCancelled
  <2>3. call' \in [Requests -> Call]
    BY <1>3, <1>4 DEF CommitCancelled
  <2> QED
    BY <2>1, <2>2, <2>3
<1>5. CASE StopMark(h)
  <2>1. sessions' \in [Sessions -> SessionRow]
    BY <1>5, WriteStatusType DEF StopMark, SessionStatus
  <2>2. call' \in [Requests -> Call]
    <3>1. call[h] \in Call
      OBVIOUS
    <3>2. [call[h] EXCEPT !.pc = "stop_runtime",
                          !.loaded = [call[h].loaded EXCEPT !.status = "STOPPING"]] \in Call
      BY <3>1 DEF Call, CallPC, SessionRow, SessionStatus
    <3> QED
      BY <1>5, <3>2 DEF StopMark
  <2> QED
    BY <1>1, <1>5, <2>1, <2>2 DEF StopMark
<1>6. CASE StopRuntime(h) \/ DeleteRuntime(h)
  <2>1. containers' \in [Sessions -> ContainerState]
    BY <1>6 DEF StopRuntime, DeleteRuntime, StopContainer, RemoveContainer, ContainerState
  <2>2. call' \in [Requests -> Call]
    BY <1>2, <1>6 DEF StopRuntime, DeleteRuntime, CallPC
  <2> QED
    BY <1>1, <1>6, <2>1, <2>2 DEF StopRuntime, DeleteRuntime
<1>7. CASE StopFailed(h)
  <2>1. sessions' \in [Sessions -> SessionRow]
    BY <1>7, WriteStatusType DEF StopFailed, SessionStatus
  <2> QED
    BY <1>1, <1>3, <1>7, <2>1 DEF StopFailed
<1>8. CASE StopCancel(h) \/ DeleteCancel(h)
  <2>1. PICK from \in CallPC, to \in {"stop_commit", "delete_commit"} :
           CancelRuns(h, from, to)
    BY <1>8 DEF StopCancel, DeleteCancel, CallPC
  <2>2. CancellableRuns(call[h].session) \in SUBSET Runs
    BY DEF CancellableRuns, ActiveRuns
  <2>3. call' \in [Requests -> Call] /\ runLocks' \in SUBSET Runs
    <3>1. \A x \in SUBSET Runs : [call[h] EXCEPT !.pc = to, !.locked = x] \in Call
      BY <2>1 DEF Call, CallPC
    <3> QED
      BY <2>1, <2>2, <3>1 DEF CancelRuns
  <2> QED
    BY <1>1, <2>1, <2>3 DEF CancelRuns
<1>9. CASE StopCommit(h)
  <2>1. sessions' \in [Sessions -> SessionRow]
    BY <1>9, WriteStatusType DEF StopCommit, SessionStatus
  <2> QED
    BY <1>1, <1>4, <1>9, <2>1 DEF StopCommit
<1>10. CASE DeleteCommit(h)
  <2>1. sessions' \in [Sessions -> SessionRow]
    BY <1>10 DEF DeleteCommit, Dirty, SessionRow, SessionStatus
  <2> QED
    BY <1>1, <1>4, <1>10, <2>1 DEF DeleteCommit
<1> QED
  BY <1>5, <1>6, <1>7, <1>8, <1>9, <1>10 DEF CallStep

(* The status an executor loads is that of a row. *)
LEMMA LoadedStatus ==
    ASSUME TypeOK, RowsExist, NEW r \in Runs, exec[r].pc # "none"
    PROVE  sessions[runs[r].session].status \in SessionStatus \cup {"ABSENT"}
BY DEF TypeOK, DatabaseTypeOK, RowsExist, SessionRow

LEMMA StepType ==
    ASSUME TypeOK, NEW r \in Runs, NEW from, NEW to \in ExecPC, Step(r, from, to)
    PROVE  exec' \in [Runs -> Exec]
BY DEF TypeOK, ExecutorTypeOK, Step, ExecAt, Exec

LEMMA RunStepType ==
    ASSUME TypeOK, RowsExist, NEW r \in Runs, RunStep(r)
    PROVE  TypeOK'
<1> USE DEF TypeOK, DatabaseTypeOK, ServiceTypeOK, ExecutorTypeOK, ReconcilerTypeOK,
            processVars, serviceVars, databaseVars
<1>1. UNCHANGED <<containers, serviceVars, rec, processVars>>
  BY DEF RunStep
<1>2. CASE ExecLoad(r)
  <2>1. exec' \in [Runs -> Exec]
    BY <1>2, LoadedStatus DEF ExecLoad, ExecAt, Exec, ExecPC
  <2> QED
    BY <1>1, <1>2, <2>1 DEF ExecLoad
<1>3. CASE ExecStart(r)
  <2>1. sessions' \in [Sessions -> SessionRow]
    BY <1>3, WriteStatusType DEF ExecStart, SessionStatus
  <2>2. runs' \in [Runs -> RunRow]
    BY <1>3, ZenonT(30) DEF ExecStart, RunRow, RunStatus
  <2>3. exec' \in [Runs -> Exec]
    BY <1>3, StepType DEF ExecStart, ExecPC
  <2> QED
    BY <1>1, <1>3, <2>1, <2>2, <2>3 DEF ExecStart
<1>4. CASE AgentReturns(r) \/ AgentRaises(r) \/ RefreshRun(r) \/ SequenceConflict(r)
           \/ Announce(r) \/ Rollback(r)
  <2>1. PICK from, to \in ExecPC : Step(r, from, to)
    BY <1>4 DEF AgentReturns, AgentRaises, RefreshRun, SequenceConflict, Announce,
                Rollback, ExecPC
  <2>2. exec' \in [Runs -> Exec]
    BY <2>1, StepType
  <2>3. UNCHANGED databaseVars
    BY <1>4 DEF AgentReturns, AgentRaises, RefreshRun, SequenceConflict, Announce, Rollback
  <2> QED
    BY <1>1, <2>2, <2>3
<1>5. CASE RefreshSession(r) \/ ReloadSession(r)
  <2>1. exec' \in [Runs -> Exec]
    <3>1. sessions[runs[r].session].status \in SessionStatus \cup {"ABSENT"}
      BY <1>5, LoadedStatus DEF RefreshSession, ReloadSession
    <3> DEFINE moved(pc, l) == [exec[r] EXCEPT !.pc = pc, !.loaded = l]
    <3>2. \A pc \in ExecPC, l \in SessionStatus \cup {"ABSENT"} : moved(pc, l) \in Exec
      BY DEF Exec
    <3>3. PICK pc \in {"sequence", "fail"} :
             exec' = [exec EXCEPT ![r] = moved(pc, sessions[runs[r].session].status)]
      BY <1>5 DEF RefreshSession, ReloadSession
    <3>4. pc \in ExecPC
      BY <3>3 DEF ExecPC
    <3> HIDE DEF moved
    <3> QED
      BY <3>1, <3>2, <3>3, <3>4
  <2> QED
    BY <1>1, <1>5, <2>1 DEF RefreshSession, ReloadSession
<1>6. CASE ReadSequence(r)
  <2>1. runs[r].session \in Sessions
    BY <1>6 DEF ReadSequence, RowsExist
  <2>2. NextMessageSequence(runs[r].session) \in Nat
    BY <2>1 DEF NextMessageSequence
  <2>3. exec' \in [Runs -> Exec]
    BY <1>6, <2>2 DEF ReadSequence, Exec, ExecPC
  <2> QED
    BY <1>1, <1>6, <2>3 DEF ReadSequence
<1>7. CASE ExecComplete(r)
  <2>1. sessions' \in [Sessions -> SessionRow]
    BY <1>7, WriteStatusType DEF ExecComplete, SessionStatus
  <2>2. runs' \in [Runs -> RunRow]
    BY <1>7, ZenonT(30) DEF ExecComplete, RunRow, RunStatus
  <2>3. messages' \in [Sessions -> Seq(Message)]
    BY <1>7, AddMessageType DEF ExecComplete
  <2>4. exec' \in [Runs -> Exec]
    BY <1>7, StepType DEF ExecComplete, ExecPC
  <2> QED
    BY <1>1, <1>7, <2>1, <2>2, <2>3, <2>4 DEF ExecComplete
<1>8. CASE ExecFail(r)
  <2>1. sessions' \in [Sessions -> SessionRow]
    BY <1>8, WriteStatusType DEF ExecFail, SessionStatus
  <2>2. runs' \in [Runs -> RunRow]
    BY <1>8, ZenonT(30) DEF ExecFail, RunRow, RunStatus
  <2>3. exec' \in [Runs -> Exec]
    BY <1>8, StepType DEF ExecFail, ExecPC
  <2> QED
    BY <1>1, <1>8, <2>1, <2>2, <2>3 DEF ExecFail
<1> QED
  BY <1>2, <1>3, <1>4, <1>5, <1>6, <1>7, <1>8 DEF RunStep, ExecStep

(* What a pass leaves in a row's columns. *)
LEMMA ReconciledType ==
    ASSUME NEW row \in SessionRow, NEW info \in {"none", "running", "stopped"},
           NEW late \in BOOLEAN
    PROVE  /\ ReconciledStatus(row, info, late) \in SessionStatus \cup {"ABSENT"}
           /\ ReconciledBound(row, info, late) \in BOOLEAN
BY DEF ReconciledStatus, ReconciledBound, StatusFor, Examined, Orphan, SessionRow,
       SessionStatus, ActiveSessionStatuses

LEMMA IdleRecType == IdleRec \in Rec
BY DEF IdleRec, Rec, Listing, AbsentRow, SessionRow, SessionStatus

LEMMA ReconcileStepType ==
    ASSUME TypeOK, ReconcileStep
    PROVE  TypeOK'
<1> USE DEF TypeOK, DatabaseTypeOK, ServiceTypeOK, ExecutorTypeOK, ReconcilerTypeOK,
            serviceVars, databaseVars
<1>1. UNCHANGED <<serviceVars, exec, faults>> /\ serving' \in BOOLEAN
  BY DEF ReconcileStep
<1>2. CASE ReconcileList
  <2>1. [s \in Sessions |-> ToRuntimeInfo(containers[s])] \in Listing
    BY DEF Listing, ToRuntimeInfo
  <2>2. rec' \in Rec
    BY <1>2, <2>1 DEF ReconcileList, Rec
  <2> QED
    BY <1>1, <1>2, <2>2 DEF ReconcileList
<1>3. CASE ReconcileLoad
  <2> DEFINE now == {s \in Sessions : expired[s]}
             todo == Doomed(rec.listed, sessions, now)
  <2>1. todo \in SUBSET Sessions
    BY DEF Doomed
  <2>2. rec' = [rec EXCEPT !.pc = "delete", !.loaded = sessions, !.now = now, !.todo = todo]
    BY <1>3 DEF ReconcileLoad
  <2>3. now \in SUBSET Sessions
    OBVIOUS
  <2> HIDE DEF now, todo
  <2>4. rec' \in Rec
    BY <2>1, <2>2, <2>3 DEF Rec
  <2> QED
    BY <1>1, <1>3, <2>4 DEF ReconcileLoad
<1>4. ASSUME NEW s \in Sessions, ReconcileDelete(s)
      PROVE  TypeOK'
  <2>1. rec' \in Rec
    BY <1>4 DEF ReconcileDelete, Rec
  <2> QED
    BY <1>1, <1>4, <2>1 DEF ReconcileDelete, RemoveContainer, ContainerState
<1>5. CASE ReconcileCommit
  <2>1. ASSUME NEW s \in Sessions
        PROVE  sessions'[s] \in SessionRow
    <3>1. /\ rec.loaded[s] \in SessionRow
          /\ rec.listed[s] \in {"none", "running", "stopped"}
          /\ sessions[s] \in SessionRow
      BY DEF Rec, Listing
    <3> DEFINE st == ReconciledStatus(rec.loaded[s], rec.listed[s], s \in rec.now)
               bd == ReconciledBound(rec.loaded[s], rec.listed[s], s \in rec.now)
    <3>2. st \in SessionStatus \cup {"ABSENT"} /\ bd \in BOOLEAN
      <4>1. (s \in rec.now) \in BOOLEAN
        OBVIOUS
      <4> QED
        BY <3>1, <4>1, ReconciledType, Zenon
    <3>3. sessions'[s] = [status |-> Dirty(sessions[s].status, rec.loaded[s].status, st),
                          bound |-> Dirty(sessions[s].bound, rec.loaded[s].bound, bd),
                          deleted |-> sessions[s].deleted]
      BY <1>5 DEF ReconcileCommit
    <3> HIDE DEF st, bd
    <3>4. Dirty(sessions[s].status, rec.loaded[s].status, st) \in SessionStatus \cup {"ABSENT"}
      BY <3>1, <3>2 DEF SessionRow, Dirty
    <3>5. Dirty(sessions[s].bound, rec.loaded[s].bound, bd) \in BOOLEAN
      <4>1. sessions[s].bound \in BOOLEAN
        BY <3>1 DEF SessionRow
      <4> QED
        BY <3>2, <4>1, DirtyValue, Zenon
    <3> QED
      BY <3>1, <3>3, <3>4, <3>5 DEF SessionRow
  <2>2. sessions' \in [Sessions -> SessionRow]
    BY <1>5, <2>1 DEF ReconcileCommit
  <2> QED
    BY <1>1, <1>5, <2>2, IdleRecType DEF ReconcileCommit
<1> QED
  BY <1>2, <1>3, <1>4, <1>5 DEF ReconcileStep

LEMMA EnvironmentType ==
    ASSUME TypeOK, TimePasses \/ \E s \in Sessions : HealthCheckPasses(s)
    PROVE  TypeOK'
<1> USE DEF TypeOK, DatabaseTypeOK, ServiceTypeOK, ExecutorTypeOK, ReconcilerTypeOK,
            serviceVars, databaseVars, processVars
<1>1. CASE TimePasses
  BY <1>1 DEF TimePasses, Expire
<1>2. CASE \E s \in Sessions : HealthCheckPasses(s)
  BY <1>2 DEF HealthCheckPasses, BecomeHealthy, ContainerState
<1> QED
  BY <1>1, <1>2

LEMMA FaultType ==
    ASSUME TypeOK, Fault
    PROVE  TypeOK'
<1> USE DEF TypeOK, DatabaseTypeOK, ServiceTypeOK, ExecutorTypeOK, ReconcilerTypeOK,
            serviceVars, databaseVars
<1>1. faults' \in 0..MaxFaults
  BY FaultAssumption DEF Fault
<1>2. ASSUME NEW s \in Sessions, DockerRunFails(s) \/ HealthCleanupFails(s) \/ CreateAborts(s),
             UNCHANGED <<exec, rec, serving>>
      PROVE  TypeOK'
  BY <1>1, <1>2 DEF DockerRunFails, HealthCleanupFails, CreateAborts, CreatePC
<1>3. ASSUME NEW h \in Requests, StopRuntimeFails(h) \/ DeleteRuntimeFails(h) \/ CallAborts(h),
             UNCHANGED <<exec, rec, serving>>
      PROVE  TypeOK'
  <2>1. EmptyCall("done") \in Call
    BY DEF EmptyCall, AbsentRow, Call, CallPC, SessionRow, SessionStatus
  <2>2. [call[h] EXCEPT !.pc = "stop_failed"] \in Call
    BY DEF Call, CallPC
  <2>3. call' \in [Requests -> Call]
    BY <1>3, <2>1, <2>2 DEF StopRuntimeFails, DeleteRuntimeFails, CallAborts, Goto, Finish
  <2> QED
    BY <1>1, <1>3, <2>3 DEF StopRuntimeFails, DeleteRuntimeFails, CallAborts
<1>4. CASE ContainerFault
  BY <1>1, <1>4 DEF ContainerFault, ContainerExits, ContainerState
<1>5. ASSUME NEW r \in Runs, ExecFault(r), UNCHANGED <<containers, serviceVars, rec, serving>>
      PROVE  TypeOK'
  <2>1. exec' \in [Runs -> Exec]
    <3>1. \A pc \in ExecPC : ExecAt(pc) \in Exec
      BY DEF ExecAt, Exec
    <3> QED
      BY <1>5, <3>1 DEF ExecFault, ExecStartFails, ExecStartedFails, ExecRaises, ExecFailRaises, Step, ExecPC
  <2> QED
    BY <1>1, <1>5, <2>1 DEF ExecFault, ExecStartFails, ExecStartedFails, ExecRaises, ExecFailRaises
<1>6. CASE ReconcileFails /\ UNCHANGED <<serviceVars, exec, serving>>
  BY <1>1, <1>6, IdleRecType DEF ReconcileFails
<1>7. ASSUME NEW s \in Sessions, ReconcileDeleteFails(s), UNCHANGED <<serviceVars, exec, serving>>
      PROVE  TypeOK'
  <2>1. rec' \in Rec
    BY <1>7 DEF ReconcileDeleteFails, Rec
  <2> QED
    BY <1>1, <1>7, <2>1 DEF ReconcileDeleteFails
<1>8. CASE Crash
  <2>1. call' \in [Requests -> Call]
    BY <1>8 DEF Crash, EmptyCall, AbsentRow, Call, CallPC, SessionRow, SessionStatus
  <2>2. exec' \in [Runs -> Exec]
    BY <1>8 DEF Crash, ExecAt, Exec, ExecPC
  <2>3. create' \in [Sessions -> CreatePC]
    BY <1>8 DEF Crash, CreatePC
  <2> QED
    BY <1>1, <1>8, <2>1, <2>2, <2>3, IdleRecType DEF Crash
<1>9. CASE SubmitFault
  <2>1. DatabaseTypeOK' /\ ServiceTypeOK' /\ ExecutorTypeOK' /\ ReconcilerTypeOK'
    BY <1>9, RunAcceptedType DEF SubmitFault, RunAccepted
  <2>2. serving' \in BOOLEAN
    BY <1>9 DEF SubmitFault
  <2> QED
    BY <1>1, <2>1, <2>2
<1> QED
  BY <1>2, <1>3, <1>4, <1>5, <1>6, <1>7, <1>8, <1>9
     DEF Fault, ServiceFault, RunFault, ReconcileFault

-----------------------------------------------------------------------------
(* Locks on rows of runs. *)

Committing == {"stop_commit", "delete_commit"}

(* A request that holds no row moves on and still holds none. *)
LEMMA CallMoves ==
    ASSUME TypeOK, LockDiscipline, NEW h \in Requests, call[h].pc \notin Committing,
           NEW c, c.locked = {}, call' = [call EXCEPT ![h] = c],
           UNCHANGED <<runs, runLocks, exec>>
    PROVE  LockDiscipline'
<1>1. call[h].locked = {}
  BY DEF LockDiscipline, Committing
<1>2. \A g \in Requests : call'[g].locked = call[g].locked /\ (g # h => call'[g] = call[g])
  BY <1>1 DEF TypeOK, ServiceTypeOK
<1> QED
  BY <1>2 DEF LockDiscipline

(* An executor moves on between two points at which it holds no row. *)
LEMMA ExecMoves ==
    ASSUME TypeOK, LockDiscipline, NEW r \in Runs, NEW e, e.pc # "start",
           exec' = [exec EXCEPT ![r] = e], UNCHANGED <<runs, runLocks, call>>
    PROVE  LockDiscipline'
BY DEF LockDiscipline, TypeOK, ExecutorTypeOK, ServiceTypeOK, DatabaseTypeOK, Call

(* A request's transaction ends, committed or not, and gives up its rows. *)
LEMMA CallEnds ==
    ASSUME TypeOK, LockDiscipline, NEW h \in Requests, Finish(h),
           runLocks' = runLocks \ call[h].locked, UNCHANGED exec,
           \A r \in Runs \ call[h].locked : runs'[r] = runs[r]
    PROVE  LockDiscipline'
<1>1. call'[h].locked = {} /\ \A g \in Requests : g # h => call'[g] = call[g]
  BY DEF Finish, EmptyCall, TypeOK, ServiceTypeOK
<1>2. \A r \in Runs : exec[r].pc = "start" => r \notin call[h].locked
  BY DEF LockDiscipline
<1>3. \A g \in Requests : g # h => call[g].locked \cap call[h].locked = {}
  BY DEF LockDiscipline
<1>4. \A g \in Requests : call[g].locked \subseteq Runs
  BY DEF TypeOK, ServiceTypeOK, Call
<1>5. \A r \in Runs : exec'[r].pc = "start" => r \in runLocks' /\ runs'[r].status = "PENDING"
  BY <1>2 DEF LockDiscipline
<1>6. ASSUME NEW g \in Requests, NEW r \in call'[g].locked
      PROVE  /\ r \in runLocks'
             /\ runs'[r].status \in ActiveStatus
             /\ exec'[r].pc # "start"
             /\ call'[g].pc \in Committing
  <2>1. g # h /\ r \in call[g].locked /\ r \notin call[h].locked /\ r \in Runs
    BY <1>1, <1>3, <1>4, <1>6
  <2> QED
    BY <1>1, <2>1 DEF LockDiscipline, Committing
<1>7. \A g1, g2 \in Requests : g1 # g2 => call'[g1].locked \cap call'[g2].locked = {}
  BY <1>1 DEF LockDiscipline
<1> QED
  BY <1>5, <1>6, <1>7 DEF LockDiscipline, Committing

LEMMA CallStepLocks ==
    ASSUME TypeOK, LockDiscipline, NEW h \in Requests, CallStep(h)
    PROVE  LockDiscipline'
<1> USE DEF databaseVars, Committing
<1>1. UNCHANGED exec
  BY DEF CallStep
<1>2. call[h] \in Call
  BY DEF TypeOK, ServiceTypeOK
<1>3. call[h].pc \notin Committing => call[h].locked = {}
  BY DEF LockDiscipline
<1>4. CASE StopMark(h)
  <2> DEFINE c == [call[h] EXCEPT !.pc = "stop_runtime", !.loaded.status = "STOPPING"]
  <2>1. c.locked = {}
    BY <1>2, <1>3, <1>4 DEF StopMark, Call
  <2>2. call' = [call EXCEPT ![h] = c] /\ UNCHANGED <<runs, runLocks>>
    BY <1>4 DEF StopMark
  <2> HIDE DEF c
  <2> QED
    BY <1>1, <1>4, <2>1, <2>2, CallMoves DEF StopMark
<1>5. CASE StopRuntime(h) \/ DeleteRuntime(h)
  <2>1. PICK pc \in CallPC : Goto(h, pc)
    BY <1>5 DEF StopRuntime, DeleteRuntime, CallPC
  <2> DEFINE c == [call[h] EXCEPT !.pc = pc]
  <2>2. c.locked = {}
    BY <1>2, <1>3, <1>5 DEF StopRuntime, DeleteRuntime, Call
  <2>3. call' = [call EXCEPT ![h] = c] /\ UNCHANGED <<runs, runLocks>>
    BY <1>5, <2>1 DEF StopRuntime, DeleteRuntime, Goto
  <2> HIDE DEF c
  <2> QED
    BY <1>1, <1>5, <2>2, <2>3, CallMoves DEF StopRuntime, DeleteRuntime
<1>6. CASE StopFailed(h)
  <2>1. EmptyCall("done").locked = {}
    BY DEF EmptyCall
  <2> QED
    BY <1>1, <1>6, <2>1, CallMoves DEF StopFailed, Finish
<1>7. CASE StopCancel(h) \/ DeleteCancel(h)
  <2>1. PICK from \in CallPC \ Committing, to \in Committing : CancelRuns(h, from, to)
    BY <1>7 DEF StopCancel, DeleteCancel, CallPC
  <2> DEFINE sel == CancellableRuns(call[h].session)
  <2>2. /\ sel \cap runLocks = {}
        /\ runLocks' = runLocks \cup sel
        /\ call' = [call EXCEPT ![h] = [@ EXCEPT !.pc = to, !.locked = sel]]
        /\ UNCHANGED runs
    BY <2>1 DEF CancelRuns, Unlocked
  <2>3. \A r \in sel : r \in Runs /\ runs[r].status \in ActiveStatus
    BY DEF CancellableRuns, ActiveRuns
  <2> HIDE DEF sel
  <2>4. /\ call'[h].locked = sel
        /\ call'[h].pc \in Committing
        /\ \A g \in Requests : g # h => call'[g] = call[g]
    BY <1>2, <2>2 DEF TypeOK, ServiceTypeOK, Call
  <2>5. \A r \in sel : exec[r].pc # "start"
    BY <2>2, <2>3 DEF LockDiscipline
  <2>6. \A g \in Requests : call[g].locked \cap sel = {}
    BY <2>2 DEF LockDiscipline
  <2>7. \A r \in Runs : exec'[r].pc = "start" => r \in runLocks' /\ runs'[r].status = "PENDING"
    BY <1>1, <2>2 DEF LockDiscipline
  <2>8. ASSUME NEW g \in Requests, NEW r \in call'[g].locked
        PROVE  /\ r \in runLocks'
               /\ runs'[r].status \in ActiveStatus
               /\ exec'[r].pc # "start"
               /\ call'[g].pc \in Committing
    <3>1. CASE g = h
      BY <1>1, <2>2, <2>3, <2>4, <2>5, <2>8, <3>1
    <3>2. CASE g # h
      BY <1>1, <2>2, <2>4, <2>8, <3>2 DEF LockDiscipline
    <3> QED
      BY <3>1, <3>2
  <2>9. \A g1, g2 \in Requests : g1 # g2 => call'[g1].locked \cap call'[g2].locked = {}
    BY <2>4, <2>6 DEF LockDiscipline
  <2> QED
    BY <2>7, <2>8, <2>9 DEF LockDiscipline
<1>8. CASE StopCommit(h) \/ DeleteCommit(h)
  <2>1. CommitCancelled(h)
    BY <1>8 DEF StopCommit, DeleteCommit
  <2> QED
    BY <1>1, <2>1, CallEnds DEF CommitCancelled
<1> QED
  BY <1>4, <1>5, <1>6, <1>7, <1>8 DEF CallStep

LEMMA ArriveLocks ==
    ASSUME TypeOK, LockDiscipline, Arrive
    PROVE  LockDiscipline'
<1>1. CASE \E s \in Sessions : CreateSession(s)
  BY <1>1 DEF Arrive, CreateSession, LockDiscipline
<1>2. ASSUME NEW h \in Requests, NEW s \in Sessions, StopRead(h, s) \/ DeleteRead(h, s)
      PROVE  LockDiscipline'
  <2>1. PICK pc \in CallPC : call' = [call EXCEPT ![h] = [pc |-> pc, session |-> s,
                                          loaded |-> sessions[s], locked |-> {}]]
    BY <1>2 DEF StopRead, DeleteRead, CallPC
  <2>2. call[h].pc \notin Committing /\ UNCHANGED <<runs, runLocks, exec>>
    BY <1>2 DEF StopRead, DeleteRead, Arrive, databaseVars, Committing
  <2> QED
    BY <2>1, <2>2, CallMoves
<1> QED
  BY <1>1, <1>2 DEF Arrive

LEMMA RunAcceptedLocks ==
    ASSUME TypeOK, RowsExist, LockDiscipline,
           NEW r \in Runs, NEW s \in Sessions, NEW k \in Keys \cup {Null},
           RunAccepted(r, s, k)
    PROVE  LockDiscipline'
<1>1. CreateRun(r, s, k) /\ (Schedule(r) \/ UNCHANGED exec)
  BY DEF RunAccepted
<1>2. runs[r].status = "NONE" /\ UNCHANGED <<runLocks, call>>
  BY <1>1 DEF CreateRun, serviceVars
<1>3. \A h \in Requests : call[h].locked \subseteq Runs \ {r}
  BY <1>2 DEF LockDiscipline, TypeOK, ServiceTypeOK, Call, ActiveStatus
<1>4. \A x \in Runs : x # r => runs'[x] = runs[x] /\ exec'[x] = exec[x]
  BY <1>1 DEF CreateRun, Schedule, Step, TypeOK, DatabaseTypeOK, ExecutorTypeOK
<1>5. exec'[r].pc # "start"
  BY <1>1, <1>2 DEF Schedule, Step, ExecAt, TypeOK, ExecutorTypeOK, RowsExist
<1>6. \A x \in Runs : exec'[x].pc = "start" => x \in runLocks' /\ runs'[x].status = "PENDING"
  BY <1>2, <1>4, <1>5 DEF LockDiscipline
<1>7. ASSUME NEW h \in Requests, NEW x \in call'[h].locked
      PROVE  /\ x \in runLocks'
             /\ runs'[x].status \in ActiveStatus
             /\ exec'[x].pc # "start"
             /\ call'[h].pc \in Committing
  BY <1>2, <1>3, <1>4, <1>7 DEF LockDiscipline, Committing
<1> QED
  BY <1>2, <1>6, <1>7 DEF LockDiscipline, Committing

(* The executor's own commit, of a row that nobody else has locked. *)
LEMMA ExecCommits ==
    ASSUME TypeOK, LockDiscipline, NEW r \in Runs, Unlocked({r}), NEW v,
           NEW from, NEW to, to # "start", Step(r, from, to),
           runs' = [runs EXCEPT ![r].status = v], UNCHANGED <<runLocks, call>>
    PROVE  LockDiscipline'
<1>1. r \notin runLocks
  BY DEF Unlocked
<1>2. \A h \in Requests : call[h].locked \subseteq Runs \ {r}
  BY <1>1 DEF LockDiscipline, TypeOK, ServiceTypeOK, Call
<1>3. \A x \in Runs : x # r => runs'[x] = runs[x] /\ exec'[x] = exec[x]
  BY DEF Step, TypeOK, DatabaseTypeOK, ExecutorTypeOK
<1>4. exec'[r].pc # "start"
  BY DEF Step, ExecAt, TypeOK, ExecutorTypeOK
<1>5. \A x \in Runs : exec'[x].pc = "start" => x \in runLocks' /\ runs'[x].status = "PENDING"
  BY <1>3, <1>4 DEF LockDiscipline
<1>6. ASSUME NEW h \in Requests, NEW x \in call'[h].locked
      PROVE  /\ x \in runLocks'
             /\ runs'[x].status \in ActiveStatus
             /\ exec'[x].pc # "start"
             /\ call'[h].pc \in Committing
  BY <1>2, <1>3, <1>6 DEF LockDiscipline, Committing
<1> QED
  BY <1>5, <1>6 DEF LockDiscipline, Committing

(* The executor gives up the lock it took with SELECT FOR UPDATE. *)
LEMMA ExecUnlocks ==
    ASSUME TypeOK, LockDiscipline, NEW r \in Runs, NEW to, to # "start", Step(r, "start", to),
           \A x \in Runs : x # r => runs'[x] = runs[x],
           runLocks' = runLocks \ {r}, UNCHANGED call
    PROVE  LockDiscipline'
<1>1. \A h \in Requests : call[h].locked \subseteq Runs \ {r}
  BY DEF LockDiscipline, TypeOK, ServiceTypeOK, Call, Step
<1>2. \A x \in Runs : x # r => exec'[x] = exec[x]
  BY DEF Step, TypeOK, ExecutorTypeOK
<1>3. exec'[r].pc # "start"
  BY DEF Step, ExecAt, TypeOK, ExecutorTypeOK
<1>4. \A x \in Runs : exec'[x].pc = "start" => x \in runLocks' /\ runs'[x].status = "PENDING"
  BY <1>2, <1>3 DEF LockDiscipline
<1>5. ASSUME NEW h \in Requests, NEW x \in call'[h].locked
      PROVE  /\ x \in runLocks'
             /\ runs'[x].status \in ActiveStatus
             /\ exec'[x].pc # "start"
             /\ call'[h].pc \in Committing
  BY <1>1, <1>2, <1>5 DEF LockDiscipline, Committing
<1> QED
  BY <1>4, <1>5 DEF LockDiscipline, Committing

LEMMA RunStepLocks ==
    ASSUME TypeOK, LockDiscipline, NEW r \in Runs, RunStep(r)
    PROVE  LockDiscipline'
<1> USE DEF databaseVars
<1>1. UNCHANGED call
  BY DEF RunStep, serviceVars
<1>2. \A pc : ExecAt(pc).pc = pc
  BY DEF ExecAt
<1>3. exec[r] \in Exec
  BY DEF TypeOK, ExecutorTypeOK
<1>4. CASE ExecLoad(r) /\ Skip(r)
  BY <1>1, <1>2, <1>4, ExecMoves DEF ExecLoad
<1>5. CASE ExecLoad(r) /\ ~Skip(r)
  <2>1. /\ r \notin runLocks
        /\ runLocks' = runLocks \cup {r}
        /\ runs[r].status = "PENDING"
        /\ UNCHANGED runs
    BY <1>5 DEF ExecLoad, Skip, Unlocked
  <2>2. \A x \in Runs : x # r => exec'[x] = exec[x]
    BY <1>5 DEF ExecLoad, TypeOK, ExecutorTypeOK
  <2>3. \A h \in Requests : call[h].locked \subseteq Runs \ {r}
    BY <2>1 DEF LockDiscipline, TypeOK, ServiceTypeOK, Call
  <2>4. \A x \in Runs : exec'[x].pc = "start" => x \in runLocks' /\ runs'[x].status = "PENDING"
    BY <2>1, <2>2 DEF LockDiscipline
  <2>5. ASSUME NEW h \in Requests, NEW x \in call'[h].locked
        PROVE  /\ x \in runLocks'
               /\ runs'[x].status \in ActiveStatus
               /\ exec'[x].pc # "start"
               /\ call'[h].pc \in Committing
    BY <1>1, <2>1, <2>2, <2>3, <2>5 DEF LockDiscipline, Committing
  <2> QED
    BY <1>1, <2>4, <2>5 DEF LockDiscipline, Committing
<1>6. CASE ExecStart(r)
  <2>1. \A x \in Runs : x # r => runs'[x] = runs[x]
    BY <1>6 DEF ExecStart, TypeOK, DatabaseTypeOK
  <2> QED
    BY <1>1, <1>6, <2>1, ExecUnlocks DEF ExecStart
<1>7. CASE AgentReturns(r) \/ AgentRaises(r) \/ RefreshRun(r) \/ SequenceConflict(r)
           \/ Announce(r) \/ Rollback(r)
  <2>1. PICK from, to \in ExecPC \ {"start"} : Step(r, from, to)
    BY <1>7 DEF AgentReturns, AgentRaises, RefreshRun, SequenceConflict, Announce,
                Rollback, ExecPC
  <2>2. UNCHANGED databaseVars
    BY <1>7 DEF AgentReturns, AgentRaises, RefreshRun, SequenceConflict, Announce, Rollback
  <2> QED
    BY <1>1, <1>2, <2>1, <2>2, ExecMoves DEF Step
<1>8. CASE RefreshSession(r) \/ ReadSequence(r) \/ ReloadSession(r)
  <2>1. PICK e : exec' = [exec EXCEPT ![r] = e] /\ e.pc # "start"
    <3> DEFINE moved(pc, x) == [exec[r] EXCEPT !.pc = pc, !.loaded = x]
               read(x) == [exec[r] EXCEPT !.pc = "commit", !.seq = x]
               loaded == sessions[runs[r].session].status
    <3>1. \A pc, x : moved(pc, x).pc = pc
      BY <1>3 DEF Exec
    <3>2. \A x : read(x).pc # "start"
      BY <1>3 DEF Exec
    <3>3. CASE RefreshSession(r)
      <4>1. exec' = [exec EXCEPT ![r] = moved("sequence", loaded)]
        BY <3>3 DEF RefreshSession
      <4> HIDE DEF moved, loaded
      <4>2. moved("sequence", loaded).pc # "start"
        BY <3>1
      <4> QED
        BY <4>1, <4>2
    <3>4. CASE ReadSequence(r)
      <4>1. exec' = [exec EXCEPT ![r] = read(NextMessageSequence(runs[r].session))]
        BY <3>4 DEF ReadSequence
      <4> HIDE DEF read
      <4> QED
        BY <3>2, <4>1
    <3>5. CASE ReloadSession(r)
      <4>1. exec' = [exec EXCEPT ![r] = moved("fail", loaded)]
        BY <3>5 DEF ReloadSession
      <4> HIDE DEF moved, loaded
      <4>2. moved("fail", loaded).pc # "start"
        BY <3>1
      <4> QED
        BY <4>1, <4>2
    <3> QED
      BY <1>8, <3>3, <3>4, <3>5
  <2> QED
    BY <1>1, <1>8, <2>1, ExecMoves DEF RefreshSession, ReadSequence, ReloadSession
<1>9. CASE ExecComplete(r)
  BY <1>1, <1>9, ExecCommits DEF ExecComplete
<1>10. CASE ExecFail(r)
  BY <1>1, <1>10, ExecCommits DEF ExecFail
<1> QED
  BY <1>4, <1>5, <1>6, <1>7, <1>8, <1>9, <1>10 DEF RunStep, ExecStep

LEMMA FaultLocks ==
    ASSUME TypeOK, RowsExist, LockDiscipline, Fault
    PROVE  LockDiscipline'
<1> USE DEF databaseVars, serviceVars
<1>1. CASE ServiceFault
  <2>1. UNCHANGED exec
    BY <1>1 DEF ServiceFault
  <2>2. CASE \E s \in Sessions : DockerRunFails(s) \/ HealthCleanupFails(s) \/ CreateAborts(s)
    BY <2>1, <2>2 DEF DockerRunFails, HealthCleanupFails, CreateAborts, LockDiscipline
  <2>3. ASSUME NEW h \in Requests, StopRuntimeFails(h) PROVE LockDiscipline'
    <3> DEFINE c == [call[h] EXCEPT !.pc = "stop_failed"]
    <3>1. call[h].pc \notin Committing
      BY <2>3 DEF StopRuntimeFails, Committing
    <3>2. c.locked = {}
      BY <3>1 DEF LockDiscipline, Committing, TypeOK, ServiceTypeOK, Call
    <3>3. call' = [call EXCEPT ![h] = c] /\ UNCHANGED <<runs, runLocks>>
      BY <2>3 DEF StopRuntimeFails, Goto
    <3> HIDE DEF c
    <3> QED
      BY <2>1, <3>1, <3>2, <3>3, CallMoves
  <2>4. ASSUME NEW h \in Requests, DeleteRuntimeFails(h) PROVE LockDiscipline'
    <3>1. EmptyCall("done").locked = {} /\ call[h].pc \notin Committing
      BY <2>4 DEF EmptyCall, DeleteRuntimeFails, Committing
    <3> QED
      BY <2>1, <2>4, <3>1, CallMoves DEF DeleteRuntimeFails, Finish
  <2>5. ASSUME NEW h \in Requests, CallAborts(h) PROVE LockDiscipline'
    BY <2>1, <2>5, CallEnds DEF CallAborts
  <2> QED
    BY <1>1, <2>2, <2>3, <2>4, <2>5 DEF ServiceFault
<1>2. CASE ContainerFault \/ ReconcileFault
  BY <1>2 DEF ContainerFault, ContainerExits, ReconcileFault, ReconcileFails,
              ReconcileDeleteFails, LockDiscipline
<1>3. ASSUME NEW r \in Runs, ExecFault(r), UNCHANGED <<containers, serviceVars, rec, serving>>
      PROVE  LockDiscipline'
  <2>1. CASE ExecStartFails(r)
    BY <1>3, <2>1, ExecUnlocks DEF ExecStartFails
  <2>2. CASE ExecStartedFails(r) \/ ExecRaises(r) \/ ExecFailRaises(r)
    <3>1. \A pc : ExecAt(pc).pc = pc
      BY DEF ExecAt
    <3> QED
      BY <1>3, <2>2, <3>1, ExecMoves DEF ExecStartedFails, ExecRaises, ExecFailRaises, Step
  <2> QED
    BY <1>3, <2>1, <2>2 DEF ExecFault
<1>4. CASE Crash
  <2>1. \A r \in Runs : exec'[r].pc # "start"
    BY <1>4 DEF Crash, ExecAt
  <2>2. \A h \in Requests : call'[h].locked = {}
    BY <1>4 DEF Crash, EmptyCall
  <2> QED
    BY <2>1, <2>2 DEF LockDiscipline
<1>5. CASE SubmitFault
  BY <1>5, RunAcceptedLocks DEF SubmitFault, RunAccepted
<1> QED
  BY <1>1, <1>2, <1>3, <1>4, <1>5 DEF Fault, RunFault

-----------------------------------------------------------------------------
(* What any step but create_run's does to the runs: it inserts none,       *)
(* moves none to another session, and makes no ended run active again.     *)
RunsKept ==
    \A r \in Runs :
        /\ exec'[r].pc # "none" => exec[r].pc # "none"
        /\ runs'[r].session = runs[r].session /\ runs'[r].key = runs[r].key
        /\ runs'[r].status = "NONE" <=> runs[r].status = "NONE"
        /\ runs'[r].status \in ActiveStatus => runs[r].status \in ActiveStatus

LEMMA RunsKeptPreserves ==
    ASSUME RowsExist, OneActiveRun, IdempotentRuns, RunsKept
    PROVE  RowsExist' /\ OneActiveRun' /\ IdempotentRuns'
<1>1. RowsExist'
  BY DEF RowsExist, RunsKept
<1>2. \A s \in Sessions : ActiveRuns(s)' \subseteq ActiveRuns(s)
  BY DEF RunsKept, ActiveRuns
<1>3. IdempotentRuns'
  BY DEF IdempotentRuns, RunsKept, RunsWithKey
<1> QED
  BY <1>1, <1>2, <1>3 DEF OneActiveRun

LEMMA RunAcceptedOneActive ==
    ASSUME TypeOK, RowsExist, OneActiveRun, IdempotentRuns,
           NEW r \in Runs, NEW s \in Sessions, NEW k \in Keys \cup {Null},
           RunAccepted(r, s, k)
    PROVE  RowsExist' /\ OneActiveRun' /\ IdempotentRuns'
<1>1. CreateRun(r, s, k) /\ (Schedule(r) \/ UNCHANGED exec)
  BY DEF RunAccepted
<1>2. \A x \in Runs : x # r => runs'[x] = runs[x] /\ exec'[x] = exec[x]
  BY <1>1 DEF CreateRun, Schedule, Step, TypeOK, DatabaseTypeOK, ExecutorTypeOK
<1>3. runs'[r].session = s /\ runs'[r].status = "PENDING"
  BY <1>1 DEF CreateRun, TypeOK, DatabaseTypeOK
<1>4. RowsExist'
  BY <1>2, <1>3 DEF RowsExist
<1>5. ActiveRuns(s) = {}
  BY <1>1 DEF CreateRun, ActiveIndexFree
<1>6. ActiveRuns(s)' \subseteq {r}
  BY <1>2, <1>5 DEF ActiveRuns
<1>7. \A x \in Sessions : x # s => ActiveRuns(x)' \subseteq ActiveRuns(x)
  BY <1>2, <1>3 DEF ActiveRuns
<1>8. IdempotentRuns'
  <2> SUFFICES ASSUME NEW x \in Sessions, NEW y \in Keys,
                      NEW r1 \in RunsWithKey(x, y)', NEW r2 \in RunsWithKey(x, y)'
               PROVE  r1 = r2
    BY DEF IdempotentRuns
  <2>1. \A q \in RunsWithKey(x, y)' : q # r => q \in RunsWithKey(x, y)
    BY <1>2 DEF RunsWithKey
  <2>2. r \in RunsWithKey(x, y)' => x = s /\ y = k
    BY <1>1, <1>3 DEF CreateRun, RunsWithKey, TypeOK, DatabaseTypeOK
  <2>3. y # Null => (x = s /\ y = k => RunsWithKey(x, y) = {})
    BY <1>1 DEF CreateRun, NoSuchRun
  <2> QED
    BY <2>1, <2>2, <2>3, NullAssumption DEF IdempotentRuns
<1> QED
  BY <1>4, <1>6, <1>7, <1>8 DEF OneActiveRun

(* A step that touches neither runs nor executors. *)
LEMMA NoRunTouched ==
    ASSUME UNCHANGED <<runs, exec>>
    PROVE  RunsKept
BY DEF RunsKept

LEMMA CancelKeepsRuns ==
    ASSUME TypeOK, LockDiscipline, NEW h \in Requests, CommitCancelled(h), UNCHANGED exec
    PROVE  RunsKept
<1>1. \A r \in call[h].locked : runs[r].status \in ActiveStatus
  BY DEF LockDiscipline
<1>2. \A r \in Runs : r \in call[h].locked =>
         /\ runs'[r].session = runs[r].session /\ runs'[r].key = runs[r].key
         /\ runs'[r].status = "CANCELLED"
  BY DEF CommitCancelled, TypeOK, DatabaseTypeOK, RunRow
<1>3. \A r \in Runs : r \notin call[h].locked => runs'[r] = runs[r]
  BY DEF CommitCancelled
<1> QED
  BY <1>1, <1>2, <1>3 DEF RunsKept, ActiveStatus

LEMMA CallStepKeepsRuns ==
    ASSUME TypeOK, LockDiscipline, NEW h \in Requests, CallStep(h)
    PROVE  RunsKept
<1>1. UNCHANGED exec
  BY DEF CallStep
<1>2. CASE StopCommit(h) \/ DeleteCommit(h)
  BY <1>1, <1>2, CancelKeepsRuns DEF StopCommit, DeleteCommit
<1>3. CASE StopCancel(h) \/ DeleteCancel(h)
  BY <1>1, <1>3, NoRunTouched DEF StopCancel, DeleteCancel, CancelRuns
<1>4. CASE StopMark(h) \/ StopRuntime(h) \/ StopFailed(h) \/ DeleteRuntime(h)
  BY <1>1, <1>4, NoRunTouched DEF StopMark, StopRuntime, StopFailed, DeleteRuntime, databaseVars
<1> QED
  BY <1>2, <1>3, <1>4 DEF CallStep

LEMMA ExecKeepsRuns ==
    ASSUME TypeOK, RowsExist, LockDiscipline, NEW r \in Runs, ExecStep(r) \/ ExecFault(r)
    PROVE  RunsKept
<1> USE DEF databaseVars
<1>1. exec[r].pc # "none"
  BY DEF ExecStep, ExecFault, ExecLoad, ExecStart, AgentReturns, AgentRaises, RefreshRun,
         RefreshSession, ReadSequence, ExecComplete, SequenceConflict, Announce, Rollback,
         ReloadSession, ExecFail, ExecStartFails, ExecStartedFails, ExecRaises, ExecFailRaises, Step
<1>2. \A x \in Runs : x # r => exec'[x] = exec[x]
  BY DEF ExecStep, ExecFault, ExecLoad, ExecStart, AgentReturns, AgentRaises, RefreshRun,
         RefreshSession, ReadSequence, ExecComplete, SequenceConflict, Announce, Rollback,
         ReloadSession, ExecFail, ExecStartFails, ExecStartedFails, ExecRaises, ExecFailRaises, Step,
         TypeOK, ExecutorTypeOK
<1>3. runs[r].status # "NONE"
  BY <1>1 DEF RowsExist
<1>4. CASE ExecStart(r) \/ ExecComplete(r) \/ ExecFail(r)
  <2>1. PICK v \in {"RUNNING", "COMPLETED", "FAILED"} :
           /\ runs' = [runs EXCEPT ![r].status = v]
           /\ v = "RUNNING" => exec[r].pc = "start"
    BY <1>4 DEF ExecStart, ExecComplete, ExecFail, Step
  <2>2. \A x \in Runs : x # r => runs'[x] = runs[x]
    BY <2>1 DEF TypeOK, DatabaseTypeOK
  <2>3. /\ runs'[r].session = runs[r].session /\ runs'[r].key = runs[r].key
        /\ runs'[r].status = v
    BY <2>1 DEF TypeOK, DatabaseTypeOK, RunRow
  <2>4. v \in ActiveStatus => runs[r].status \in ActiveStatus
    BY <2>1 DEF LockDiscipline, ActiveStatus
  <2> QED
    BY <1>1, <1>2, <1>3, <2>1, <2>2, <2>3, <2>4 DEF RunsKept
<1>5. CASE UNCHANGED runs
  BY <1>1, <1>2, <1>5 DEF RunsKept
<1> QED
  BY <1>4, <1>5
     DEF ExecStep, ExecFault, ExecLoad, AgentReturns, AgentRaises, RefreshRun,
         RefreshSession, ReadSequence, SequenceConflict, Announce, Rollback,
         ReloadSession, ExecStartFails, ExecStartedFails, ExecRaises, ExecFailRaises

LEMMA FaultKeepsRuns ==
    ASSUME TypeOK, RowsExist, LockDiscipline, Fault, ~SubmitFault
    PROVE  RunsKept
<1> USE DEF databaseVars, serviceVars
<1>1. CASE ServiceFault \/ ContainerFault \/ ReconcileFault
  <2>1. UNCHANGED <<runs, exec>>
    BY <1>1 DEF ServiceFault, ContainerFault, ReconcileFault, DockerRunFails,
                HealthCleanupFails, CreateAborts, StopRuntimeFails, DeleteRuntimeFails, CallAborts,
                ContainerExits, ReconcileFails, ReconcileDeleteFails
  <2> QED
    BY <2>1, NoRunTouched
<1>2. CASE RunFault
  BY <1>2, ExecKeepsRuns DEF RunFault
<1>3. CASE Crash
  <2>1. \A r \in Runs : exec'[r].pc # "none" => exec[r].pc # "none"
    BY <1>3 DEF Crash
  <2> QED
    BY <1>3, <2>1 DEF Crash, RunsKept
<1> QED
  BY <1>1, <1>2, <1>3 DEF Fault

-----------------------------------------------------------------------------
(* The inductive invariant: a row lock is what keeps a cancelled run from  *)
(* being started, so OneActiveRun is inductive only with LockDiscipline.   *)
RunInvariant == TypeOK /\ RowsExist /\ LockDiscipline /\ OneActiveRun /\ IdempotentRuns

LEMMA RunInvariantInit == Init => RunInvariant
<1> SUFFICES ASSUME Init PROVE RunInvariant
  OBVIOUS
<1> USE DEF Init, DatabaseInit, ContainersInit, ServiceInit, ExecutorInit, ReconcilerInit
<1>1. DatabaseTypeOK
  <2>1. <<>> \in Seq(Message)
    OBVIOUS
  <2>2. messages \in [Sessions -> Seq(Message)]
    BY <2>1
  <2>3. sessions \in [Sessions -> SessionRow]
    BY DEF AbsentRow, SessionRow, SessionStatus
  <2>4. runs \in [Runs -> RunRow]
    BY DEF RunRow, RunStatus
  <2> QED
    BY <2>2, <2>3, <2>4 DEF DatabaseTypeOK
<1>2. ServiceTypeOK
  BY DEF ServiceTypeOK, ContainerState, CreatePC, Call, CallPC, EmptyCall, AbsentRow,
         SessionRow, SessionStatus
<1>3. ExecutorTypeOK
  BY DEF ExecutorTypeOK, ExecAt, Exec, ExecPC
<1>4. TypeOK
  <2>1. ReconcilerTypeOK
    BY IdleRecType DEF ReconcilerTypeOK
  <2>2. faults \in 0..MaxFaults
    BY FaultAssumption
  <2>3. serving \in BOOLEAN
    OBVIOUS
  <2> HIDE DEF Init, DatabaseInit, ContainersInit, ServiceInit, ExecutorInit, ReconcilerInit
  <2> QED
    BY <1>1, <1>2, <1>3, <2>1, <2>2, <2>3 DEF TypeOK
<1>5. RowsExist /\ LockDiscipline
  BY DEF RowsExist, LockDiscipline, ExecAt, EmptyCall
<1>6. OneActiveRun /\ IdempotentRuns
  BY DEF OneActiveRun, IdempotentRuns, RunsWithKey, ActiveRuns, ActiveStatus
<1> QED
  BY <1>4, <1>5, <1>6 DEF RunInvariant

LEMMA RunInvariantNext == RunInvariant /\ [Next]_vars => RunInvariant'
<1> SUFFICES ASSUME RunInvariant, [Next]_vars PROVE RunInvariant'
  OBVIOUS
<1> USE DEF RunInvariant
<1>1. CASE Arrive
  <2>1. UNCHANGED <<runs, exec>>
    BY <1>1 DEF Arrive, CreateSession, StopRead, DeleteRead, databaseVars
  <2> QED
    BY <1>1, <2>1, ArriveType, ArriveLocks, NoRunTouched, RunsKeptPreserves
<1>2. CASE SubmitRun
  <2>1. PICK r \in Runs, s \in Sessions, k \in Keys \cup {Null} : RunAccepted(r, s, k)
    BY <1>2 DEF SubmitRun, RunAccepted
  <2> QED
    BY <1>2, <2>1, SubmitRunType, RunAcceptedLocks, RunAcceptedOneActive
<1>3. ASSUME NEW s \in Sessions, CreateStep(s) PROVE RunInvariant'
  <2>1. UNCHANGED <<runs, runLocks, exec, call>>
    BY <1>3 DEF CreateStep, DockerCreate, DockerStart, DockerStartNotFound, AwaitHealthy,
                HealthFails, BindRuntime, CreateFailed, databaseVars
  <2>2. LockDiscipline'
    BY <2>1 DEF LockDiscipline
  <2> QED
    BY <1>3, <2>1, <2>2, CreateStepType, NoRunTouched, RunsKeptPreserves
<1>4. ASSUME NEW h \in Requests, CallStep(h) PROVE RunInvariant'
  BY <1>4, CallStepType, CallStepLocks, CallStepKeepsRuns, RunsKeptPreserves
<1>5. ASSUME NEW r \in Runs, RunStep(r) PROVE RunInvariant'
  BY <1>5, RunStepType, RunStepLocks, ExecKeepsRuns, RunsKeptPreserves DEF RunStep
<1>6. CASE ReconcileStep
  <2>1. UNCHANGED <<runs, runLocks, exec, call>>
    BY <1>6 DEF ReconcileStep, ReconcileList, ReconcileLoad, ReconcileDelete,
                ReconcileCommit, databaseVars, serviceVars
  <2>2. LockDiscipline'
    BY <2>1 DEF LockDiscipline
  <2> QED
    BY <1>6, <2>1, <2>2, ReconcileStepType, NoRunTouched, RunsKeptPreserves
<1>7. CASE TimePasses \/ \E s \in Sessions : HealthCheckPasses(s)
  <2>1. UNCHANGED <<runs, runLocks, exec, call>>
    BY <1>7 DEF TimePasses, Expire, HealthCheckPasses, BecomeHealthy, databaseVars, serviceVars
  <2>2. LockDiscipline'
    BY <2>1 DEF LockDiscipline
  <2> QED
    BY <1>7, <2>1, <2>2, EnvironmentType, NoRunTouched, RunsKeptPreserves
<1>8. CASE Fault
  <2>1. CASE SubmitFault
    <3>1. PICK r \in Runs, s \in Sessions, k \in Keys \cup {Null} : RunAccepted(r, s, k)
      BY <2>1 DEF SubmitFault, RunAccepted
    <3> QED
      BY <1>8, <3>1, FaultType, FaultLocks, RunAcceptedOneActive
  <2>2. CASE ~SubmitFault
    BY <1>8, <2>2, FaultType, FaultLocks, FaultKeepsRuns, RunsKeptPreserves
  <2> QED
    BY <2>1, <2>2
<1>9. CASE UNCHANGED vars
  <2>1. UNCHANGED <<sessions, expired, runs, messages, runLocks, containers, create, call,
                    exec, rec, serving, faults>>
    BY <1>9 DEF vars, databaseVars, serviceVars, processVars
  <2>2. TypeOK'
    BY <2>1 DEF TypeOK, DatabaseTypeOK, ServiceTypeOK, ExecutorTypeOK, ReconcilerTypeOK
  <2>3. LockDiscipline'
    BY <2>1 DEF LockDiscipline
  <2> QED
    BY <2>1, <2>2, <2>3, NoRunTouched, RunsKeptPreserves
<1> QED
  BY <1>1, <1>2, <1>3, <1>4, <1>5, <1>6, <1>7, <1>8, <1>9 DEF Next

LEMMA RunInvariantHolds == Spec => []RunInvariant
BY RunInvariantInit, RunInvariantNext, PTL DEF Spec

(* Every reachable state is well typed, for any sessions, runs, requests   *)
(* and number of failures: no handler, executor or reconciler pass writes  *)
(* a row that is not one of the schema's.                                  *)
THEOREM TypeCorrect == Spec => []TypeOK
BY RunInvariantHolds, PTL DEF RunInvariant

(* A run row is locked by at most one transaction, and a run is never      *)
(* started after it was cancelled (sessions.py, stop_session and           *)
(* delete_session, against run_executor.py, execute).                      *)
THEOREM LocksDisciplined == Spec => []LockDiscipline
BY RunInvariantHolds, PTL DEF RunInvariant

(* No session ever has two active runs, whatever the handlers, executors,  *)
(* reconciler and failures do to the status that create_run tests.         *)
THEOREM AtMostOneActiveRun == Spec => []OneActiveRun
BY RunInvariantHolds, PTL DEF RunInvariant

(* A key names at most one run of its session, for ever: a retry can find  *)
(* no second run, and none is inserted for a key that was used before,     *)
(* whatever became of the first run (sessions.py, create_run).             *)
THEOREM KeysIdempotent == Spec => []IdempotentRuns
BY RunInvariantHolds, PTL DEF RunInvariant

-----------------------------------------------------------------------------
(***************************************************************************)
(* ReconcilerSparesLive.  It holds because create_session commits its row  *)
(* before it asks for a container, and the pass lists the containers       *)
(* before it loads the rows: every container in the list has a row in the  *)
(* rows.  RuntimesHaveRows says so, and RowsStay that no row, deletion     *)
(* mark or expiry is ever taken back.                                      *)
(***************************************************************************)
Inserted(s) == sessions[s].status # "ABSENT"

(* A session with a creation under way, a container or an entry in the     *)
(* reconciler's list has its row.                                          *)
RuntimesHaveRows ==
    \A s \in Sessions :
        create[s] # "idle" \/ containers[s] # "absent" \/ rec.listed[s] # "none"
            => Inserted(s)

RowsStay ==
    \A s \in Sessions :
        /\ Inserted(s) => Inserted(s)'
        /\ sessions[s].deleted => sessions'[s].deleted
        /\ expired[s] => expired'[s]

LEMMA WriteKeepsRows ==
    ASSUME TypeOK, NEW s, NEW loaded, NEW new \in SessionStatus,
           WriteStatus(s, loaded, new), UNCHANGED expired
    PROVE  RowsStay
BY DEF TypeOK, DatabaseTypeOK, SessionRow, WriteStatus, Dirty, RowsStay, Inserted, SessionStatus

LEMMA NoRowTouched ==
    ASSUME UNCHANGED <<sessions, expired>>
    PROVE  RowsStay
BY DEF RowsStay, Inserted

LEMMA CallStepKeepsRows ==
    ASSUME TypeOK, NEW h \in Requests, CallStep(h)
    PROVE  RowsStay
<1>1. CASE StopMark(h) \/ StopFailed(h) \/ StopCommit(h)
  BY <1>1, WriteKeepsRows DEF StopMark, StopFailed, StopCommit, SessionStatus
<1>2. CASE DeleteCommit(h)
  BY <1>2 DEF DeleteCommit, TypeOK, DatabaseTypeOK, SessionRow, Dirty, RowsStay, Inserted
<1>3. CASE StopRuntime(h) \/ StopCancel(h) \/ DeleteRuntime(h) \/ DeleteCancel(h)
  BY <1>3, NoRowTouched
     DEF StopRuntime, StopCancel, DeleteRuntime, DeleteCancel, CancelRuns, databaseVars
<1> QED
  BY <1>1, <1>2, <1>3 DEF CallStep

LEMMA RunStepKeepsRows ==
    ASSUME TypeOK, NEW r \in Runs, RunStep(r)
    PROVE  RowsStay
<1>1. CASE ExecStart(r) \/ ExecComplete(r) \/ ExecFail(r)
  BY <1>1, WriteKeepsRows DEF ExecStart, ExecComplete, ExecFail, SessionStatus
<1>2. CASE UNCHANGED <<sessions, expired>>
  BY <1>2, NoRowTouched
<1> QED
  BY <1>1, <1>2
     DEF RunStep, ExecStep, ExecLoad, AgentReturns, AgentRaises, RefreshRun,
         RefreshSession, ReadSequence, SequenceConflict, Announce, Rollback,
         ReloadSession, databaseVars

(* A reconciled row is ABSENT only where the loaded one was. *)
LEMMA ReconciledKeepsRow ==
    ASSUME NEW row, NEW info \in {"none", "running", "stopped"}, NEW late \in BOOLEAN
    PROVE  ReconciledStatus(row, info, late) = "ABSENT" => row.status = "ABSENT"
BY DEF ReconciledStatus, StatusFor, Examined, Orphan, ActiveSessionStatuses

LEMMA ReconcileCommitKeepsRows ==
    ASSUME TypeOK, ReconcileCommit
    PROVE  RowsStay
<1> SUFFICES ASSUME NEW s \in Sessions
             PROVE  /\ Inserted(s) => Inserted(s)'
                    /\ sessions[s].deleted => sessions'[s].deleted
  BY DEF ReconcileCommit, RowsStay
<1> DEFINE st == ReconciledStatus(rec.loaded[s], rec.listed[s], s \in rec.now)
<1>1. rec.listed[s] \in {"none", "running", "stopped"}
  BY DEF TypeOK, ReconcilerTypeOK, Rec, Listing
<1>2. st = "ABSENT" => rec.loaded[s].status = "ABSENT"
  <2>1. (s \in rec.now) \in BOOLEAN
    OBVIOUS
  <2> QED
    BY <1>1, <2>1, ReconciledKeepsRow, Zenon
<1>3. /\ sessions'[s].status = Dirty(sessions[s].status, rec.loaded[s].status, st)
      /\ sessions'[s].deleted = sessions[s].deleted
  BY DEF ReconcileCommit
<1> HIDE DEF st
<1> QED
  BY <1>2, <1>3 DEF Inserted, Dirty

-----------------------------------------------------------------------------
ReconcilerInvariant == RuntimesHaveRows /\ ReconcilerSparesLive

(* Steps after which a session has a creation, a container or a listing    *)
(* only if it had one of them, or has its row now, and that doom nothing.  *)
LEMMA InvariantKept ==
    ASSUME ReconcilerInvariant, RowsStay, rec'.todo \subseteq rec.todo,
           rec.todo \subseteq Sessions,
           \A s \in Sessions :
              create'[s] # "idle" \/ containers'[s] # "absent" \/ rec'.listed[s] # "none"
                 => \/ create[s] # "idle" \/ containers[s] # "absent"
                    \/ rec.listed[s] # "none" \/ Inserted(s)'
    PROVE  ReconcilerInvariant'
BY DEF ReconcilerInvariant, RuntimesHaveRows, ReconcilerSparesLive, RowsStay

LEMMA CreateStepSpares ==
    ASSUME TypeOK, ReconcilerInvariant, NEW s \in Sessions, CreateStep(s)
    PROVE  ReconcilerInvariant'
<1>1. RowsStay
  <2>1. CASE BindRuntime(s)
    BY <2>1 DEF BindRuntime, TypeOK, DatabaseTypeOK, SessionRow, Dirty, RowsStay, Inserted
  <2>2. CASE CreateFailed(s)
    BY <2>2, WriteKeepsRows DEF CreateFailed, SessionStatus
  <2>3. CASE UNCHANGED <<sessions, expired>>
    BY <2>3, NoRowTouched
  <2> QED
    BY <2>1, <2>2, <2>3 DEF CreateStep, DockerCreate, DockerStart, DockerStartNotFound,
                            AwaitHealthy, HealthFails, databaseVars
<1>2. create[s] # "idle"
  BY DEF CreateStep, DockerCreate, DockerStart, DockerStartNotFound, AwaitHealthy,
         HealthFails, BindRuntime, CreateFailed
<1>3. \A x \in Sessions : x # s => create'[x] = create[x] /\ containers'[x] = containers[x]
  BY DEF CreateStep, DockerCreate, DockerStart, DockerStartNotFound, AwaitHealthy,
         HealthFails, BindRuntime, CreateFailed, RemoveContainer, TypeOK, ServiceTypeOK
<1>4. UNCHANGED rec /\ rec.todo \subseteq Sessions
  BY DEF CreateStep, TypeOK, ReconcilerTypeOK, Rec
<1> QED
  BY <1>1, <1>2, <1>3, <1>4, InvariantKept

LEMMA CallStepSpares ==
    ASSUME TypeOK, ReconcilerInvariant, NEW h \in Requests, CallStep(h)
    PROVE  ReconcilerInvariant'
<1>1. UNCHANGED <<create, rec>> /\ rec.todo \subseteq Sessions
  BY DEF CallStep, StopMark, StopRuntime, StopFailed, StopCancel, StopCommit, DeleteRuntime,
         DeleteCancel, DeleteCommit, CancelRuns, TypeOK, ReconcilerTypeOK, Rec
<1>2. \A x \in Sessions : containers'[x] # "absent" => containers[x] # "absent"
  BY DEF CallStep, StopMark, StopRuntime, StopFailed, StopCancel, StopCommit, DeleteRuntime,
         DeleteCancel, DeleteCommit, CancelRuns, StopContainer, RemoveContainer, Up,
         TypeOK, ServiceTypeOK
<1> QED
  BY <1>1, <1>2, CallStepKeepsRows, InvariantKept

LEMMA ReconcileStepSpares ==
    ASSUME TypeOK, ReconcilerInvariant, ReconcileStep
    PROVE  ReconcilerInvariant'
<1>1. UNCHANGED create /\ rec \in Rec /\ rec.todo \subseteq Sessions
  BY DEF ReconcileStep, serviceVars, TypeOK, ReconcilerTypeOK, Rec
<1>2. CASE ReconcileList
  <2>1. \A s \in Sessions : rec'.listed[s] # "none" => containers[s] # "absent"
    <3>1. rec'.listed = [s \in Sessions |-> ToRuntimeInfo(containers[s])]
      BY <1>1, <1>2 DEF ReconcileList, Rec
    <3>2. \A s \in Sessions : containers[s] = "absent" => ToRuntimeInfo(containers[s]) = "none"
      BY DEF ToRuntimeInfo, Up
    <3> QED
      BY <3>1, <3>2
  <2>2. rec'.todo = rec.todo /\ UNCHANGED <<containers, sessions, expired>>
    BY <1>1, <1>2 DEF ReconcileList, Rec, databaseVars
  <2> QED
    BY <1>1, <2>1, <2>2, NoRowTouched, InvariantKept
<1>3. CASE ReconcileLoad
  <2> DEFINE now == {s \in Sessions : expired[s]}
  <2>1. /\ rec'.todo = Doomed(rec.listed, sessions, now)
        /\ rec'.listed = rec.listed
        /\ UNCHANGED <<containers, sessions, expired>>
    <3> DEFINE todo == Doomed(rec.listed, sessions, now)
    <3>1. rec' = [rec EXCEPT !.pc = "delete", !.loaded = sessions, !.now = now, !.todo = todo]
      BY <1>3 DEF ReconcileLoad
    <3> HIDE DEF todo, now
    <3>2. rec'.todo = todo /\ rec'.listed = rec.listed
      BY <1>1, <3>1 DEF Rec
    <3> QED
      BY <1>3, <3>2 DEF ReconcileLoad, databaseVars, todo
  <2>2. ASSUME NEW s \in rec'.todo PROVE sessions[s].deleted \/ expired[s]
    <3>1. s \in Sessions /\ rec.listed[s] # "none" /\ (Orphan(sessions[s]) \/ expired[s])
      BY <2>1, <2>2 DEF Doomed
    <3>2. sessions[s].status # "ABSENT"
      BY <3>1 DEF ReconcilerInvariant, RuntimesHaveRows, Inserted
    <3> QED
      BY <3>1, <3>2 DEF Orphan
  <2> QED
    BY <1>1, <2>1, <2>2 DEF ReconcilerInvariant, RuntimesHaveRows, ReconcilerSparesLive, Inserted
<1>4. ASSUME NEW s \in Sessions, ReconcileDelete(s) PROVE ReconcilerInvariant'
  <2>1. rec'.todo \subseteq rec.todo /\ rec'.listed = rec.listed
    BY <1>1, <1>4 DEF ReconcileDelete, Rec
  <2>2. UNCHANGED <<sessions, expired>>
    BY <1>4 DEF ReconcileDelete, databaseVars
  <2>3. \A x \in Sessions : containers'[x] # "absent" => containers[x] # "absent"
    BY <1>4 DEF ReconcileDelete, RemoveContainer, TypeOK, ServiceTypeOK
  <2> QED
    BY <1>1, <2>1, <2>2, <2>3, NoRowTouched, InvariantKept
<1>5. CASE ReconcileCommit
  <2>1. rec'.todo = {} /\ \A s \in Sessions : rec'.listed[s] = "none"
    BY <1>5 DEF ReconcileCommit, IdleRec
  <2>2. UNCHANGED containers
    BY <1>5 DEF ReconcileCommit
  <2> QED
    BY <1>1, <1>5, <2>1, <2>2, ReconcileCommitKeepsRows, InvariantKept
<1> QED
  BY <1>2, <1>3, <1>4, <1>5 DEF ReconcileStep

LEMMA FaultSpares ==
    ASSUME TypeOK, ReconcilerInvariant, Fault, ~SubmitFault
    PROVE  ReconcilerInvariant'
<1>1. rec \in Rec /\ rec.todo \subseteq Sessions
  BY DEF TypeOK, ReconcilerTypeOK, Rec
<1>2. UNCHANGED <<sessions, expired>>
  BY DEF Fault, ServiceFault, ContainerFault, RunFault, ReconcileFault, Crash, DockerRunFails,
         HealthCleanupFails, CreateAborts, StopRuntimeFails, DeleteRuntimeFails, CallAborts, ContainerExits,
         ExecFault, ExecStartFails, ExecStartedFails, ExecRaises, ExecFailRaises, ReconcileFails,
         ReconcileDeleteFails, databaseVars
<1>3. rec'.todo \subseteq rec.todo
      /\ \A s \in Sessions : rec'.listed[s] # "none" => rec.listed[s] # "none"
  <2>1. CASE UNCHANGED rec
    BY <2>1
  <2>2. CASE rec' = IdleRec
    BY <2>2 DEF IdleRec
  <2>3. ASSUME NEW s \in Sessions, ReconcileDeleteFails(s)
        PROVE  rec'.todo \subseteq rec.todo /\ rec'.listed = rec.listed
    BY <1>1, <2>3 DEF ReconcileDeleteFails, Rec
  <2> QED
    BY <2>1, <2>2, <2>3
       DEF Fault, ServiceFault, ContainerFault, RunFault, ReconcileFault, Crash, ReconcileFails
<1>4. \A s \in Sessions : /\ create'[s] # "idle" => create[s] # "idle"
                          /\ containers'[s] # "absent" => containers[s] # "absent"
  BY DEF Fault, ServiceFault, ContainerFault, RunFault, ReconcileFault, Crash, DockerRunFails,
         HealthCleanupFails, CreateAborts, StopRuntimeFails, DeleteRuntimeFails, CallAborts, ContainerExits,
         ReconcileFails, ReconcileDeleteFails, Up, serviceVars, TypeOK, ServiceTypeOK
<1> QED
  BY <1>1, <1>2, <1>3, <1>4, NoRowTouched, InvariantKept

LEMMA ReconcilerInvariantNext ==
    ASSUME TypeOK, ReconcilerInvariant, [Next]_vars
    PROVE  ReconcilerInvariant'
<1>1. rec.todo \subseteq Sessions
  BY DEF TypeOK, ReconcilerTypeOK, Rec
<1>2. ASSUME NEW s \in Sessions, CreateSession(s), Arrive PROVE ReconcilerInvariant'
  <2>1. RowsStay /\ Inserted(s)'
    BY <1>2 DEF CreateSession, TypeOK, DatabaseTypeOK, SessionRow, RowsStay, Inserted
  <2>2. \A x \in Sessions : x # s => create'[x] = create[x]
    BY <1>2 DEF CreateSession, TypeOK, ServiceTypeOK
  <2>3. UNCHANGED <<containers, rec>>
    BY <1>2 DEF CreateSession, Arrive
  <2> QED
    BY <1>1, <2>1, <2>2, <2>3, InvariantKept
<1>3. CASE SubmitRun \/ SubmitFault
  <2>1. UNCHANGED <<create, containers, rec, expired>>
    BY <1>3 DEF SubmitRun, SubmitFault, CreateRun, serviceVars
  <2>2. PICK r \in Runs, s \in Sessions, k \in Keys \cup {Null} : CreateRun(r, s, k)
    BY <1>3 DEF SubmitRun, SubmitFault
  <2>3. RowsStay
    BY <2>1, <2>2 DEF CreateRun, TypeOK, DatabaseTypeOK, SessionRow, RowsStay, Inserted
  <2> QED
    BY <1>1, <2>1, <2>3, InvariantKept
<1>4. ASSUME NEW r \in Runs, RunStep(r) PROVE ReconcilerInvariant'
  <2>1. UNCHANGED <<create, containers, rec>>
    BY <1>4 DEF RunStep, serviceVars
  <2> QED
    BY <1>1, <1>4, <2>1, RunStepKeepsRows, InvariantKept
<1>5. CASE TimePasses
  <2>1. UNCHANGED <<create, containers, rec, sessions>>
    BY <1>5 DEF TimePasses, Expire, serviceVars
  <2>2. RowsStay
    BY <1>5, <2>1 DEF TimePasses, Expire, TypeOK, DatabaseTypeOK, RowsStay, Inserted
  <2> QED
    BY <1>1, <2>1, <2>2, InvariantKept
<1>6. ASSUME NEW s \in Sessions, HealthCheckPasses(s) PROVE ReconcilerInvariant'
  <2>1. UNCHANGED <<create, rec, sessions, expired>>
    BY <1>6 DEF HealthCheckPasses, BecomeHealthy, serviceVars, databaseVars
  <2>2. \A x \in Sessions : containers'[x] # "absent" => containers[x] # "absent"
    BY <1>6 DEF HealthCheckPasses, BecomeHealthy, TypeOK, ServiceTypeOK
  <2> QED
    BY <1>1, <2>1, <2>2, NoRowTouched, InvariantKept
<1>7. CASE UNCHANGED <<create, containers, rec, sessions, expired>>
  BY <1>1, <1>7, NoRowTouched, InvariantKept
<1>8. CASE UNCHANGED vars
  BY <1>7, <1>8 DEF vars, databaseVars, serviceVars
<1>9. CASE Arrive
  BY <1>2, <1>7, <1>9 DEF Arrive, StopRead, DeleteRead, databaseVars
<1> QED
  BY <1>3, <1>4, <1>5, <1>6, <1>8, <1>9, CreateStepSpares, CallStepSpares,
     ReconcileStepSpares, FaultSpares DEF Next

LEMMA ReconcilerInvariantInit == Init => ReconcilerInvariant
BY DEF Init, DatabaseInit, ContainersInit, ServiceInit, ReconcilerInit, IdleRec,
       ReconcilerInvariant, RuntimesHaveRows, ReconcilerSparesLive

(* The reconciler only ever sets out to delete containers of deleted or    *)
(* expired sessions, for any number of sessions being created, stopped and *)
(* deleted while it works.                                                 *)
THEOREM ReconcilerSpares == Spec => []ReconcilerSparesLive
<1>1. TypeOK /\ ReconcilerInvariant /\ [Next]_vars => ReconcilerInvariant'
  BY ReconcilerInvariantNext
<1>2. ReconcilerInvariant => ReconcilerSparesLive
  BY DEF ReconcilerInvariant
<1> QED
  BY <1>1, <1>2, TypeCorrect, ReconcilerInvariantInit, PTL DEF Spec
=============================================================================
