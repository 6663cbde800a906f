----------------------------- MODULE ControlPlane -----------------------------
(***************************************************************************)
(* The backend's control plane: request handlers, run executors and the    *)
(* runtime reconciler of one API process, over one database and one Docker *)
(* daemon, with the process crashing and restarting.  Failures of Docker,  *)
(* of the database and of the process come out of one budget, MaxFaults.   *)
(***************************************************************************)
EXTENDS SessionService, RunExecutor, RuntimeReconciler

CONSTANT MaxFaults

ASSUME FaultAssumption == MaxFaults \in Nat

VARIABLES serving,      \* the lifespan's first reconcile has ended
          faults        \* failures so far

processVars == <<serving, faults>>
vars == <<databaseVars, containers, serviceVars, exec, rec, processVars>>

Init ==
    /\ DatabaseInit
    /\ ContainersInit
    /\ ServiceInit
    /\ ExecutorInit
    /\ ReconcilerInit
    /\ serving = FALSE
    /\ faults = 0

-----------------------------------------------------------------------------
(* Requests that arrive, and steps of handlers in progress. *)

Arrive ==
    /\ serving
    /\ \/ \E s \in Sessions : CreateSession(s)
       \/ \E h \in Requests, s \in Sessions : StopRead(h, s)
       \/ \E h \in Requests, s \in Sessions : DeleteRead(h, s)
    /\ UNCHANGED <<exec, rec, processVars>>

(* POST /runs: create_run and, for a new run, the background task. *)
SubmitRun ==
    /\ serving
    /\ \E r \in Runs, s \in Sessions, k \in Keys \cup {Null} :
          CreateRun(r, s, k) /\ Schedule(r)
    /\ UNCHANGED <<rec, processVars>>

CreateStep(s) ==
    /\ \/ DockerCreate(s)
       \/ DockerStart(s)
       \/ DockerStartNotFound(s)
       \/ AwaitHealthy(s)
       \/ HealthFails(s)
       \/ BindRuntime(s)
       \/ CreateFailed(s)
    /\ UNCHANGED <<exec, rec, processVars>>

CallStep(h) ==
    /\ \/ StopMark(h)
       \/ StopRuntime(h)
       \/ StopFailed(h)
       \/ StopCancel(h)
       \/ StopCommit(h)
       \/ DeleteRuntime(h)
       \/ DeleteCancel(h)
       \/ DeleteCommit(h)
    /\ UNCHANGED <<exec, rec, processVars>>

RunStep(r) == ExecStep(r) /\ UNCHANGED <<containers, serviceVars, rec, processVars>>

(* Both the lifespan's pass and the periodic ones; the first one done lets *)
(* the process serve.                                                      *)
ReconcileStep ==
    /\ \/ /\ \/ ReconcileList
             \/ ReconcileLoad
             \/ \E s \in Sessions : ReconcileDelete(s)
          /\ UNCHANGED serving
       \/ ReconcileCommit /\ serving' = TRUE
    /\ UNCHANGED <<serviceVars, exec, faults>>

-----------------------------------------------------------------------------
(* The environment. *)

TimePasses ==
    /\ \E s \in Sessions : Expire(s)
    /\ UNCHANGED <<containers, serviceVars, exec, rec, processVars>>

HealthCheckPasses(s) ==
    BecomeHealthy(s) /\ UNCHANGED <<serviceVars, exec, rec, processVars>>

(* The process dies: handlers, executors and the pass in progress are gone, *)
(* open transactions are rolled back, rows and containers stay.             *)
Crash ==
    /\ serving' = FALSE
    /\ create' = [s \in Sessions |->
                    IF create[s] = "idle" THEN "idle" ELSE "done"]
    /\ call' = [h \in Requests |->
                  EmptyCall(IF call[h].pc = "new" THEN "new" ELSE "done")]
    /\ exec' = [r \in Runs |->
                  IF exec[r].pc = "none" THEN exec[r] ELSE ExecAt("done")]
    /\ rec' = IdleRec
    /\ runLocks' = {}
    /\ UNCHANGED <<sessions, expired, runs, messages, containers>>

ServiceFault ==
    /\ \/ \E s \in Sessions :
             DockerRunFails(s) \/ HealthCleanupFails(s) \/ CreateAborts(s)
       \/ \E h \in Requests :
             StopRuntimeFails(h) \/ DeleteRuntimeFails(h) \/ CallAborts(h)
    /\ UNCHANGED <<exec, rec, serving>>

(* create_run fails after its commit: the run has no background task. *)
SubmitFault ==
    /\ serving
    /\ \E r \in Runs, s \in Sessions, k \in Keys \cup {Null} : CreateRun(r, s, k)
    /\ UNCHANGED <<exec, rec, serving>>

ContainerFault ==
    /\ \E s \in Sessions : ContainerExits(s)
    /\ UNCHANGED <<serviceVars, exec, rec, serving>>

RunFault ==
    /\ \E r \in Runs : ExecFault(r)
    /\ UNCHANGED <<containers, serviceVars, rec, serving>>

ReconcileFault ==
    /\ ReconcileFails \/ \E s \in Sessions : ReconcileDeleteFails(s)
    /\ UNCHANGED <<serviceVars, exec, serving>>

Fault ==
    /\ faults < MaxFaults
    /\ faults' = faults + 1
    /\ \/ ServiceFault
       \/ SubmitFault
       \/ ContainerFault
       \/ RunFault
       \/ ReconcileFault
       \/ Crash

Next ==
    \/ Arrive
    \/ SubmitRun
    \/ \E s \in Sessions : CreateStep(s)
    \/ \E h \in Requests : CallStep(h)
    \/ \E r \in Runs : RunStep(r)
    \/ ReconcileStep
    \/ TimePasses
    \/ \E s \in Sessions : HealthCheckPasses(s)
    \/ Fault

Spec == Init /\ [][Next]_vars

(* The event loop runs every task that can go on, the reconciler's period  *)
(* is finite, and agents return or raise (their iterations are bounded).   *)
(* Clients, the clock, the health check and failures owe nothing.          *)
Fairness ==
    /\ \A s \in Sessions : WF_vars(CreateStep(s))
    /\ \A h \in Requests : WF_vars(CallStep(h))
    /\ \A r \in Runs : WF_vars(RunStep(r))
    /\ WF_vars(ReconcileStep)

FairSpec == Spec /\ Fairness

-----------------------------------------------------------------------------
TypeOK ==
    /\ DatabaseTypeOK
    /\ ServiceTypeOK
    /\ ExecutorTypeOK
    /\ ReconcilerTypeOK
    /\ serving \in BOOLEAN
    /\ faults \in 0..MaxFaults

(* At most one run of a session is PENDING or RUNNING, although handlers,  *)
(* executors and the reconciler overwrite the status that create_run       *)
(* checks, and a run is taken from PENDING to RUNNING after it was read.   *)
OneActiveRun ==
    \A s \in Sessions : \A r1, r2 \in ActiveRuns(s) : r1 = r2

(* A container that the reconciler is about to delete belongs to a session *)
(* that is deleted or expired by now: a session whose creation is still    *)
(* under way, or that was inserted after the containers were listed, never *)
(* loses its desktop.                                                      *)
ReconcilerSparesLive ==
    \A s \in rec.todo : sessions[s].deleted \/ expired[s]

MessagesOf(s, r, role) ==
    {i \in DOMAIN messages[s] : messages[s][i] = [run |-> r, role |-> role]}

(* The conversation agrees with the runs: an accepted run has one user     *)
(* message; a COMPLETED run has one answer; a run with an answer is        *)
(* COMPLETED, or FAILED after its completion could not be announced.  No   *)
(* cancellation, retry or overwritten status leaves an answer to a run     *)
(* that is CANCELLED, or two answers.                                      *)
ConversationMatchesRuns ==
    \A r \in Runs : runs[r].status # "NONE" =>
        LET asked == MessagesOf(runs[r].session, r, "USER")
            answered == MessagesOf(runs[r].session, r, "ASSISTANT")
        IN  /\ \E i \in asked : asked = {i}
            /\ \A i, j \in answered : i = j
            /\ runs[r].status = "COMPLETED" => answered # {}
            /\ answered # {} => runs[r].status \in {"COMPLETED", "FAILED"}

(* Who holds a lock on a row of runs, and what the row is meanwhile:       *)
(* an executor that is about to start its run still has it PENDING, a stop *)
(* or delete about to commit still has its runs active, and no two of them *)
(* hold the same row.  So no run is started after it was cancelled.        *)
LockDiscipline ==
    /\ \A r \in Runs : exec[r].pc = "start"
                          => r \in runLocks /\ runs[r].status = "PENDING"
    /\ \A h \in Requests : \A r \in call[h].locked :
          /\ r \in runLocks
          /\ runs[r].status \in ActiveStatus
          /\ exec[r].pc # "start"
          /\ call[h].pc \in {"stop_commit", "delete_commit"}
    /\ \A h1, h2 \in Requests :
          h1 # h2 => call[h1].locked \cap call[h2].locked = {}

(* A key names one run of its session for ever: a retry that arrives after *)
(* the run has finished, was cancelled or was lost in a crash still finds  *)
(* it (routes/sessions.py promises the same run for the same key).         *)
IdempotentRuns ==
    \A s \in Sessions, k \in Keys : \A r1, r2 \in RunsWithKey(s, k) : r1 = r2

-----------------------------------------------------------------------------
(* What must eventually happen. *)

(* A container whose session is deleted or expired is removed, and none is *)
(* left behind later by the create_session call that was still under way,  *)
(* whatever failed or crashed in between.                                  *)
RuntimesReclaimed ==
    \A s \in Sessions :
        (sessions[s].deleted \/ expired[s]) ~> [](containers[s] = "absent")

(* An expired session is marked EXPIRED unless it is deleted first, even   *)
(* if a stale handler or executor writes another status over the mark.     *)
ExpiryRecorded ==
    \A s \in Sessions :
        expired[s] ~> (sessions[s].deleted \/ sessions[s].status = "EXPIRED")

(* As long as nothing fails, an accepted run ends, unless its session is   *)
(* deleted under it.                                                       *)
RunsFinish ==
    \A r \in Runs :
        runs[r].status \in ActiveStatus
            ~> \/ runs[r].status \notin ActiveStatus
               \/ sessions[runs[r].session].deleted
               \/ faults > 0

-----------------------------------------------------------------------------
(* What the documentation says of the states, and the code does not keep. *)

(* README.en.md: session and run states are validated before every         *)
(* transition.  No operation restarts a STOPPED session, so it never       *)
(* becomes READY or RUNNING again, and a run that has ended keeps the      *)
(* status it ended with.                                                   *)
StatesValidated ==
    [][ /\ \A s \in Sessions :
              sessions[s].status = "STOPPED" /\ Visible(s)
                  => sessions'[s].status \notin {"READY", "RUNNING"}
        /\ \A r \in Runs :
              runs[r].status \in {"COMPLETED", "FAILED", "CANCELLED"}
                  => runs'[r].status = runs[r].status ]_vars

(* README.en.md: a competing new task receives HTTP 409.  The 409 comes    *)
(* from the status test of create_run, so a session with an active run is  *)
(* never READY; where it is, the insert fails on the unique index instead, *)
(* which nothing turns into a 409.                                         *)
BusySessionNotReady ==
    \A s \in Sessions :
        Visible(s) /\ ActiveRuns(s) # {} => sessions[s].status # "READY"
=============================================================================
