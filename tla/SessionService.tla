---------------------------- MODULE SessionService ----------------------------
(***************************************************************************)
(* SessionService (backend/app/services/sessions.py) and the part of       *)
(* DockerRuntimeProvider it calls.  Every await between two reads or       *)
(* writes of shared state is a step of its own; create_run locks the       *)
(* session's row for its whole transaction and is one step.                *)
(*                                                                         *)
(* create[s] is the control point of the one create_session call that      *)
(* inserts session s; call[h] is the state of stop or delete request h,    *)
(* with the row as it was loaded and the rows of runs its uncommitted      *)
(* UPDATE holds.                                                           *)
(***************************************************************************)
EXTENDS DockerRuntime

CONSTANT Requests       \* stop and delete requests

VARIABLES create, call

serviceVars == <<create, call>>

CreatePC == {"idle", "provision", "start", "wait", "bind", "fail", "done"}
CallPC == {"new", "stop_mark", "stop_runtime", "stop_failed", "stop_cancel",
           "stop_commit", "delete_runtime", "delete_cancel", "delete_commit", "done"}

Call == [pc : CallPC, session : Sessions \cup {Null}, loaded : SessionRow,
         locked : SUBSET Runs]
EmptyCall(pc) == [pc |-> pc, session |-> Null, loaded |-> AbsentRow, locked |-> {}]

ServiceInit ==
    /\ create = [s \in Sessions |-> "idle"]
    /\ call = [h \in Requests |-> EmptyCall("new")]

-----------------------------------------------------------------------------
(* create_session *)

(* The row is inserted and committed before the runtime is asked for. *)
CreateSession(s) ==
    /\ create[s] = "idle"
    /\ sessions' = [sessions EXCEPT ![s].status = "CREATING"]
    /\ create' = [create EXCEPT ![s] = "provision"]
    /\ UNCHANGED <<expired, runs, messages, runLocks, containers, call>>

(* containers.run is two Docker calls, create and start. *)
DockerCreate(s) ==
    /\ create[s] = "provision"
    /\ containers' = [containers EXCEPT ![s] = "created"]
    /\ create' = [create EXCEPT ![s] = "start"]
    /\ UNCHANGED <<databaseVars, call>>

DockerStart(s) ==
    /\ create[s] = "start"
    /\ containers[s] = "created"
    /\ containers' = [containers EXCEPT ![s] = "starting"]
    /\ create' = [create EXCEPT ![s] = "wait"]
    /\ UNCHANGED <<databaseVars, call>>

(* Either Docker call fails.  The exception leaves create before the try   *)
(* that removes the container, so a created container stays behind.        *)
DockerRunFails(s) ==
    /\ create[s] \in {"provision", "start"}
    /\ create' = [create EXCEPT ![s] = "fail"]
    /\ UNCHANGED <<databaseVars, containers, call>>

(* The created container was removed before it was started. *)
DockerStartNotFound(s) ==
    /\ create[s] = "start"
    /\ containers[s] = "absent"
    /\ create' = [create EXCEPT ![s] = "fail"]
    /\ UNCHANGED <<databaseVars, containers, call>>

(* _wait_until_healthy returns. *)
AwaitHealthy(s) ==
    /\ create[s] = "wait"
    /\ containers[s] = "healthy"
    /\ create' = [create EXCEPT ![s] = "bind"]
    /\ UNCHANGED <<databaseVars, containers, call>>

(* _wait_until_healthy raises (deadline, exited or removed container) and  *)
(* create removes the container.                                           *)
HealthFails(s) ==
    /\ create[s] = "wait"
    /\ RemoveContainer(s)
    /\ create' = [create EXCEPT ![s] = "fail"]
    /\ UNCHANGED <<databaseVars, call>>

(* The same, and Docker refuses the removal too. *)
HealthCleanupFails(s) ==
    /\ create[s] = "wait"
    /\ create' = [create EXCEPT ![s] = "fail"]
    /\ UNCHANGED <<databaseVars, containers, call>>

(* The row in memory still is the one create_session inserted: CREATING,   *)
(* unbound.                                                                *)
BindRuntime(s) ==
    /\ create[s] = "bind"
    /\ sessions' = [sessions EXCEPT
                       ![s] = [status |-> Dirty(@.status, "CREATING", "READY"),
                               bound |-> TRUE, deleted |-> @.deleted]]
    /\ create' = [create EXCEPT ![s] = "done"]
    /\ UNCHANGED <<expired, runs, messages, runLocks, containers, call>>

CreateFailed(s) ==
    /\ create[s] = "fail"
    /\ WriteStatus(s, "CREATING", "FAILED")
    /\ create' = [create EXCEPT ![s] = "done"]
    /\ UNCHANGED <<expired, runs, messages, runLocks, containers, call>>

(* The commit after the runtime was asked for fails: the row stays as it   *)
(* is, with its container, until the reconciler comes by.                  *)
CreateAborts(s) ==
    /\ create[s] \in {"bind", "fail"}
    /\ create' = [create EXCEPT ![s] = "done"]
    /\ UNCHANGED <<databaseVars, containers, call>>

-----------------------------------------------------------------------------
(* create_run: the transaction that accepts a new run.  Its other outcomes *)
(* (404, 409, the run found by its key) write nothing.                     *)

(* Mutant of NoSuchRun: the key is looked up among the active runs. *)
NoActiveRunWithKey(s, k) == RunsWithKey(s, k) \cap ActiveRuns(s) = {}

NoSuchRun(s, k) == k = Null \/ RunsWithKey(s, k) = {}

CreateRun(r, s, k) ==
    /\ runs[r].status = "NONE"
    /\ Visible(s)
    /\ NoSuchRun(s, k)
    /\ sessions[s].status = "READY"
    /\ ActiveIndexFree(s)
    /\ runs' = [runs EXCEPT ![r] = [session |-> s, key |-> k, status |-> "PENDING"]]
    /\ AddMessage(s, r, "USER")
    /\ sessions' = [sessions EXCEPT ![s].status = "RUNNING"]
    /\ UNCHANGED <<expired, runLocks, containers, serviceVars>>

-----------------------------------------------------------------------------
(* stop_session *)

Goto(h, pc) == call' = [call EXCEPT ![h].pc = pc]
Finish(h) == call' = [call EXCEPT ![h] = EmptyCall("done")]

(* A STOPPED session is returned as it is, a CREATING one is refused. *)
StopRead(h, s) ==
    /\ call[h].pc = "new"
    /\ Visible(s)
    /\ sessions[s].status \notin {"STOPPED", "CREATING"}
    /\ call' = [call EXCEPT ![h] = [pc |-> "stop_mark", session |-> s,
                                    loaded |-> sessions[s], locked |-> {}]]
    /\ UNCHANGED <<databaseVars, containers, create>>

StopMark(h) ==
    /\ call[h].pc = "stop_mark"
    /\ WriteStatus(call[h].session, call[h].loaded.status, "STOPPING")
    /\ call' = [call EXCEPT ![h] = [@ EXCEPT !.pc = "stop_runtime",
                                             !.loaded.status = "STOPPING"]]
    /\ UNCHANGED <<expired, runs, messages, runLocks, containers, create>>

StopRuntime(h) ==
    /\ call[h].pc = "stop_runtime"
    /\ IF call[h].loaded.bound THEN StopContainer(call[h].session)
                               ELSE UNCHANGED containers
    /\ Goto(h, "stop_cancel")
    /\ UNCHANGED <<databaseVars, create>>

StopRuntimeFails(h) ==
    /\ call[h].pc = "stop_runtime"
    /\ call[h].loaded.bound
    /\ Goto(h, "stop_failed")
    /\ UNCHANGED <<databaseVars, containers, create>>

StopFailed(h) ==
    /\ call[h].pc = "stop_failed"
    /\ WriteStatus(call[h].session, call[h].loaded.status, "FAILED")
    /\ Finish(h)
    /\ UNCHANGED <<expired, runs, messages, runLocks, containers, create>>

(* Mutant of CancellableRuns: the UPDATE does not look at the status. *)
AllRuns(s) == {r \in Runs : runs[r].session = s}

(* The rows the UPDATE of stop_session and delete_session selects. *)
CancellableRuns(s) == ActiveRuns(s)

(* The UPDATE waits for a row that an executor has locked; its own rows    *)
(* stay locked, and unchanged for every other transaction, until commit.   *)
CancelRuns(h, from, to) ==
    LET selected == CancellableRuns(call[h].session)
    IN  /\ call[h].pc = from
        /\ Unlocked(selected)
        /\ runLocks' = runLocks \cup selected
        /\ call' = [call EXCEPT ![h] = [@ EXCEPT !.pc = to, !.locked = selected]]
        /\ UNCHANGED <<sessions, expired, runs, messages, containers, create>>

StopCancel(h) == CancelRuns(h, "stop_cancel", "stop_commit")

(* Commit of the UPDATE: the rows h locked are CANCELLED. *)
CommitCancelled(h) ==
    /\ runs' = [r \in Runs |-> IF r \in call[h].locked
                               THEN [runs[r] EXCEPT !.status = "CANCELLED"]
                               ELSE runs[r]]
    /\ runLocks' = runLocks \ call[h].locked
    /\ Finish(h)

StopCommit(h) ==
    /\ call[h].pc = "stop_commit"
    /\ CommitCancelled(h)
    /\ WriteStatus(call[h].session, call[h].loaded.status, "STOPPED")
    /\ UNCHANGED <<expired, messages, containers, create>>

-----------------------------------------------------------------------------
(* delete_session *)

DeleteRead(h, s) ==
    /\ call[h].pc = "new"
    /\ Visible(s)
    /\ call' = [call EXCEPT ![h] = [pc |-> "delete_runtime", session |-> s,
                                    loaded |-> sessions[s], locked |-> {}]]
    /\ UNCHANGED <<databaseVars, containers, create>>

DeleteRuntime(h) ==
    /\ call[h].pc = "delete_runtime"
    /\ IF call[h].loaded.bound THEN RemoveContainer(call[h].session)
                               ELSE UNCHANGED containers
    /\ Goto(h, "delete_cancel")
    /\ UNCHANGED <<databaseVars, create>>

(* 503: nothing was written. *)
DeleteRuntimeFails(h) ==
    /\ call[h].pc = "delete_runtime"
    /\ call[h].loaded.bound
    /\ Finish(h)
    /\ UNCHANGED <<databaseVars, containers, create>>

DeleteCancel(h) == CancelRuns(h, "delete_cancel", "delete_commit")

DeleteCommit(h) ==
    /\ call[h].pc = "delete_commit"
    /\ CommitCancelled(h)
    /\ sessions' = [sessions EXCEPT
                       ![call[h].session] =
                           [status |-> Dirty(@.status, call[h].loaded.status,
                                           "STOPPED"),
                            bound |-> @.bound, deleted |-> TRUE]]
    /\ UNCHANGED <<expired, messages, containers, create>>

(* A statement or the commit of the request's transaction fails (a lost    *)
(* connection, or the victim of a deadlock with an executor's flush): the  *)
(* transaction is rolled back and the request ends.                        *)
CallAborts(h) ==
    /\ call[h].pc \in {"stop_mark", "stop_failed", "stop_cancel", "stop_commit",
                       "delete_cancel", "delete_commit"}
    /\ runLocks' = runLocks \ call[h].locked
    /\ Finish(h)
    /\ UNCHANGED <<sessions, expired, runs, messages, containers, create>>

ServiceTypeOK ==
    /\ containers \in [Sessions -> ContainerState]
    /\ create \in [Sessions -> CreatePC]
    /\ call \in [Requests -> Call]
=============================================================================
