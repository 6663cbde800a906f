----------------------------- MODULE RunExecutor -----------------------------
(***************************************************************************)
(* RunExecutor.execute (backend/app/services/run_executor.py): the         *)
(* background task of each accepted run.  exec[r] holds its control point, *)
(* the session status its own database session has loaded, and the message *)
(* sequence number it has read.                                            *)
(*                                                                         *)
(* EventService.append commits the executor's pending changes, so the      *)
(* append of RUN_STARTED, ASSISTANT_MESSAGE and RUN_FAILED are the commits *)
(* of the steps below; which events reach a client is the EventStream      *)
(* module's subject.  The agent's own events write no row modelled here.   *)
(***************************************************************************)
EXTENDS Database

VARIABLE exec

ExecPC == {"none", "queued", "start", "agent", "refresh_run", "refresh_session",
           "sequence", "commit", "announce", "rollback", "reload_session",
           "fail", "done"}

Exec == [pc : ExecPC, loaded : SessionStatus \cup {"ABSENT"}, seq : Nat]

ExecAt(pc) == [pc |-> pc, loaded |-> "ABSENT", seq |-> 0]

ExecutorInit == exec = [r \in Runs |-> ExecAt("none")]

(* The executor of r goes to pc, forgetting what it had read. *)
Step(r, from, to) ==
    /\ exec[r].pc = from
    /\ exec' = [exec EXCEPT ![r] = ExecAt(to)]

(* background_tasks.add_task, for a run that is not a replay. *)
Schedule(r) == Step(r, "none", "queued")

-----------------------------------------------------------------------------
(* Mutant of Skip: a run is dropped if its session is not RUNNING. *)
SkipUnlessRunning(r) ==
    \/ runs[r].status # "PENDING"
    \/ sessions[runs[r].session].status # "RUNNING"

(* The early returns: the run is no longer PENDING, or its session was     *)
(* deleted.                                                                *)
Skip(r) == runs[r].status # "PENDING" \/ ~Visible(runs[r].session)

(* Mutant of ExecLoad: a SELECT without FOR UPDATE. *)
ExecLoadUnlocked(r) ==
    /\ exec[r].pc = "queued"
    /\ exec' = [exec EXCEPT
                  ![r] = IF Skip(r) THEN ExecAt("done")
                         ELSE [pc |-> "start", seq |-> 0,
                               loaded |-> sessions[runs[r].session].status]]
    /\ UNCHANGED databaseVars

(* SELECT ... FOR UPDATE waits for the row's lock.  A run that goes on     *)
(* keeps the lock until its first commit.                                  *)
ExecLoad(r) ==
    /\ exec[r].pc = "queued"
    /\ Unlocked({r})
    /\ IF Skip(r)
       THEN /\ exec' = [exec EXCEPT ![r] = ExecAt("done")]
            /\ UNCHANGED runLocks
       ELSE /\ exec' = [exec EXCEPT ![r] = [pc |-> "start", seq |-> 0,
                               loaded |-> sessions[runs[r].session].status]]
            /\ runLocks' = runLocks \cup {r}
    /\ UNCHANGED <<sessions, expired, runs, messages>>

ExecStart(r) ==
    /\ Step(r, "start", "agent")
    /\ runs' = [runs EXCEPT ![r].status = "RUNNING"]
    /\ WriteStatus(runs[r].session, exec[r].loaded, "RUNNING")
    /\ runLocks' = runLocks \ {r}
    /\ UNCHANGED <<expired, messages>>

(* The first commit is outside the try block: a failure ends the task. *)
ExecStartFails(r) ==
    /\ Step(r, "start", "done")
    /\ runLocks' = runLocks \ {r}
    /\ UNCHANGED <<sessions, expired, runs, messages>>

(* So is the refresh of the first event, after that commit. *)
ExecStartedFails(r) == Step(r, "agent", "done") /\ UNCHANGED databaseVars

AgentReturns(r) == Step(r, "agent", "refresh_run") /\ UNCHANGED databaseVars

AgentRaises(r) == Step(r, "agent", "rollback") /\ UNCHANGED databaseVars

(* refresh(run), and the return if it was CANCELLED; the refresh of the    *)
(* session before that return reads a row nobody looks at.                 *)
RefreshRun(r) ==
    /\ Step(r, "refresh_run",
            IF runs[r].status = "CANCELLED" THEN "done" ELSE "refresh_session")
    /\ UNCHANGED databaseVars

RefreshSession(r) ==
    /\ exec[r].pc = "refresh_session"
    /\ exec' = [exec EXCEPT
                  ![r] = [@ EXCEPT !.pc = "sequence",
                                   !.loaded = sessions[runs[r].session].status]]
    /\ UNCHANGED databaseVars

ReadSequence(r) ==
    /\ exec[r].pc = "sequence"
    /\ exec' = [exec EXCEPT
                  ![r] = [@ EXCEPT !.pc = "commit",
                                   !.seq = NextMessageSequence(runs[r].session)]]
    /\ UNCHANGED databaseVars

(* The unique constraint on (session_id, sequence). *)
SequenceFree(r) == exec[r].seq = NextMessageSequence(runs[r].session)

(* Message, COMPLETED, READY and the ASSISTANT_MESSAGE event in one commit. *)
(* Only the row lock is waited for: no status is looked at again.           *)
ExecComplete(r) ==
    /\ Step(r, "commit", "announce")
    /\ Unlocked({r})
    /\ SequenceFree(r)
    /\ runs' = [runs EXCEPT ![r].status = "COMPLETED"]
    /\ WriteStatus(runs[r].session, exec[r].loaded, "READY")
    /\ AddMessage(runs[r].session, r, "ASSISTANT")
    /\ UNCHANGED <<expired, runLocks>>

SequenceConflict(r) ==
    /\ Step(r, "commit", "rollback")
    /\ Unlocked({r})
    /\ ~SequenceFree(r)
    /\ UNCHANGED databaseVars

(* The append of RUN_COMPLETED is a second commit. *)
Announce(r) == Step(r, "announce", "done") /\ UNCHANGED databaseVars

(* Mutant of ExecRaises: the failed commit is tried again. *)
CommitRetried(r) ==
    /\ exec[r].pc \in {"sequence", "commit", "announce"}
    /\ exec' = [exec EXCEPT ![r] = ExecAt("refresh_session")]
    /\ UNCHANGED databaseVars

(* A statement or commit inside the try block fails. *)
ExecRaises(r) ==
    /\ exec[r].pc \in {"refresh_run", "refresh_session", "sequence", "commit",
                       "announce"}
    /\ exec' = [exec EXCEPT ![r] = ExecAt("rollback")]
    /\ UNCHANGED databaseVars

-----------------------------------------------------------------------------
(* The except block.  The rollback expired both objects: they are loaded   *)
(* again, and only a CANCELLED run is left alone.                          *)
Rollback(r) ==
    /\ Step(r, "rollback",
            IF runs[r].status = "CANCELLED" THEN "done" ELSE "reload_session")
    /\ UNCHANGED databaseVars

ReloadSession(r) ==
    /\ exec[r].pc = "reload_session"
    /\ exec' = [exec EXCEPT
                  ![r] = [@ EXCEPT !.pc = "fail",
                                   !.loaded = sessions[runs[r].session].status]]
    /\ UNCHANGED databaseVars

ExecFail(r) ==
    /\ Step(r, "fail", "done")
    /\ Unlocked({r})
    /\ runs' = [runs EXCEPT ![r].status = "FAILED"]
    /\ WriteStatus(runs[r].session, exec[r].loaded, "READY")
    /\ UNCHANGED <<expired, messages, runLocks>>

(* A failure inside the except block ends the task. *)
ExecFailRaises(r) ==
    /\ exec[r].pc \in {"rollback", "reload_session", "fail"}
    /\ exec' = [exec EXCEPT ![r] = ExecAt("done")]
    /\ UNCHANGED databaseVars

(* A step of the executor that no failure of a service is part of. *)
ExecStep(r) ==
    \/ ExecLoad(r)
    \/ ExecStart(r)
    \/ AgentReturns(r)
    \/ AgentRaises(r)
    \/ RefreshRun(r)
    \/ RefreshSession(r)
    \/ ReadSequence(r)
    \/ ExecComplete(r)
    \/ SequenceConflict(r)
    \/ Announce(r)
    \/ Rollback(r)
    \/ ReloadSession(r)
    \/ ExecFail(r)

(* The database refuses a statement or a commit. *)
ExecFault(r) ==
    \/ ExecStartFails(r)
    \/ ExecStartedFails(r)
    \/ ExecRaises(r)
    \/ ExecFailRaises(r)

ExecutorTypeOK == exec \in [Runs -> Exec]
=============================================================================
