-------------------------- MODULE RuntimeReconciler --------------------------
(***************************************************************************)
(* RuntimeReconciler (backend/app/services/runtime_reconciler.py): one     *)
(* pass lists the containers, then loads every session, then deletes       *)
(* containers, then writes all status changes in one commit.  rec holds    *)
(* the two snapshots of the pass and the deletions it still has to make.   *)
(* At most one container exists per session, so there are no duplicates.   *)
(***************************************************************************)
EXTENDS DockerRuntime

VARIABLE rec

(* What list_managed reports of a container: its State.Status matters only *)
(* as "running" or not.                                                    *)
ToRuntimeInfo(c) == CASE c = "absent" -> "none"
                      [] Up(c)        -> "running"
                      [] OTHER        -> "stopped"

Listing == [Sessions -> {"none", "running", "stopped"}]

Rec == [pc : {"idle", "load", "delete"}, listed : Listing,
        loaded : [Sessions -> SessionRow], now : SUBSET Sessions,
        todo : SUBSET Sessions]

IdleRec == [pc |-> "idle", listed |-> [s \in Sessions |-> "none"],
            loaded |-> [s \in Sessions |-> AbsentRow], now |-> {}, todo |-> {}]

ReconcilerInit == rec = IdleRec

ActiveSessionStatuses == {"CREATING", "READY", "RUNNING", "STOPPING"}

(* A listed container whose session is unknown or deleted. *)
Orphan(row) == row.status = "ABSENT" \/ row.deleted

(* Mutants of Doomed: a container is matched by the runtime_id of its      *)
(* session's row; only those of deleted sessions are looked for.           *)
DoomedUnbound(listed, rows, now) ==
    {s \in Sessions : listed[s] # "none" /\ (~rows[s].bound \/ rows[s].deleted \/ s \in now)}

DoomedDeleted(listed, rows, now) ==
    {s \in Sessions : listed[s] # "none" /\ rows[s].deleted}

(* The containers a pass deletes. *)
Doomed(listed, rows, now) ==
    {s \in Sessions : listed[s] # "none" /\ (Orphan(rows[s]) \/ s \in now)}

(* The rows the pass compares with their container. *)
Examined(row, isExpired) ==
    ~Orphan(row) /\ ~isExpired /\ row.status \in ActiveSessionStatuses

(* Mutant of StatusFor: the runtime's status is copied to the session. *)
RuntimeStatus(status, info) == IF info = "none" THEN "FAILED" ELSE info

(* The status of an examined row, for what was listed of its container. *)
StatusFor(status, info) ==
    CASE info = "none"    -> IF status = "CREATING" THEN status ELSE "FAILED"
      [] info = "running" -> IF status = "CREATING" THEN "READY" ELSE status
      [] info = "stopped" -> IF status = "STOPPING" THEN "STOPPED" ELSE "FAILED"

(* Mutant of ReconciledStatus: only active sessions are looked at. *)
ReconciledActiveOnly(row, info, isExpired) ==
    IF Orphan(row) \/ row.status \notin ActiveSessionStatuses THEN row.status
    ELSE IF isExpired THEN "EXPIRED" ELSE StatusFor(row.status, info)

(* The row in memory at the end of the pass. *)
ReconciledStatus(row, info, isExpired) ==
    IF ~Orphan(row) /\ isExpired THEN "EXPIRED"
    ELSE IF Examined(row, isExpired) THEN StatusFor(row.status, info)
    ELSE row.status

ReconciledBound(row, info, isExpired) ==
    row.bound \/ (Examined(row, isExpired) /\ info # "none")

-----------------------------------------------------------------------------
ReconcileList ==
    /\ rec.pc = "idle"
    /\ rec' = [rec EXCEPT !.pc = "load",
                          !.listed = [s \in Sessions |-> ToRuntimeInfo(containers[s])]]
    /\ UNCHANGED <<databaseVars, containers>>

(* SELECT of all sessions; now is read right after it. *)
ReconcileLoad ==
    /\ rec.pc = "load"
    /\ LET now == {s \in Sessions : expired[s]}
       IN  rec' = [rec EXCEPT !.pc = "delete", !.loaded = sessions, !.now = now,
                              !.todo = Doomed(rec.listed, sessions, now)]
    /\ UNCHANGED <<databaseVars, containers>>

(* _delete_runtime. *)
ReconcileDelete(s) ==
    /\ s \in rec.todo
    /\ RemoveContainer(s)
    /\ rec' = [rec EXCEPT !.todo = @ \ {s}]
    /\ UNCHANGED databaseVars

(* _delete_runtime logs a failure and goes on. *)
ReconcileDeleteFails(s) ==
    /\ s \in rec.todo
    /\ rec' = [rec EXCEPT !.todo = @ \ {s}]
    /\ UNCHANGED <<databaseVars, containers>>

(* The flush of the changed attributes of every changed row. *)
ReconcileCommit ==
    /\ rec.pc = "delete"
    /\ rec.todo = {}
    /\ sessions' = [s \in Sessions |->
          LET old == rec.loaded[s]
              info == rec.listed[s]
              late == s \in rec.now
          IN  [status |-> Dirty(sessions[s].status, old.status,
                                ReconciledStatus(old, info, late)),
               bound |-> Dirty(sessions[s].bound, old.bound,
                               ReconciledBound(old, info, late)),
               deleted |-> sessions[s].deleted]]
    /\ rec' = IdleRec
    /\ UNCHANGED <<expired, runs, messages, runLocks, containers>>

(* Listing, loading or committing raises: the pass ends and               *)
(* run_periodically waits for the next one.                               *)
ReconcileFails ==
    /\ rec.pc # "idle"
    /\ rec.pc = "delete" => rec.todo = {}
    /\ rec' = IdleRec
    /\ UNCHANGED <<databaseVars, containers>>

ReconcilerTypeOK == rec \in Rec
=============================================================================
