------------------------------ MODULE Database ------------------------------
(***************************************************************************)
(* The PostgreSQL rows that the backend's tasks share: the tables          *)
(* sessions, runs and messages (backend/app/db/models), their unique       *)
(* indexes, and the way SQLAlchemy writes a loaded row back.               *)
(*                                                                         *)
(* A transaction runs at READ COMMITTED.  A row is read into memory, the   *)
(* handler awaits something else, assigns attributes and commits; the      *)
(* flush writes exactly the attributes whose value differs from the one    *)
(* that was loaded (Dirty).  Nothing compares the version column with the  *)
(* stored one, so it is not part of the model.                             *)
(***************************************************************************)
EXTENDS Integers, Sequences, FiniteSets

CONSTANTS Sessions,     \* ids of rows of sessions
          Runs,         \* ids of rows of runs
          Keys,         \* values of the Idempotency-Key header
          Null          \* no value: SQL NULL, a missing header

ASSUME NullAssumption == Null \notin Sessions \cup Keys

VARIABLES sessions,     \* rows: status, runtime_id bound?, deleted_at set?
          expired,      \* expires_at of a session's row has passed
          runs,         \* rows: session, idempotency key, status
          messages,     \* rows of each session, in sequence order
          runLocks      \* rows of runs locked by a transaction in progress

databaseVars == <<sessions, expired, runs, messages, runLocks>>

-----------------------------------------------------------------------------
(* domain/session.py: the persisted states.  ABSENT and NONE stand for a   *)
(* row that has not been inserted.                                         *)
SessionStatus == {"CREATING", "READY", "RUNNING", "STOPPING", "STOPPED",
                  "FAILED", "EXPIRED"}
RunStatus == {"PENDING", "RUNNING", "COMPLETED", "FAILED", "CANCELLED"}
ActiveStatus == {"PENDING", "RUNNING"}

SessionRow == [status : SessionStatus \cup {"ABSENT"},
               bound : BOOLEAN, deleted : BOOLEAN]
RunRow == [session : Sessions \cup {Null}, key : Keys \cup {Null},
           status : RunStatus \cup {"NONE"}]
Message == [run : Runs, role : {"USER", "ASSISTANT"}]

AbsentRow == [status |-> "ABSENT", bound |-> FALSE, deleted |-> FALSE]

DatabaseInit ==
    /\ sessions = [s \in Sessions |-> AbsentRow]
    /\ expired = [s \in Sessions |-> FALSE]
    /\ runs = [r \in Runs |-> [session |-> Null, key |-> Null, status |-> "NONE"]]
    /\ messages = [s \in Sessions |-> <<>>]
    /\ runLocks = {}

-----------------------------------------------------------------------------
(* get_session: the row exists and deleted_at is null. *)
Visible(s) == sessions[s].status # "ABSENT" /\ ~sessions[s].deleted

(* What the flush leaves in a column: the new value if the attribute was   *)
(* changed in memory, otherwise whatever is stored by then.                *)
Dirty(stored, loaded, new) == IF new = loaded THEN stored ELSE new

(* session.status = new; commit, by a transaction that had read `loaded`. *)
WriteStatus(s, loaded, new) ==
    sessions' = [sessions EXCEPT ![s].status = Dirty(@, loaded, new)]

ActiveRuns(s) == {r \in Runs : runs[r].session = s /\ runs[r].status \in ActiveStatus}

(* No transaction in progress holds a lock on any of these rows of runs:    *)
(* an UPDATE or SELECT FOR UPDATE of them need not wait.                    *)
Unlocked(rows) == rows \cap runLocks = {}

(* Mutant of ActiveIndexFree: an index whose predicate misses RUNNING. *)
PendingIndexFree(s) ==
    \A r \in Runs : runs[r].session = s => runs[r].status # "PENDING"

(* The partial unique index on runs(session_id) lets the insert of an       *)
(* active run through.                                                      *)
ActiveIndexFree(s) == ActiveRuns(s) = {}

(* get_run_by_idempotency_key. *)
RunsWithKey(s, k) ==
    {r \in Runs : runs[r].status # "NONE" /\ runs[r].session = s /\ runs[r].key = k}

NextMessageSequence(s) == Len(messages[s]) + 1

AddMessage(s, r, role) ==
    messages' = [messages EXCEPT ![s] = Append(@, [run |-> r, role |-> role])]

(* The clock passes expires_at. *)
Expire(s) ==
    /\ sessions[s].status # "ABSENT"
    /\ ~expired[s]
    /\ expired' = [expired EXCEPT ![s] = TRUE]
    /\ UNCHANGED <<sessions, runs, messages, runLocks>>

DatabaseTypeOK ==
    /\ sessions \in [Sessions -> SessionRow]
    /\ expired \in [Sessions -> BOOLEAN]
    /\ runs \in [Runs -> RunRow]
    /\ messages \in [Sessions -> Seq(Message)]
    /\ runLocks \in SUBSET Runs
=============================================================================
