------------------------------ MODULE RunEvents ------------------------------
(***************************************************************************)
(* The control plane with the events its executors append: what the log,   *)
(* and so the page, says of a run, beside what the rows say of it.  An     *)
(* append commits its event together with whatever the executor has        *)
(* assigned; the agent's own events between the first and the last are     *)
(* AgentRunner's.                                                          *)
(***************************************************************************)
EXTENDS ControlPlane

VARIABLE timeline       \* types of each run's events, in the order of commits

EventType == {"RUN_STARTED", "ASSISTANT_MESSAGE", "RUN_COMPLETED", "RUN_FAILED"}

RunEventsInit == Init /\ timeline = [r \in Runs |-> <<>>]

Appends(r, types) == timeline' = [timeline EXCEPT ![r] = @ \o types]

(* What a step of the executor has appended. *)
Appended(r) ==
    CASE exec'[r].pc = "agent"    -> <<"RUN_STARTED">>
      [] exec'[r].pc = "announce" -> <<"ASSISTANT_MESSAGE">>
      [] exec[r].pc = "announce"  -> <<"RUN_COMPLETED">>
      [] exec[r].pc = "fail"      -> <<"RUN_FAILED">>
      [] OTHER                    -> <<>>

ExecutorAppends(r) == RunStep(r) /\ Appends(r, Appended(r))

(* The refresh of RUN_COMPLETED can fail after its commit. *)
FaultAppends ==
    /\ Fault
    /\ \/ UNCHANGED timeline
       \/ \E r \in Runs :
             /\ exec[r].pc = "announce" /\ exec'[r].pc = "rollback"
             /\ Appends(r, <<"RUN_COMPLETED">>)

NobodyAppends ==
    /\ \/ Arrive
       \/ SubmitRun
       \/ \E s \in Sessions : CreateStep(s)
       \/ \E h \in Requests : CallStep(h)
       \/ ReconcileStep
       \/ TimePasses
       \/ \E s \in Sessions : HealthCheckPasses(s)
    /\ UNCHANGED timeline

RunEventsNext ==
    \/ \E r \in Runs : ExecutorAppends(r)
    \/ FaultAppends
    \/ NobodyAppends

RunEventsSpec == RunEventsInit /\ [][RunEventsNext]_<<vars, timeline>> /\ Fairness

-----------------------------------------------------------------------------
(* The events a run may have in a status. *)
Timelines(status) ==
    LET started == <<"RUN_STARTED">>
        answered == <<"RUN_STARTED", "ASSISTANT_MESSAGE">>
        completed == Append(answered, "RUN_COMPLETED")
    IN  CASE status = "RUNNING"   -> {started}
          [] status = "CANCELLED" -> {<<>>, started}
          [] status = "COMPLETED" -> {answered, completed}
          [] status = "FAILED"    ->
                {Append(t, "RUN_FAILED") : t \in {started, answered, completed}}
          [] OTHER                -> {<<>>}

(* The log and the row of a run agree at any time, through failures of     *)
(* every append, crashes, and cancellations that are overwritten: the page *)
(* is told of a failure if and only if the row says FAILED, of an answer   *)
(* only if the run was not cancelled, and of a completion only after the   *)
(* answer; nothing is appended twice.                                      *)
TimelineMatchesRow == \A r \in Runs : timeline[r] \in Timelines(runs[r].status)
=============================================================================
