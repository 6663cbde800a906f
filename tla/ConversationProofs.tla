-------------------------- MODULE ConversationProofs --------------------------
(***************************************************************************)
(* ConversationMatchesRuns for any number of sessions and runs.  A run's   *)
(* answer is written in the transaction that completes it, by an executor  *)
(* that has not answered before (Unanswered); what ends the run otherwise, *)
(* a cancellation, only reaches runs that are active.  The events that     *)
(* RunEvents appends agree with the row for the same reasons.              *)
(***************************************************************************)
EXTENDS ControlPlaneProofs, RunEvents, SequenceTheorems

(* The executor has not committed the answer yet. *)
Unanswered == {"queued", "start", "agent", "refresh_run", "refresh_session",
               "sequence", "commit"}

NoMessagesYet ==
    \A r \in Runs : \A s \in Sessions :
        /\ runs[r].status = "NONE" => \A role \in {"USER", "ASSISTANT"} :
                                         MessagesOf(s, r, role) = {}
        /\ exec[r].pc \in Unanswered => MessagesOf(s, r, "ASSISTANT") = {}

ConversationInvariant == NoMessagesYet /\ ConversationMatchesRuns

-----------------------------------------------------------------------------
(* Adding a message adds its position to the ones of its run and role, and *)
(* changes no other.                                                       *)
LEMMA AddedMessage ==
    ASSUME messages \in [Sessions -> Seq(Message)], NEW s \in Sessions, NEW r \in Runs,
           NEW role \in {"USER", "ASSISTANT"}, AddMessage(s, r, role)
    PROVE  MessagesOf(s, r, role)' = MessagesOf(s, r, role) \cup {Len(messages[s]) + 1}
<1> DEFINE m == [run |-> r, role |-> role]
           n == Len(messages[s])
<1>1. m \in Message
  BY DEF Message
<1>2. messages[s] \in Seq(Message) /\ n \in Nat
  OBVIOUS
<1>3. messages'[s] = Append(messages[s], m)
  BY DEF AddMessage
<1> HIDE DEF m
<1>4. /\ DOMAIN messages'[s] = 1..(n + 1)
      /\ DOMAIN messages[s] = 1..n
      /\ messages'[s][n + 1] = m
      /\ \A i \in 1..n : messages'[s][i] = messages[s][i]
  BY <1>1, <1>2, <1>3
<1>5. MessagesOf(s, r, role) = {i \in 1..n : messages[s][i] = m}
  BY <1>4 DEF MessagesOf, m
<1>6. MessagesOf(s, r, role)' = {i \in 1..(n + 1) : messages'[s][i] = m}
  BY <1>4 DEF MessagesOf, m
<1>7. 1..(n + 1) = 1..n \cup {n + 1}
  BY <1>2
<1> HIDE DEF n
<1>8. MessagesOf(s, r, role)' = MessagesOf(s, r, role) \cup {n + 1}
  BY <1>4, <1>5, <1>6, <1>7
<1> QED
  BY <1>8 DEF n

LEMMA OtherMessages ==
    ASSUME messages \in [Sessions -> Seq(Message)], NEW s \in Sessions, NEW r \in Runs,
           NEW role \in {"USER", "ASSISTANT"}, AddMessage(s, r, role),
           NEW s2 \in Sessions, NEW r2 \in Runs, NEW role2 \in {"USER", "ASSISTANT"},
           r2 # r \/ role2 # role
    PROVE  MessagesOf(s2, r2, role2)' = MessagesOf(s2, r2, role2)
<1> DEFINE m == [run |-> r, role |-> role]
           q == [run |-> r2, role |-> role2]
           n == Len(messages[s])
<1>1. m \in Message /\ m # q
  BY DEF Message
<1>2. CASE s2 # s
  <2>1. messages'[s2] = messages[s2]
    BY <1>2 DEF AddMessage
  <2> QED
    BY <2>1 DEF MessagesOf
<1>3. CASE s2 = s
  <2>1. messages[s] \in Seq(Message) /\ n \in Nat
    OBVIOUS
  <2>2. messages'[s] = Append(messages[s], m)
    BY DEF AddMessage
  <2> HIDE DEF m
  <2>3. /\ DOMAIN messages'[s] = 1..(n + 1)
        /\ DOMAIN messages[s] = 1..n
        /\ messages'[s][n + 1] = m
        /\ \A i \in 1..n : messages'[s][i] = messages[s][i]
    BY <1>1, <2>1, <2>2
  <2>4. MessagesOf(s, r2, role2) = {i \in 1..n : messages[s][i] = q}
    BY <2>3 DEF MessagesOf
  <2>5. MessagesOf(s, r2, role2)' = {i \in 1..(n + 1) : messages'[s][i] = q}
    BY <2>3 DEF MessagesOf
  <2>6. 1..(n + 1) = 1..n \cup {n + 1}
    BY <2>1
  <2> HIDE DEF n, q
  <2>7. MessagesOf(s, r2, role2)' = MessagesOf(s, r2, role2)
    BY <1>1, <2>3, <2>4, <2>5, <2>6
  <2> QED
    BY <1>3, <2>7 DEF MessagesOf
<1> QED
  BY <1>2, <1>3

-----------------------------------------------------------------------------
(* A step that writes no message, ends no run as COMPLETED and takes no    *)
(* completed or failed run back.                                           *)
ConversationKept ==
    /\ UNCHANGED messages
    /\ \A r \in Runs :
        /\ runs'[r].session = runs[r].session
        /\ runs'[r].status = "NONE" <=> runs[r].status = "NONE"
        /\ runs'[r].status = "COMPLETED" => runs[r].status = "COMPLETED"
        /\ runs[r].status \in {"COMPLETED", "FAILED"}
              => runs'[r].status \in {"COMPLETED", "FAILED"}
        /\ exec'[r].pc \in Unanswered => exec[r].pc \in Unanswered

LEMMA ConversationKeptPreserves ==
    ASSUME ConversationInvariant, ConversationKept
    PROVE  ConversationInvariant'
<1>1. \A s, r, role : MessagesOf(s, r, role)' = MessagesOf(s, r, role)
  BY DEF ConversationKept, MessagesOf
<1>2. NoMessagesYet'
  BY <1>1 DEF ConversationInvariant, NoMessagesYet, ConversationKept, MessagesOf
<1>3. ConversationMatchesRuns'
  <2> SUFFICES ASSUME NEW r \in Runs, runs'[r].status # "NONE"
               PROVE  LET asked == MessagesOf(runs[r].session, r, "USER")'
                          answered == MessagesOf(runs[r].session, r, "ASSISTANT")'
                      IN  /\ \E i \in asked : asked = {i}
                          /\ \A i, j \in answered : i = j
                          /\ runs'[r].status = "COMPLETED" => answered # {}
                          /\ answered # {} => runs'[r].status \in {"COMPLETED", "FAILED"}
    BY DEF ConversationMatchesRuns
  <2>1. runs[r].status # "NONE" /\ runs'[r].session = runs[r].session
    BY DEF ConversationKept
  <2>2. /\ MessagesOf(runs[r].session, r, "USER")' = MessagesOf(runs[r].session, r, "USER")
        /\ MessagesOf(runs[r].session, r, "ASSISTANT")' = MessagesOf(runs[r].session, r, "ASSISTANT")
    BY <2>1 DEF MessagesOf, ConversationKept
  <2> QED
    BY <2>1, <2>2 DEF ConversationInvariant, ConversationMatchesRuns, ConversationKept
<1> QED
  BY <1>2, <1>3 DEF ConversationInvariant

-----------------------------------------------------------------------------
(* What ConversationInvariant says of one run. *)
RunConversation(r) ==
    LET asked == MessagesOf(runs[r].session, r, "USER")
        answered == MessagesOf(runs[r].session, r, "ASSISTANT")
    IN  /\ \E i \in asked : asked = {i}
        /\ \A i, j \in answered : i = j
        /\ runs[r].status = "COMPLETED" => answered # {}
        /\ answered # {} => runs[r].status \in {"COMPLETED", "FAILED"}

(* A run that a step neither touches nor adds a message of. *)
LEMMA OtherRunKept ==
    ASSUME NEW r \in Runs, UNCHANGED <<runs[r], exec[r]>>, ConversationInvariant,
           \A s \in Sessions : \A role \in {"USER", "ASSISTANT"} :
              MessagesOf(s, r, role)' = MessagesOf(s, r, role),
           runs[r].status # "NONE" => runs[r].session \in Sessions
    PROVE  /\ runs'[r].status # "NONE" => RunConversation(r)'
           /\ \A s \in Sessions :
                 /\ runs'[r].status = "NONE" => \A role \in {"USER", "ASSISTANT"} :
                                                   MessagesOf(s, r, role)' = {}
                 /\ exec'[r].pc \in Unanswered => MessagesOf(s, r, "ASSISTANT")' = {}
<1>1. \A s \in Sessions : /\ MessagesOf(s, r, "USER")' = MessagesOf(s, r, "USER")
                          /\ MessagesOf(s, r, "ASSISTANT")' = MessagesOf(s, r, "ASSISTANT")
  OBVIOUS
<1>2. ASSUME runs'[r].status # "NONE" PROVE RunConversation(r)'
  <2>1. runs[r].status # "NONE" /\ runs[r].session \in Sessions
    BY <1>2
  <2>2. /\ MessagesOf(runs[r].session, r, "USER")' = MessagesOf(runs[r].session, r, "USER")
        /\ MessagesOf(runs[r].session, r, "ASSISTANT")' = MessagesOf(runs[r].session, r, "ASSISTANT")
    BY <1>1, <2>1 DEF MessagesOf
  <2>3. RunConversation(r)
    BY <2>1 DEF ConversationInvariant, ConversationMatchesRuns, RunConversation
  <2> QED
    BY <2>2, <2>3 DEF RunConversation
<1> QED
  BY <1>1, <1>2 DEF ConversationInvariant, NoMessagesYet, Unanswered, MessagesOf

(* A step that adds one message of run r, and leaves the other runs alone, *)
(* has only r to answer for.                                               *)
LEMMA OnlyThisRun ==
    ASSUME TypeOK, RowsExist, ConversationInvariant,
           NEW r \in Runs, NEW s \in Sessions, NEW role \in {"USER", "ASSISTANT"},
           AddMessage(s, r, role),
           \A x \in Runs : x # r => runs'[x] = runs[x] /\ exec'[x] = exec[x],
           RunConversation(r)',
           runs'[r].status # "NONE",
           \A y \in Sessions : exec'[r].pc \in Unanswered => MessagesOf(y, r, "ASSISTANT")' = {}
    PROVE  ConversationInvariant'
<1>1. ASSUME NEW x \in Runs, x # r
      PROVE  /\ runs'[x].status # "NONE" => RunConversation(x)'
             /\ \A y \in Sessions :
                   /\ runs'[x].status = "NONE" => \A q \in {"USER", "ASSISTANT"} :
                                                     MessagesOf(y, x, q)' = {}
                   /\ exec'[x].pc \in Unanswered => MessagesOf(y, x, "ASSISTANT")' = {}
  <2>1. ASSUME NEW y \in Sessions, NEW q \in {"USER", "ASSISTANT"}
        PROVE  MessagesOf(y, x, q)' = MessagesOf(y, x, q)
    <3>1. messages \in [Sessions -> Seq(Message)]
      BY DEF TypeOK, DatabaseTypeOK
    <3> QED
      BY <1>1, <3>1, OtherMessages
  <2>2. runs[x].status # "NONE" => runs[x].session \in Sessions
    BY DEF RowsExist
  <2> QED
    BY <1>1, <2>1, <2>2, OtherRunKept
<1>2. ConversationMatchesRuns'
  <2>1. \A x \in Runs : runs'[x].status # "NONE" => RunConversation(x)'
    BY <1>1
  <2> QED
    BY <2>1 DEF ConversationMatchesRuns, RunConversation
<1>3. NoMessagesYet'
  BY <1>1 DEF NoMessagesYet
<1> QED
  BY <1>2, <1>3 DEF ConversationInvariant

LEMMA RunAcceptedConverses ==
    ASSUME TypeOK, RowsExist, ConversationInvariant,
           NEW r \in Runs, NEW s \in Sessions, NEW k \in Keys \cup {Null},
           RunAccepted(r, s, k)
    PROVE  ConversationInvariant'
<1>1. CreateRun(r, s, k) /\ (Schedule(r) \/ UNCHANGED exec)
  BY DEF RunAccepted
<1>2. \A x \in Runs : x # r => runs'[x] = runs[x] /\ exec'[x] = exec[x]
  BY <1>1 DEF CreateRun, Schedule, Step, TypeOK, DatabaseTypeOK, ExecutorTypeOK
<1>3. runs'[r].session = s /\ runs'[r].status = "PENDING"
  BY <1>1 DEF CreateRun, TypeOK, DatabaseTypeOK
<1>4. runs[r].status = "NONE" /\ AddMessage(s, r, "USER")
  BY <1>1 DEF CreateRun
<1>5. \A y \in Sessions : MessagesOf(y, r, "ASSISTANT")' = {}
  <2> SUFFICES ASSUME NEW y \in Sessions PROVE MessagesOf(y, r, "ASSISTANT")' = {}
    OBVIOUS
  <2>1. MessagesOf(y, r, "ASSISTANT")' = MessagesOf(y, r, "ASSISTANT")
    BY <1>4, OtherMessages DEF TypeOK, DatabaseTypeOK
  <2>2. MessagesOf(y, r, "ASSISTANT") = {}
    BY <1>4 DEF ConversationInvariant, NoMessagesYet
  <2> QED
    BY <2>1, <2>2
<1>6. \E i : MessagesOf(s, r, "USER")' = {i}
  <2>1. MessagesOf(s, r, "USER")' = MessagesOf(s, r, "USER") \cup {Len(messages[s]) + 1}
    BY <1>4, AddedMessage DEF TypeOK, DatabaseTypeOK
  <2>2. MessagesOf(s, r, "USER") = {}
    BY <1>4 DEF ConversationInvariant, NoMessagesYet
  <2> QED
    BY <2>1, <2>2
<1>7. RunConversation(r)'
  <2>1. MessagesOf(runs[r].session, r, "ASSISTANT")' = {}
    BY <1>3, <1>5 DEF MessagesOf
  <2>2. \E i : MessagesOf(runs[r].session, r, "USER")' = {i}
    BY <1>3, <1>6 DEF MessagesOf
  <2> QED
    BY <1>3, <2>1, <2>2 DEF RunConversation
<1> QED
  BY <1>2, <1>3, <1>4, <1>5, <1>7, OnlyThisRun

LEMMA ExecCompleteConverses ==
    ASSUME TypeOK, RowsExist, ConversationInvariant, NEW r \in Runs, ExecComplete(r)
    PROVE  ConversationInvariant'
<1>0. PICK s : s = runs[r].session
  OBVIOUS
<1>1. \A x \in Runs : x # r => runs'[x] = runs[x] /\ exec'[x] = exec[x]
  BY DEF ExecComplete, Step, TypeOK, DatabaseTypeOK, ExecutorTypeOK
<1>2. runs'[r].session = s /\ runs'[r].status = "COMPLETED"
  BY <1>0 DEF ExecComplete, TypeOK, DatabaseTypeOK, RunRow
<1>3. exec[r].pc = "commit" /\ exec'[r].pc = "announce"
  BY DEF ExecComplete, Step, ExecAt, TypeOK, ExecutorTypeOK
<1>4. s \in Sessions /\ runs[r].status # "NONE"
  BY <1>0, <1>3 DEF RowsExist
<1>5. AddMessage(s, r, "ASSISTANT") /\ messages \in [Sessions -> Seq(Message)]
  BY <1>0 DEF ExecComplete, TypeOK, DatabaseTypeOK
<1>6. MessagesOf(s, r, "ASSISTANT") = {}
  BY <1>3, <1>4 DEF ConversationInvariant, NoMessagesYet, Unanswered
<1>7. PICK i : MessagesOf(s, r, "USER") = {i}
  BY <1>0, <1>4 DEF ConversationInvariant, ConversationMatchesRuns
<1>8. MessagesOf(s, r, "ASSISTANT")' = MessagesOf(s, r, "ASSISTANT") \cup {Len(messages[s]) + 1}
  BY <1>4, <1>5, AddedMessage
<1>9. MessagesOf(s, r, "USER")' = MessagesOf(s, r, "USER")
  BY <1>4, <1>5, OtherMessages
<1>10. RunConversation(r)'
  <2>1. PICK j : MessagesOf(s, r, "ASSISTANT")' = {j}
    BY <1>6, <1>8
  <2>2. MessagesOf(s, r, "USER")' = {i}
    BY <1>7, <1>9
  <2> QED
    BY <1>2, <2>1, <2>2 DEF RunConversation, MessagesOf
<1> QED
  BY <1>1, <1>2, <1>3, <1>4, <1>5, <1>10, OnlyThisRun DEF Unanswered

-----------------------------------------------------------------------------
(* Every other step keeps the conversation. *)
LEMMA NothingSaid ==
    ASSUME UNCHANGED <<runs, messages, exec>>
    PROVE  ConversationKept
BY DEF ConversationKept

LEMMA CallStepConverses ==
    ASSUME TypeOK, LockDiscipline, NEW h \in Requests, CallStep(h)
    PROVE  ConversationKept
<1>1. CASE StopCommit(h) \/ DeleteCommit(h)
  <2>1. CommitCancelled(h) /\ UNCHANGED <<exec, messages>>
    BY <1>1 DEF CallStep, StopCommit, DeleteCommit
  <2>2. \A r \in Runs : r \in call[h].locked =>
           /\ runs[r].status \in ActiveStatus
           /\ runs'[r].session = runs[r].session /\ runs'[r].status = "CANCELLED"
    BY <2>1 DEF LockDiscipline, CommitCancelled, TypeOK, DatabaseTypeOK, RunRow
  <2>3. \A r \in Runs : r \notin call[h].locked => runs'[r] = runs[r]
    BY <2>1 DEF CommitCancelled
  <2> QED
    BY <2>1, <2>2, <2>3 DEF ConversationKept, ActiveStatus
<1>2. CASE ~(StopCommit(h) \/ DeleteCommit(h))
  BY <1>2, NothingSaid
     DEF CallStep, StopMark, StopRuntime, StopFailed, StopCancel, DeleteRuntime,
         DeleteCancel, CancelRuns, databaseVars
<1> QED
  BY <1>1, <1>2

LEMMA ExecConverses ==
    ASSUME TypeOK, RowsExist, LockDiscipline, NEW r \in Runs,
           ExecStep(r) \/ ExecFault(r), ~ExecComplete(r)
    PROVE  ConversationKept
<1> USE DEF databaseVars
<1>1. \A x \in Runs : x # r => exec'[x] = exec[x]
  BY DEF ExecStep, ExecFault, ExecLoad, ExecStart, AgentReturns, AgentRaises, RefreshRun,
         RefreshSession, ReadSequence, SequenceConflict, Announce, Rollback,
         ReloadSession, ExecFail, ExecStartFails, ExecStartedFails, ExecRaises, ExecFailRaises, Step,
         TypeOK, ExecutorTypeOK
<1>2. exec'[r].pc \in Unanswered => exec[r].pc \in Unanswered
  <2>1. exec[r] \in Exec
    BY DEF TypeOK, ExecutorTypeOK
  <2>2. CASE \/ ExecLoad(r) \/ RefreshSession(r) \/ ReadSequence(r)
    BY <2>1, <2>2 DEF ExecLoad, RefreshSession, ReadSequence, Unanswered
  <2>3. CASE ReloadSession(r)
    <3>1. exec'[r].pc = "fail"
      BY <2>1, <2>3 DEF ReloadSession, TypeOK, ExecutorTypeOK, Exec
    <3> QED
      BY <3>1 DEF Unanswered
  <2>4. CASE \/ ExecStart(r) \/ AgentReturns(r) \/ AgentRaises(r) \/ RefreshRun(r)
             \/ SequenceConflict(r) \/ Announce(r) \/ Rollback(r) \/ ExecFail(r)
    <3>1. PICK from, to : Step(r, from, to) /\ (from \in Unanswered \/ to \notin Unanswered)
      BY <2>4 DEF ExecStart, AgentReturns, AgentRaises, RefreshRun, SequenceConflict,
                  Announce, Rollback, ExecFail, Unanswered
    <3> QED
      <4>1. exec[r].pc = from /\ exec'[r].pc = to
        BY <3>1 DEF Step, ExecAt, TypeOK, ExecutorTypeOK
      <4> QED
        BY <3>1, <4>1
  <2>5. CASE ExecFault(r)
    <3>1. exec'[r].pc \in {"done", "rollback"}
      BY <2>5 DEF ExecFault, ExecStartFails, ExecStartedFails, ExecRaises, ExecFailRaises, Step, ExecAt,
                  TypeOK, ExecutorTypeOK
    <3> QED
      BY <3>1 DEF Unanswered
  <2> QED
    BY <2>2, <2>3, <2>4, <2>5 DEF ExecStep
<1>3. UNCHANGED messages
  BY DEF ExecStep, ExecFault, ExecLoad, ExecStart, AgentReturns, AgentRaises, RefreshRun,
         RefreshSession, ReadSequence, SequenceConflict, Announce, Rollback,
         ReloadSession, ExecFail, ExecStartFails, ExecStartedFails, ExecRaises, ExecFailRaises
<1>4. CASE ExecStart(r) \/ ExecFail(r)
  <2>1. PICK v \in {"RUNNING", "FAILED"} :
           /\ runs' = [runs EXCEPT ![r].status = v]
           /\ v = "RUNNING" => exec[r].pc = "start"
           /\ exec[r].pc # "none"
    BY <1>4 DEF ExecStart, ExecFail, Step
  <2>2. \A x \in Runs : x # r => runs'[x] = runs[x]
    BY <2>1 DEF TypeOK, DatabaseTypeOK
  <2>3. runs'[r].session = runs[r].session /\ runs'[r].status = v
    BY <2>1 DEF TypeOK, DatabaseTypeOK, RunRow
  <2>4. v = "RUNNING" => runs[r].status = "PENDING"
    BY <2>1 DEF LockDiscipline
  <2>5. runs[r].status # "NONE"
    BY <2>1 DEF RowsExist
  <2> QED
    BY <1>1, <1>2, <1>3, <2>1, <2>2, <2>3, <2>4, <2>5 DEF ConversationKept
<1>5. CASE UNCHANGED runs
  BY <1>1, <1>2, <1>3, <1>5 DEF ConversationKept
<1> QED
  BY <1>4, <1>5
     DEF ExecStep, ExecFault, ExecLoad, AgentReturns, AgentRaises, RefreshRun,
         RefreshSession, ReadSequence, SequenceConflict, Announce, Rollback,
         ReloadSession, ExecStartFails, ExecStartedFails, ExecRaises, ExecFailRaises

LEMMA FaultConverses ==
    ASSUME TypeOK, RowsExist, LockDiscipline, Fault, ~SubmitFault
    PROVE  ConversationKept
<1> USE DEF databaseVars, serviceVars
<1>1. CASE ServiceFault \/ ContainerFault \/ ReconcileFault
  <2>1. UNCHANGED <<runs, messages, exec>>
    BY <1>1 DEF ServiceFault, ContainerFault, ReconcileFault, DockerRunFails,
                HealthCleanupFails, CreateAborts, StopRuntimeFails, DeleteRuntimeFails, CallAborts,
                ContainerExits, ReconcileFails, ReconcileDeleteFails
  <2> QED
    BY <2>1, NothingSaid
<1>2. CASE RunFault
  <2>1. PICK r \in Runs : ExecFault(r)
    BY <1>2 DEF RunFault
  <2>2. ~ExecComplete(r)
    BY <2>1 DEF ExecFault, ExecStartFails, ExecStartedFails, ExecRaises, ExecFailRaises, ExecComplete, Step,
                ExecAt, TypeOK, ExecutorTypeOK
  <2> QED
    BY <2>1, <2>2, ExecConverses
<1>3. CASE Crash
  <2>1. \A r \in Runs : exec'[r].pc \in Unanswered => exec[r].pc \in Unanswered
    BY <1>3 DEF Crash, ExecAt, Unanswered
  <2> QED
    BY <1>3, <2>1 DEF Crash, ConversationKept
<1> QED
  BY <1>1, <1>2, <1>3 DEF Fault

-----------------------------------------------------------------------------
LEMMA ConversationInit == Init => ConversationInvariant
<1> SUFFICES ASSUME Init PROVE ConversationInvariant
  OBVIOUS
<1>1. \A s \in Sessions : messages[s] = <<>>
  BY DEF Init, DatabaseInit
<1>2. \A s \in Sessions : \A r, role : MessagesOf(s, r, role) = {}
  BY <1>1 DEF MessagesOf
<1>3. \A r \in Runs : runs[r].status = "NONE"
  BY DEF Init, DatabaseInit
<1> QED
  BY <1>2, <1>3 DEF ConversationInvariant, NoMessagesYet, ConversationMatchesRuns

LEMMA ConversationNext ==
    RunInvariant /\ ConversationInvariant /\ [Next]_vars => ConversationInvariant'
<1> SUFFICES ASSUME RunInvariant, ConversationInvariant, [Next]_vars
             PROVE  ConversationInvariant'
  OBVIOUS
<1> USE DEF RunInvariant
<1>1. CASE Arrive
  <2>1. UNCHANGED <<runs, messages, exec>>
    BY <1>1 DEF Arrive, CreateSession, StopRead, DeleteRead, databaseVars
  <2> QED
    BY <2>1, NothingSaid, ConversationKeptPreserves
<1>2. CASE SubmitRun \/ SubmitFault
  <2>1. PICK r \in Runs, s \in Sessions, k \in Keys \cup {Null} : RunAccepted(r, s, k)
    BY <1>2 DEF SubmitRun, SubmitFault, RunAccepted
  <2> QED
    BY <2>1, RunAcceptedConverses
<1>3. ASSUME NEW s \in Sessions, CreateStep(s) PROVE ConversationInvariant'
  <2>1. UNCHANGED <<runs, messages, exec>>
    BY <1>3 DEF CreateStep, DockerCreate, DockerStart, DockerStartNotFound, AwaitHealthy,
                HealthFails, BindRuntime, CreateFailed, databaseVars
  <2> QED
    BY <2>1, NothingSaid, ConversationKeptPreserves
<1>4. ASSUME NEW h \in Requests, CallStep(h) PROVE ConversationInvariant'
  BY <1>4, CallStepConverses, ConversationKeptPreserves
<1>5. ASSUME NEW r \in Runs, RunStep(r) PROVE ConversationInvariant'
  <2>1. CASE ExecComplete(r)
    BY <2>1, ExecCompleteConverses
  <2>2. CASE ~ExecComplete(r)
    BY <1>5, <2>2, ExecConverses, ConversationKeptPreserves DEF RunStep
  <2> QED
    BY <2>1, <2>2
<1>6. CASE ReconcileStep \/ TimePasses \/ \E s \in Sessions : HealthCheckPasses(s)
  <2>1. UNCHANGED <<runs, messages, exec>>
    BY <1>6 DEF ReconcileStep, ReconcileList, ReconcileLoad, ReconcileDelete,
                ReconcileCommit, TimePasses, Expire, HealthCheckPasses, BecomeHealthy,
                databaseVars
  <2> QED
    BY <2>1, NothingSaid, ConversationKeptPreserves
<1>7. CASE Fault /\ ~SubmitFault
  BY <1>7, FaultConverses, ConversationKeptPreserves
<1>8. CASE UNCHANGED vars
  BY <1>8, NothingSaid, ConversationKeptPreserves DEF vars, databaseVars
<1> QED
  BY <1>1, <1>2, <1>3, <1>4, <1>5, <1>6, <1>7, <1>8 DEF Next

(* A run's messages agree with its status in every reachable state: one    *)
(* question, at most one answer, and an answer exactly when it completed,  *)
(* whatever stops, deletes, failures and crashes its executor meets        *)
(* between reading the run and committing (run_executor.py, execute).      *)
THEOREM ConversationConsistent == Spec => []ConversationMatchesRuns
<1>1. Spec => []ConversationInvariant
  BY ConversationInit, ConversationNext, RunInvariantHolds, PTL DEF Spec
<1> QED
  BY <1>1, PTL DEF ConversationInvariant

-----------------------------------------------------------------------------
(***************************************************************************)
(* The events of a run.  Which ones it has follows from where its executor *)
(* is, and once the executor is gone from the status alone.                *)
(***************************************************************************)
Started == <<"RUN_STARTED">>
Answered == <<"RUN_STARTED", "ASSISTANT_MESSAGE">>
Finished == <<"RUN_STARTED", "ASSISTANT_MESSAGE", "RUN_COMPLETED">>

Told == {Started, Answered, Finished}

TimelineOf(r) ==
    /\ timeline[r] \in Timelines(runs[r].status)
    /\ exec[r].pc \in {"agent", "refresh_run", "refresh_session", "sequence", "commit"}
          => timeline[r] = Started
    /\ exec[r].pc = "announce" => runs[r].status = "COMPLETED" /\ timeline[r] = Answered
    /\ exec[r].pc \in {"rollback", "reload_session", "fail"} => timeline[r] \in Told

TimelineInv ==
    /\ timeline \in [Runs -> Seq(EventType)]
    /\ \A r \in Runs : TimelineOf(r)

LEMMA EventsTold ==
    /\ <<>> \in Seq(EventType)
    /\ Told \subseteq Seq(EventType)
    /\ <<>> \o <<"RUN_STARTED">> = Started
    /\ Started \o <<"ASSISTANT_MESSAGE">> = Answered
    /\ Append(Answered, "RUN_COMPLETED") = Finished
    /\ Answered \o <<"RUN_COMPLETED">> = Finished
    /\ \A t \in Told : /\ t \o <<"RUN_FAILED">> = Append(t, "RUN_FAILED")
                       /\ Append(t, "RUN_FAILED") \in Seq(EventType)
<1>1. <<>> \in Seq(EventType) /\ <<>> \o <<"RUN_STARTED">> = Started
  BY DEF Started
<1>2. Started \in Seq(EventType) /\ Len(Started) = 1 /\ Started[1] = "RUN_STARTED"
  BY DEF Started, EventType
<1>3. /\ Answered \in Seq(EventType)
      /\ Len(Answered) = 2
      /\ Answered[1] = "RUN_STARTED"
      /\ Answered[2] = "ASSISTANT_MESSAGE"
  BY DEF Answered, EventType
<1>4. /\ Finished \in Seq(EventType)
      /\ Len(Finished) = 3
      /\ Finished[1] = "RUN_STARTED"
      /\ Finished[2] = "ASSISTANT_MESSAGE"
      /\ Finished[3] = "RUN_COMPLETED"
  BY DEF Finished, EventType
<1>5. ASSUME NEW t \in Seq(EventType), NEW e \in EventType
      PROVE  /\ t \o <<e>> = Append(t, e)
             /\ Append(t, e) \in Seq(EventType)
             /\ Len(Append(t, e)) = Len(t) + 1
             /\ Append(t, e)[Len(t) + 1] = e
             /\ \A i \in 1..Len(t) : Append(t, e)[i] = t[i]
  OBVIOUS
<1>6. {"ASSISTANT_MESSAGE", "RUN_COMPLETED", "RUN_FAILED"} \subseteq EventType
  BY DEF EventType
<1>7. Started \o <<"ASSISTANT_MESSAGE">> = Answered
  <2> DEFINE told == Append(Started, "ASSISTANT_MESSAGE")
  <2>1. /\ told \in Seq(EventType)
        /\ Len(told) = 2
        /\ told[1] = "RUN_STARTED"
        /\ told[2] = "ASSISTANT_MESSAGE"
        /\ Started \o <<"ASSISTANT_MESSAGE">> = told
    <3>1. /\ told \in Seq(EventType)
          /\ Len(told) = Len(Started) + 1
          /\ told[Len(Started) + 1] = "ASSISTANT_MESSAGE"
          /\ \A i \in 1..Len(Started) : told[i] = Started[i]
          /\ Started \o <<"ASSISTANT_MESSAGE">> = told
      BY <1>2, <1>5, <1>6
    <3> HIDE DEF told
    <3> QED
      BY <1>2, <3>1
  <2> HIDE DEF told
  <2> QED
    BY <1>3, <2>1, SeqEqual
<1>8. Append(Answered, "RUN_COMPLETED") = Finished
  <2> DEFINE told == Append(Answered, "RUN_COMPLETED")
  <2>1. /\ told \in Seq(EventType)
        /\ Len(told) = 3
        /\ told[1] = "RUN_STARTED"
        /\ told[2] = "ASSISTANT_MESSAGE"
        /\ told[3] = "RUN_COMPLETED"
    <3>1. /\ told \in Seq(EventType)
          /\ Len(told) = Len(Answered) + 1
          /\ told[Len(Answered) + 1] = "RUN_COMPLETED"
          /\ \A i \in 1..Len(Answered) : told[i] = Answered[i]
      BY <1>3, <1>5, <1>6
    <3> HIDE DEF told
    <3> QED
      BY <1>3, <3>1
  <2> HIDE DEF told
  <2>2. told = Finished
    BY <1>4, <2>1, SeqEqual
  <2> QED
    BY <2>2 DEF told
<1>9. Answered \o <<"RUN_COMPLETED">> = Append(Answered, "RUN_COMPLETED")
  BY <1>3, <1>5, <1>6
<1> QED
  BY <1>1, <1>2, <1>3, <1>4, <1>5, <1>6, <1>7, <1>8, <1>9 DEF Told

LEMMA TimelinesByStatus ==
    /\ Timelines("NONE") = {<<>>} /\ Timelines("PENDING") = {<<>>}
    /\ Timelines("RUNNING") = {Started}
    /\ Timelines("CANCELLED") = {<<>>, Started}
    /\ Timelines("COMPLETED") = {Answered, Finished}
    /\ Timelines("FAILED") = {Append(t, "RUN_FAILED") : t \in Told}
<1>1. Append(Answered, "RUN_COMPLETED") = Finished
  BY EventsTold
<1>2. Timelines("NONE") = {<<>>} /\ Timelines("PENDING") = {<<>>}
  BY DEF Timelines
<1>3. Timelines("RUNNING") = {Started}
  BY DEF Timelines, Started
<1>4. Timelines("CANCELLED") = {<<>>, Started}
  BY DEF Timelines, Started
<1>5. Timelines("COMPLETED") = {Answered, Append(Answered, "RUN_COMPLETED")}
  BY DEF Timelines, Answered
<1>6. Timelines("FAILED")
         = {Append(t, "RUN_FAILED") :
               t \in {Started, Answered, Append(Answered, "RUN_COMPLETED")}}
  BY DEF Timelines, Started, Answered
<1> QED
  BY <1>1, <1>2, <1>3, <1>4, <1>5, <1>6 DEF Told

(* A step that appends nothing, and after which a run's row still tells    *)
(* what its events do.                                                     *)
LEMMA NothingAppended ==
    ASSUME TimelineInv, UNCHANGED timeline,
           \A r \in Runs :
              /\ \/ runs'[r].status = runs[r].status
                 \/ runs[r].status = "NONE" /\ runs'[r].status = "PENDING"
                 \/ runs[r].status \in ActiveStatus /\ runs'[r].status = "CANCELLED"
              /\ \/ exec'[r].pc = exec[r].pc
                 \/ exec'[r].pc \in {"none", "queued", "start", "done"}
    PROVE  TimelineInv'
<1> SUFFICES ASSUME NEW r \in Runs
             PROVE  TimelineOf(r)'
  BY DEF TimelineInv
<1>1. TimelineOf(r) /\ timeline'[r] = timeline[r]
  BY DEF TimelineInv
<1>2. timeline'[r] \in Timelines(runs'[r].status)
  BY <1>1, TimelinesByStatus DEF TimelineOf, ActiveStatus
<1>3. exec[r].pc = "announce" => runs'[r].status = "COMPLETED"
  BY <1>1 DEF TimelineOf, ActiveStatus
<1> QED
  BY <1>1, <1>2, <1>3 DEF TimelineOf

(* Steps that touch one run only. *)
LEMMA OneTimeline ==
    ASSUME TimelineInv, NEW r \in Runs, NEW t \in Seq(EventType),
           timeline' = [timeline EXCEPT ![r] = t],
           \A x \in Runs : x # r => runs'[x].status = runs[x].status /\ exec'[x].pc = exec[x].pc,
           TimelineOf(r)'
    PROVE  TimelineInv'
<1>1. ASSUME NEW x \in Runs, x # r
      PROVE  TimelineOf(x)'
  <2>1. TimelineOf(x) /\ timeline'[x] = timeline[x]
    BY <1>1 DEF TimelineInv
  <2> QED
    BY <1>1, <2>1 DEF TimelineOf
<1>2. timeline' \in [Runs -> Seq(EventType)]
  BY DEF TimelineInv
<1> QED
  BY <1>1, <1>2 DEF TimelineInv

LEMMA ExecutorTimeline ==
    ASSUME RunInvariant, TimelineInv, NEW r \in Runs, ExecutorAppends(r)
    PROVE  TimelineInv'
<1> DEFINE told == timeline[r] \o Appended(r)
<1>1. ExecStep(r) /\ timeline' = [timeline EXCEPT ![r] = told]
  BY DEF ExecutorAppends, RunStep, Appends
<1>2. runs \in [Runs -> RunRow] /\ exec \in [Runs -> Exec] /\ timeline[r] \in Seq(EventType)
  BY DEF RunInvariant, TypeOK, DatabaseTypeOK, ExecutorTypeOK, TimelineInv
<1>3. \A x \in Runs : x # r => runs'[x].status = runs[x].status /\ exec'[x].pc = exec[x].pc
  BY <1>1, <1>2
  DEF ExecStep, ExecLoad, ExecStart, AgentReturns, AgentRaises, RefreshRun, RefreshSession,
      ReadSequence, ExecComplete, SequenceConflict, Announce, Rollback, ReloadSession, ExecFail,
      Step, databaseVars
<1>4. TimelineOf(r)
  BY DEF TimelineInv
<1>5. timeline[r] \o <<>> = timeline[r]
  BY <1>2
<1>6. timeline'[r] = told
  BY <1>1 DEF TimelineInv
<1> HIDE DEF told
<1>7. ASSUME told \in Seq(EventType), TimelineOf(r)'
      PROVE  TimelineInv'
  BY <1>1, <1>3, <1>7, OneTimeline
<1>8. CASE ExecLoad(r)
  <2>1. /\ exec'[r].pc \in {"start", "done"}
        /\ exec[r].pc = "queued"
        /\ runs' = runs
    BY <1>2, <1>8 DEF ExecLoad, ExecAt
  <2>2. told = timeline[r]
    BY <1>5, <2>1 DEF told, Appended
  <2> QED
    BY <1>2, <1>4, <1>6, <1>7, <2>1, <2>2 DEF TimelineOf
<1>9. CASE ExecStart(r)
  <2>1. /\ exec'[r].pc = "agent"
        /\ exec[r].pc = "start"
        /\ runs'[r].status = "RUNNING"
    BY <1>2, <1>9 DEF ExecStart, Step, ExecAt, RunRow
  <2>2. timeline[r] = <<>>
    BY <1>4, <2>1, TimelinesByStatus DEF TimelineOf, RunInvariant, LockDiscipline
  <2>3. told = Started
    BY <2>1, <2>2, EventsTold DEF told, Appended
  <2> QED
    BY <1>6, <1>7, <2>1, <2>3, TimelinesByStatus, EventsTold DEF TimelineOf, Told
<1>10. CASE AgentReturns(r) \/ AgentRaises(r) \/ RefreshRun(r) \/ RefreshSession(r)
            \/ ReadSequence(r) \/ SequenceConflict(r)
  <2>1. /\ exec[r].pc \in {"agent", "refresh_run", "refresh_session", "sequence", "commit"}
        /\ exec'[r].pc \in {"refresh_run", "refresh_session", "sequence", "commit",
                            "rollback", "done"}
        /\ runs' = runs
    <3>1. CASE AgentReturns(r) \/ AgentRaises(r) \/ RefreshRun(r) \/ SequenceConflict(r)
      <4>1. PICK from \in {"agent", "refresh_run", "commit"},
                 to \in {"refresh_run", "rollback", "done", "refresh_session"} :
               Step(r, from, to)
        BY <3>1 DEF AgentReturns, AgentRaises, RefreshRun, SequenceConflict
      <4>2. exec'[r].pc = to /\ exec[r].pc = from
        BY <1>2, <4>1 DEF Step, ExecAt
      <4> QED
        BY <3>1, <4>2
        DEF AgentReturns, AgentRaises, RefreshRun, SequenceConflict, databaseVars
    <3>2. CASE RefreshSession(r) \/ ReadSequence(r)
      BY <1>2, <3>2, ZenonT(30) DEF RefreshSession, ReadSequence, databaseVars, Exec
    <3> QED
      BY <1>10, <3>1, <3>2
  <2>2. told = timeline[r]
    BY <1>5, <2>1 DEF told, Appended
  <2> QED
    BY <1>2, <1>4, <1>6, <1>7, <2>1, <2>2 DEF TimelineOf, Told
<1>11. CASE ExecComplete(r)
  <2>1. /\ exec[r].pc = "commit"
        /\ exec'[r].pc = "announce"
        /\ runs'[r].status = "COMPLETED"
    BY <1>2, <1>11 DEF ExecComplete, Step, ExecAt, RunRow
  <2>2. told = Answered
    BY <1>4, <2>1, EventsTold DEF told, Appended, TimelineOf
  <2> QED
    BY <1>6, <1>7, <2>1, <2>2, TimelinesByStatus, EventsTold DEF TimelineOf, Told
<1>12. CASE Announce(r)
  <2>1. exec[r].pc = "announce" /\ exec'[r].pc = "done" /\ runs' = runs
    BY <1>2, <1>12 DEF Announce, Step, ExecAt, databaseVars
  <2>2. told = Finished /\ runs[r].status = "COMPLETED"
    BY <1>4, <2>1, EventsTold DEF told, Appended, TimelineOf
  <2> QED
    BY <1>6, <1>7, <2>1, <2>2, TimelinesByStatus, EventsTold DEF TimelineOf, Told
<1>13. CASE Rollback(r) \/ ReloadSession(r)
  <2>1. /\ exec[r].pc \in {"rollback", "reload_session"}
        /\ exec'[r].pc \in {"reload_session", "fail", "done"}
        /\ runs' = runs
    <3>1. CASE Rollback(r)
      <4>1. PICK to \in {"done", "reload_session"} : Step(r, "rollback", to)
        BY <3>1 DEF Rollback
      <4>2. exec'[r].pc = to /\ exec[r].pc = "rollback"
        BY <1>2, <4>1 DEF Step, ExecAt
      <4> QED
        BY <3>1, <4>2 DEF Rollback, databaseVars
    <3>2. CASE ReloadSession(r)
      BY <1>2, <3>2 DEF ReloadSession, databaseVars, Exec
    <3> QED
      BY <1>13, <3>1, <3>2
  <2>2. told = timeline[r]
    BY <1>5, <2>1 DEF told, Appended
  <2> QED
    BY <1>2, <1>4, <1>6, <1>7, <2>1, <2>2 DEF TimelineOf
<1>14. CASE ExecFail(r)
  <2>1. exec[r].pc = "fail" /\ exec'[r].pc = "done" /\ runs'[r].status = "FAILED"
    BY <1>2, <1>14 DEF ExecFail, Step, ExecAt, RunRow
  <2>2. timeline[r] \in Told /\ told = timeline[r] \o <<"RUN_FAILED">>
    BY <1>4, <2>1 DEF told, Appended, TimelineOf
  <2>3. told = Append(timeline[r], "RUN_FAILED") /\ told \in Seq(EventType)
    BY <2>2, EventsTold
  <2> QED
    BY <1>6, <1>7, <2>1, <2>2, <2>3, TimelinesByStatus DEF TimelineOf
<1> QED
  BY <1>1, <1>8, <1>9, <1>10, <1>11, <1>12, <1>13, <1>14 DEF ExecStep

(* The database's refusals leave the row as it is, and every statement     *)
(* that is rolled back takes its event along.                              *)
LEMMA RunFaultTimeline ==
    ASSUME RunInvariant, TimelineInv, NEW r \in Runs, ExecFault(r),
           \/ UNCHANGED timeline
           \/ /\ exec[r].pc = "announce" /\ exec'[r].pc = "rollback"
              /\ Appends(r, <<"RUN_COMPLETED">>)
    PROVE  TimelineInv'
<1>1. runs \in [Runs -> RunRow] /\ exec \in [Runs -> Exec] /\ TimelineOf(r)
      /\ timeline \in [Runs -> Seq(EventType)]
  BY DEF RunInvariant, TypeOK, DatabaseTypeOK, ExecutorTypeOK, TimelineInv
<1>2. runs' = runs
  BY DEF ExecFault, ExecStartFails, ExecStartedFails, ExecRaises, ExecFailRaises, databaseVars
<1>3. \A x \in Runs : x # r => exec'[x].pc = exec[x].pc
  BY <1>1 DEF ExecFault, ExecStartFails, ExecStartedFails, ExecRaises, ExecFailRaises, Step
<1>4. \/ exec'[r].pc = "done"
      \/ /\ exec[r].pc \in {"refresh_run", "refresh_session", "sequence", "commit", "announce"}
         /\ exec'[r].pc = "rollback"
  BY <1>1
  DEF ExecFault, ExecStartFails, ExecStartedFails, ExecRaises, ExecFailRaises, Step, ExecAt
<1>5. CASE UNCHANGED timeline
  <2>1. TimelineOf(r)'
    BY <1>1, <1>2, <1>4, <1>5 DEF TimelineOf, Told
  <2>2. timeline' = [timeline EXCEPT ![r] = timeline[r]] /\ timeline[r] \in Seq(EventType)
    BY <1>1, <1>5
  <2> QED
    BY <1>2, <1>3, <2>1, <2>2, OneTimeline
<1>6. CASE exec[r].pc = "announce" /\ exec'[r].pc = "rollback" /\ Appends(r, <<"RUN_COMPLETED">>)
  <2>1. timeline' = [timeline EXCEPT ![r] = Finished] /\ runs[r].status = "COMPLETED"
    BY <1>1, <1>6, EventsTold DEF TimelineOf, Appends
  <2>2. timeline'[r] = Finished
    BY <1>1, <2>1
  <2>3. TimelineOf(r)' /\ Finished \in Seq(EventType)
    BY <1>2, <1>6, <2>1, <2>2, TimelinesByStatus, EventsTold DEF TimelineOf, Told
  <2> QED
    BY <1>2, <1>3, <2>1, <2>3, OneTimeline
<1> QED
  BY <1>5, <1>6

LEMMA RunAcceptedTimeline ==
    ASSUME RunInvariant, TimelineInv, UNCHANGED timeline,
           NEW r \in Runs, NEW s \in Sessions, NEW k \in Keys \cup {Null}, RunAccepted(r, s, k)
    PROVE  TimelineInv'
<1>1. runs \in [Runs -> RunRow] /\ exec \in [Runs -> Exec]
  BY DEF RunInvariant, TypeOK, DatabaseTypeOK, ExecutorTypeOK
<1>2. \A x \in Runs : \/ runs'[x].status = runs[x].status
                      \/ runs[x].status = "NONE" /\ runs'[x].status = "PENDING"
  BY <1>1 DEF RunAccepted, CreateRun
<1>3. \A x \in Runs : exec'[x].pc = exec[x].pc \/ exec'[x].pc = "queued"
  BY <1>1 DEF RunAccepted, Schedule, Step, ExecAt
<1> QED
  BY <1>2, <1>3, NothingAppended

LEMMA TimelineInit == RunEventsInit => TimelineInv
<1> SUFFICES ASSUME RunEventsInit, NEW r \in Runs
             PROVE  TimelineOf(r) /\ timeline \in [Runs -> Seq(EventType)]
  BY DEF TimelineInv, RunEventsInit
<1>1. runs[r].status = "NONE" /\ exec[r].pc = "none" /\ timeline[r] = <<>>
  BY DEF RunEventsInit, Init, DatabaseInit, ExecutorInit, ExecAt
<1> QED
  BY <1>1, TimelinesByStatus, EventsTold DEF TimelineOf, RunEventsInit

LEMMA TimelineNext ==
    RunInvariant /\ TimelineInv /\ [RunEventsNext]_<<vars, timeline>> => TimelineInv'
<1> SUFFICES ASSUME RunInvariant, TimelineInv, [RunEventsNext]_<<vars, timeline>>
             PROVE  TimelineInv'
  OBVIOUS
<1>1. ASSUME UNCHANGED <<runs, exec, timeline>>
      PROVE  TimelineInv'
  BY <1>1, NothingAppended
<1>2. ASSUME NEW r \in Runs, ExecutorAppends(r)
      PROVE  TimelineInv'
  BY <1>2, ExecutorTimeline
<1>3. CASE FaultAppends
  <2>1. CASE SubmitFault
    <3>1. PICK r \in Runs, s \in Sessions, k \in Keys \cup {Null} : RunAccepted(r, s, k)
      BY <2>1 DEF SubmitFault, RunAccepted
    <3>2. UNCHANGED exec
      BY <2>1 DEF SubmitFault
    <3>3. UNCHANGED timeline
      BY <1>3, <3>2 DEF FaultAppends
    <3> QED
      BY <3>1, <3>3, RunAcceptedTimeline
  <2>2. CASE ServiceFault \/ ContainerFault \/ ReconcileFault
    <3>1. UNCHANGED <<runs, exec>>
      BY <2>2 DEF ServiceFault, ContainerFault, ReconcileFault, DockerRunFails,
                  HealthCleanupFails, CreateAborts, StopRuntimeFails, DeleteRuntimeFails,
                  CallAborts, ContainerExits, ReconcileFails, ReconcileDeleteFails,
                  databaseVars, serviceVars
    <3>2. UNCHANGED timeline
      BY <1>3, <3>1 DEF FaultAppends
    <3> QED
      BY <1>1, <3>1, <3>2
  <2>3. CASE RunFault
    <3>1. PICK r \in Runs : ExecFault(r)
      BY <2>3 DEF RunFault
    <3>2. \A x \in Runs : x # r => exec'[x].pc = exec[x].pc
      BY <3>1 DEF ExecFault, ExecStartFails, ExecStartedFails, ExecRaises, ExecFailRaises, Step,
                  RunInvariant, TypeOK, ExecutorTypeOK
    <3>3. \/ UNCHANGED timeline
          \/ /\ exec[r].pc = "announce" /\ exec'[r].pc = "rollback"
             /\ Appends(r, <<"RUN_COMPLETED">>)
      BY <1>3, <3>2 DEF FaultAppends
    <3> QED
      BY <3>1, <3>3, RunFaultTimeline
  <2>4. CASE Crash
    <3>1. \A r \in Runs : exec'[r].pc \in {"none", "done"}
      BY <2>4 DEF Crash, ExecAt
    <3>2. UNCHANGED runs /\ UNCHANGED timeline
      BY <1>3, <2>4, <3>1 DEF FaultAppends, Crash
    <3> QED
      BY <3>1, <3>2, NothingAppended
  <2> QED
    BY <1>3, <2>1, <2>2, <2>3, <2>4 DEF FaultAppends, Fault
<1>4. CASE NobodyAppends
  <2>1. UNCHANGED timeline
    BY <1>4 DEF NobodyAppends
  <2>2. CASE Arrive
    BY <1>1, <2>1, <2>2 DEF Arrive, CreateSession, StopRead, DeleteRead, databaseVars
  <2>3. CASE SubmitRun
    <3>1. PICK r \in Runs, s \in Sessions, k \in Keys \cup {Null} : RunAccepted(r, s, k)
      BY <2>3 DEF SubmitRun, RunAccepted
    <3> QED
      BY <2>1, <3>1, RunAcceptedTimeline
  <2>4. ASSUME NEW s \in Sessions, CreateStep(s)
        PROVE  TimelineInv'
    BY <1>1, <2>1, <2>4 DEF CreateStep, DockerCreate, DockerStart, DockerStartNotFound,
                AwaitHealthy, HealthFails, BindRuntime, CreateFailed, databaseVars
  <2>5. ASSUME NEW h \in Requests, CallStep(h)
        PROVE  TimelineInv'
    <3>1. UNCHANGED exec
      BY <2>5 DEF CallStep
    <3>2. CASE StopCommit(h) \/ DeleteCommit(h)
      <4>1. \A r \in call[h].locked : runs[r].status \in ActiveStatus
        BY <2>5 DEF RunInvariant, LockDiscipline
      <4>2. \A r \in Runs : \/ runs'[r].status = runs[r].status
                            \/ /\ runs[r].status \in ActiveStatus
                               /\ runs'[r].status = "CANCELLED"
        BY <3>2, <4>1 DEF StopCommit, DeleteCommit, CommitCancelled, RunInvariant, TypeOK,
                          DatabaseTypeOK, RunRow
      <4> QED
        BY <2>1, <3>1, <4>2, NothingAppended
    <3>3. CASE ~(StopCommit(h) \/ DeleteCommit(h))
      <4>1. UNCHANGED runs
        BY <2>5, <3>3 DEF CallStep, StopMark, StopRuntime, StopFailed, StopCancel, DeleteRuntime,
                          DeleteCancel, CancelRuns, databaseVars
      <4> QED
        BY <1>1, <2>1, <3>1, <4>1
    <3> QED
      BY <3>2, <3>3
  <2>6. CASE ReconcileStep \/ TimePasses \/ \E s \in Sessions : HealthCheckPasses(s)
    BY <1>1, <2>1, <2>6 DEF ReconcileStep, ReconcileList, ReconcileLoad, ReconcileDelete,
                ReconcileCommit, TimePasses, Expire, HealthCheckPasses, BecomeHealthy,
                databaseVars
  <2> QED
    BY <1>4, <2>2, <2>3, <2>4, <2>5, <2>6 DEF NobodyAppends
<1>5. CASE UNCHANGED <<vars, timeline>>
  BY <1>1, <1>5 DEF vars, databaseVars
<1> QED
  BY <1>2, <1>3, <1>4, <1>5 DEF RunEventsNext

(* With its events a control plane's step is still a step of it. *)
LEMMA RunEventsStep == [RunEventsNext]_<<vars, timeline>> => [Next]_vars
<1>1. ASSUME NEW r \in Runs, ExecutorAppends(r)
      PROVE  Next
  BY <1>1 DEF ExecutorAppends, Next
<1>2. FaultAppends \/ NobodyAppends => Next
  BY DEF FaultAppends, NobodyAppends, Next
<1> QED
  BY <1>1, <1>2 DEF RunEventsNext

(* The events only observe: whoever leaves them out sees the control       *)
(* plane's own behaviour, of which everything proved of Spec holds.        *)
THEOREM EventsOnlyObserve == RunEventsSpec => Spec
<1>1. RunEventsInit => Init
  BY DEF RunEventsInit
<1> QED
  BY <1>1, RunEventsStep, PTL DEF RunEventsSpec, Spec

(* The log and the row of a run agree at any time (run_executor.py): a     *)
(* failure is told if and only if the row says FAILED, an answer only of a *)
(* run that completed, nothing twice and nothing out of order, however     *)
(* appends fail, stops overtake the executor and the process crashes.      *)
THEOREM EventsTellTheRow == RunEventsSpec => []TimelineMatchesRow
<1>1. RunEventsSpec => []RunInvariant
  BY EventsOnlyObserve, RunInvariantHolds, PTL
<1>2. TimelineInv => TimelineMatchesRow
  BY DEF TimelineInv, TimelineOf, TimelineMatchesRow
<1> QED
  BY <1>1, <1>2, TimelineInit, TimelineNext, PTL DEF RunEventsSpec
=============================================================================
