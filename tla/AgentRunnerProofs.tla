-------------------------- MODULE AgentRunnerProofs --------------------------
(***************************************************************************)
(* The bound of the callback queue, the order of a run's events and the    *)
(* release of the keys its tools press, for any size of the queue, of the  *)
(* responses and of the turn loop.                                         *)
(***************************************************************************)
EXTENDS AgentRunner, SequenceTheorems, FiniteSetTheorems, TLAPS

RunRecord ==
    [pc : {"start", "request", "tool", "command", "join", "ended", "concluded"},
     iteration : 0..MaxIterations, response : Responses,
     next : 1..MaxBlocks + 1, results : 0..MaxBlocks,
     outcome : {"none", "return", "raise"}, overflowed : BOOLEAN]

(* A run that may ask again has turns left, and the next item of its work  *)
(* is one of the response's or the end.                                    *)
TurnsLeft ==
    run.pc \in {"start", "request", "tool", "command"} => run.iteration < MaxIterations

InPlace ==
    run.pc \in {"tool", "command"} => run.next <= Len(Work(run.response)) + 1

TypeInv == TypeOK /\ TurnsLeft /\ InPlace

LEMMA MinOfTwo ==
    ASSUME NEW a \in Nat, NEW b \in Nat
    PROVE  /\ Min({a, b}) \in {a, b}
           /\ Min({a, b}) <= a
           /\ Min({a, b}) <= b
<1>1. \E x \in {a, b} : \A y \in {a, b} : x <= y
  OBVIOUS
<1> QED
  BY <1>1 DEF Min

(* What the work of a response is made of. *)
LEMMA ResponseWork ==
    ASSUME AgentAssumption, NEW response \in Responses
    PROVE  /\ Work(response) \in Seq({"text", "tool_use", "proposal"})
           /\ Len(Work(response)) \in 0..MaxBlocks
           /\ Uses(response) \in 0..MaxBlocks
<1>1. PICK n \in 0..MaxBlocks :
          response \in [blocks : [1..n -> {"text", "tool_use"}], proposals : 0..MaxBlocks - n]
  BY DEF Responses
<1> DEFINE Kinds == {"text", "tool_use", "proposal"}
           proposed == [i \in 1..response.proposals |-> "proposal"]
           calls == {i \in DOMAIN response.blocks : response.blocks[i] = "tool_use"}
<1>2. response.blocks \in Seq(Kinds) /\ Len(response.blocks) = n
  BY <1>1 DEF AgentAssumption
<1>3. proposed \in Seq(Kinds) /\ Len(proposed) = response.proposals
  BY <1>1 DEF AgentAssumption
<1>4. Work(response) \in Seq(Kinds) /\ Len(Work(response)) = n + response.proposals
  <2> HIDE DEF proposed, Kinds
  <2>1. /\ response.blocks \o proposed \in Seq(Kinds)
        /\ Len(response.blocks \o proposed) = Len(response.blocks) + Len(proposed)
    BY <1>2, <1>3, ConcatProperties
  <2> QED
    BY <2>1, <1>2, <1>3 DEF Work, proposed
<1>5. Uses(response) \in 0..n
  <2>1. IsFiniteSet(1..n) /\ Cardinality(1..n) = n
    BY <1>1, FS_Interval DEF AgentAssumption
  <2>2. calls \in SUBSET (1..n)
    BY <1>1
  <2>3. IsFiniteSet(calls) /\ Cardinality(calls) <= n
    BY <2>1, <2>2, FS_Subset
  <2> QED
    BY <2>3, FS_CardinalityType, <1>1 DEF Uses, AgentAssumption
<1> QED
  BY <1>1, <1>4, <1>5 DEF AgentAssumption

-----------------------------------------------------------------------------
LEMMA NextRequestType ==
    ASSUME AgentAssumption, run \in RunRecord, run.iteration < MaxIterations,
           NEW response \in Responses
    PROVE  /\ NextRequest(response) \in RunRecord
           /\ NextRequest(response).pc = "request"
                 => NextRequest(response).iteration < MaxIterations
           /\ NextRequest(response).pc \in {"request", "join"}
           /\ NextRequest(response).pc = "request"
                 => NextRequest(response).outcome = run.outcome
           /\ NextRequest(response).overflowed = run.overflowed
<1>1. Uses(response) \in 0..MaxBlocks
  BY ResponseWork
<1>2. run.iteration + 1 \in 0..MaxIterations
  BY DEF RunRecord, AgentAssumption
<1> DEFINE again == [run EXCEPT !.pc = "request", !.iteration = @ + 1, !.response = response,
                                !.results = IF response.proposals > 0 THEN 0
                                            ELSE Uses(response)]
<1>3. /\ again \in RunRecord
      /\ again.pc = "request"
      /\ again.outcome = run.outcome
      /\ again.overflowed = run.overflowed
  <2> DEFINE results == IF response.proposals > 0 THEN 0 ELSE Uses(response)
  <2>1. results \in 0..MaxBlocks
    BY <1>1 DEF AgentAssumption
  <2> HIDE DEF results
  <2>2. [run EXCEPT !.pc = "request", !.iteration = @ + 1, !.response = response,
                    !.results = results] \in RunRecord
    BY <2>1, <1>2 DEF RunRecord
  <2> QED
    BY <2>2 DEF RunRecord, results
<1>4. \A outcome \in {"return", "raise"} :
          /\ Leave(again, outcome) \in RunRecord
          /\ Leave(again, outcome).pc = "join"
          /\ Leave(again, outcome).overflowed = run.overflowed
  <2> HIDE DEF again
  <2> QED
    BY <1>3 DEF Leave, RunRecord
<1>5. again.iteration \in 0..MaxIterations
  <2> HIDE DEF again
  <2> QED
    BY <1>3 DEF RunRecord
<1>6. \/ NextRequest(response) = again /\ again.iteration # MaxIterations
      \/ NextRequest(response) \in {Leave(again, "return"), Leave(again, "raise")}
  BY DEF NextRequest
<1> HIDE DEF again
<1> QED
  BY <1>3, <1>4, <1>5, <1>6 DEF AgentAssumption

(* Whatever is put, the queue keeps its bound; the run goes on as planned  *)
(* or is ended by the full queue.                                          *)
LEMMA PutAndGoType ==
    ASSUME AgentAssumption, TypeOK, NEW n \in Nat, NEW next \in RunRecord, PutAndGo(n, next)
    PROVE  /\ run' \in RunRecord
           /\ \/ run' = next
              \/ run'.pc = "ended" /\ run'.overflowed /\ run'.outcome = "raise"
           /\ made' \in Nat
           /\ made <= made'
           /\ queue' \in Seq(0..made')
           /\ Len(queue') <= QueueSize
<1> DEFINE put == Min({n, Room})
<1>1. Room \in Nat
  BY DEF TypeOK, Room, AgentAssumption
<1>2. /\ put \in Nat
      /\ put <= n
      /\ put <= Room
      /\ n <= Room => put = n
  <2>1. put \in {n, Room} /\ put <= n /\ put <= Room
    BY <1>1, MinOfTwo
  <2> HIDE DEF put
  <2> QED
    BY <1>1, <2>1
<1>3. made \in Nat /\ queue \in Seq(0..made) /\ Len(queue) <= QueueSize
  BY DEF TypeOK
<1>4. made' = made + put
  BY DEF PutAndGo
<1> DEFINE Items == 0..made'
<1>5. /\ made' \in Nat
      /\ made <= made'
      /\ 0..made \subseteq Items
      /\ Stop \in Items
  <2> HIDE DEF put
  <2> QED
    BY <1>2, <1>3, <1>4 DEF Stop
<1>6. queue \in Seq(Items)
  <2> HIDE DEF Items
  <2> QED
    BY <1>3, <1>5, SeqMonotonic
<1>7. ASSUME NEW k \in Nat, k <= put
      PROVE  /\ queue \o Callbacks(k) \in Seq(Items)
             /\ Len(queue \o Callbacks(k)) = Len(queue) + k
  <2>1. \A i \in 1..k : made + i \in Items
    <3> HIDE DEF put
    <3> QED
      BY <1>2, <1>3, <1>4, <1>7
  <2> HIDE DEF Items
  <2>2. Callbacks(k) \in Seq(Items) /\ Len(Callbacks(k)) = k
    BY <2>1 DEF Callbacks
  <2> QED
    BY <1>6, <2>2, ConcatProperties
<1>8. Len(queue) \in Nat /\ QueueSize \in Nat /\ Room = QueueSize - Len(queue)
  BY <1>3 DEF Room, AgentAssumption
<1> HIDE DEF put, Items
<1>9. CASE Closing(next) /\ n < Room
  <2>1. queue' = queue \o Callbacks(n) \o <<Stop>> /\ run' = next
    BY <1>9 DEF PutAndGo
  <2>2. n <= put
    BY <1>1, <1>2, <1>9
  <2> DEFINE filled == queue \o Callbacks(n)
  <2>3. filled \in Seq(Items) /\ Len(filled) = Len(queue) + n
    BY <1>7, <2>2
  <2>4. <<Stop>> \in Seq(Items) /\ Len(<<Stop>>) = 1
    BY <1>5
  <2> HIDE DEF filled
  <2>5. /\ filled \o <<Stop>> \in Seq(Items)
        /\ Len(filled \o <<Stop>>) = Len(queue) + n + 1
    BY <2>3, <2>4, ConcatProperties
  <2> QED
    BY <1>5, <1>8, <1>9, <2>1, <2>5 DEF Items, filled
<1>10. CASE ~Closing(next) /\ n <= Room
  <2>1. queue' = queue \o Callbacks(n) \o <<>> /\ run' = next
    BY <1>10 DEF PutAndGo
  <2>2. n <= put
    BY <1>1, <1>2, <1>10
  <2>3. queue' \in Seq(Items) /\ Len(queue') = Len(queue) + n
    BY <1>7, <2>1, <2>2, ConcatEmptySeq
  <2> QED
    BY <1>5, <1>8, <1>10, <2>1, <2>3 DEF Items
<1>11. CASE ~ (IF Closing(next) THEN n < Room ELSE n <= Room)
  <2>1. /\ queue' = queue \o Callbacks(put)
        /\ run' = [run EXCEPT !.pc = "ended", !.outcome = "raise", !.overflowed = TRUE]
    BY <1>11 DEF PutAndGo, put
  <2>2. queue' \in Seq(Items) /\ Len(queue') = Len(queue) + put
    BY <1>2, <1>7, <2>1
  <2>3. /\ run' \in RunRecord
        /\ run'.pc = "ended"
        /\ run'.overflowed
        /\ run'.outcome = "raise"
    BY <2>1 DEF TypeOK, RunRecord
  <2> QED
    BY <1>2, <1>5, <1>8, <2>2, <2>3 DEF Items
<1> QED
  BY <1>9, <1>10, <1>11

(* An advance puts callbacks and goes on to a request, a tool or close. *)
LEMMA AdvancePuts ==
    ASSUME AgentAssumption, TypeOK, run.iteration < MaxIterations,
           NEW response \in Responses, NEW i \in 1..MaxBlocks + 1, NEW n \in Nat,
           i <= Len(Work(response)) + 1,
           Advance(response, i, n)
    PROVE  \E m \in Nat, next \in RunRecord :
              /\ PutAndGo(m, next)
              /\ next.pc \in {"request", "tool", "join"}
              /\ next.pc \in {"request", "tool"} => next.iteration < MaxIterations
              /\ next.pc \in {"request", "tool"} => next.outcome = run.outcome
              /\ next.pc = "tool" => next.next <= Len(Work(next.response)) + 1
<1>1. run \in RunRecord
  BY DEF TypeOK, RunRecord
<1>2. Len(Work(response)) \in 0..MaxBlocks
  BY ResponseWork
<1>3. CASE PutAndGo(n + Len(Work(response)) + 1 - i, NextRequest(response))
  <2>1. n + Len(Work(response)) + 1 - i \in Nat
    BY <1>2 DEF AgentAssumption
  <2>2. /\ NextRequest(response) \in RunRecord
        /\ NextRequest(response).pc = "request"
              => NextRequest(response).iteration < MaxIterations
        /\ NextRequest(response).pc \in {"request", "join"}
        /\ NextRequest(response).pc = "request"
              => NextRequest(response).outcome = run.outcome
    BY <1>1, NextRequestType
  <2> QED
    BY <1>3, <2>1, <2>2
<1>4. CASE \E j \in i..Len(Work(response)) :
              PutAndGo(n + j + 1 - i, [run EXCEPT !.pc = "tool", !.response = response,
                                                  !.next = j + 1])
  <2> PICK j \in i..Len(Work(response)) :
              PutAndGo(n + j + 1 - i, [run EXCEPT !.pc = "tool", !.response = response,
                                                  !.next = j + 1])
    BY <1>4
  <2> DEFINE calling == [run EXCEPT !.pc = "tool", !.response = response, !.next = j + 1]
  <2>1. n + j + 1 - i \in Nat
    BY <1>2 DEF AgentAssumption
  <2>2. j + 1 \in 1..MaxBlocks + 1
    BY <1>2 DEF AgentAssumption
  <2>3. /\ calling \in RunRecord
        /\ calling.pc = "tool"
        /\ calling.next = j + 1
        /\ calling.response = response
        /\ calling.outcome = run.outcome
        /\ calling.iteration < MaxIterations
    BY <1>1, <2>2 DEF RunRecord
  <2>4. calling.next <= Len(Work(calling.response)) + 1
    BY <1>2, <2>3
  <2>5. PutAndGo(n + j + 1 - i, calling)
    OBVIOUS
  <2> HIDE DEF calling
  <2> QED
    BY <2>1, <2>3, <2>4, <2>5
<1> QED
  BY <1>3, <1>4 DEF Advance

LEMMA AdvanceType ==
    ASSUME AgentAssumption, TypeOK, run.iteration < MaxIterations,
           NEW response \in Responses, NEW i \in 1..MaxBlocks + 1, NEW n \in Nat,
           i <= Len(Work(response)) + 1,
           Advance(response, i, n)
    PROVE  /\ run' \in RunRecord
           /\ TurnsLeft'
           /\ InPlace'
           /\ made' \in Nat
           /\ made <= made'
           /\ queue' \in Seq(0..made')
           /\ Len(queue') <= QueueSize
BY AdvancePuts, PutAndGoType DEF TurnsLeft, InPlace

-----------------------------------------------------------------------------
(* The tools' own steps keep the tools' types. *)
LEMMA CommandsType ==
    ASSUME NEW action \in Actions
    PROVE  Commands(action) \in Seq(CommandNames)
<1>1. Capture \in Seq(CommandNames)
  BY DEF Capture, CommandNames
<1>2. /\ <<"xdotool">> \in Seq(CommandNames)
      /\ <<"xdotool", "xdotool">> \in Seq(CommandNames)
      /\ <<"xdotool", "click">> \in Seq(CommandNames)
      /\ <<"xdotool", "press", "click", "release">> \in Seq(CommandNames)
      /\ <<"xdotool", "press_anyway", "click", "release_anyway">> \in Seq(CommandNames)
      /\ <<"press", "release_anyway">> \in Seq(CommandNames)
      /\ <<"bash">> \in Seq(CommandNames)
      /\ <<>> \in Seq(CommandNames)
  BY DEF CommandNames
<1> QED
  BY <1>1, <1>2, ConcatProperties DEF Commands, Actions

LEMMA CommandStepType ==
    ASSUME ToolsTypeOK, CommandSucceeds \/ CommandFails \/ CommandRaises
    PROVE  ToolsTypeOK'
<1>1. /\ Head(tool.commands) \in CommandNames
      /\ Tail(tool.commands) \in Seq(CommandNames)
  BY HeadTailProperties DEF ToolsTypeOK, CommandSucceeds, CommandFails, CommandRaises
<1>2. ASSUME NEW command \in CommandNames
      PROVE  Owed(command) \in BOOLEAN
  BY DEF Owed, ToolsTypeOK
<1>3. ASSUME NEW command \in CommandNames, NEW rest \in Seq(CommandNames)
      PROVE  AfterFailure(command, rest) \in Seq(CommandNames)
  <2>1. ReleaseOnly(rest) \in Seq(CommandNames)
    <3>1. CASE rest # <<>> /\ Head(rest) \in {"release", "release_anyway"}
      BY <3>1 DEF ReleaseOnly, CommandNames
    <3>2. CASE ~ (rest # <<>> /\ Head(rest) \in {"release", "release_anyway"})
      BY <3>2 DEF ReleaseOnly
    <3> QED
      BY <3>1, <3>2
  <2> QED
    BY <2>1 DEF AfterFailure
<1>4. CASE CommandSucceeds
  BY <1>1, <1>2, <1>4 DEF CommandSucceeds, ToolsTypeOK
<1>5. CASE CommandFails
  BY <1>1, <1>2, <1>3, <1>5 DEF CommandFails, ToolsTypeOK
<1>6. CASE CommandRaises
  BY <1>1, <1>2, <1>6 DEF CommandRaises, ToolsTypeOK, NoTool
<1> QED
  BY <1>4, <1>5, <1>6

-----------------------------------------------------------------------------
LEMMA EmptyResponse == AgentAssumption => NoResponse \in Responses /\ <<>> \in Seq(0..0)
<1> SUFFICES ASSUME AgentAssumption
             PROVE  NoResponse \in Responses /\ <<>> \in Seq(0..0)
  OBVIOUS
<1>1. NoResponse \in [blocks : [1..0 -> {"text", "tool_use"}], proposals : 0..MaxBlocks - 0]
  BY DEF NoResponse, AgentAssumption
<1> QED
  BY <1>1 DEF Responses, AgentAssumption

LEMMA TypeInit == AgentAssumption /\ Init => TypeInv
<1> SUFFICES ASSUME AgentAssumption, Init
             PROVE  TypeInv
  OBVIOUS
<1>1. run \in RunRecord
  BY EmptyResponse DEF Init, RunRecord, AgentAssumption
<1>2. ToolsTypeOK
  <2>1. <<>> \in Seq(CommandNames)
    OBVIOUS
  <2> QED
    BY <2>1 DEF Init, ToolsInit, ToolsTypeOK, NoTool
<1>3. queue \in Seq(0..made) /\ Len(queue) = 0 /\ log \in Seq(0..made)
  BY EmptyResponse DEF Init
<1>4. TurnsLeft /\ InPlace /\ made \in Nat
  BY DEF Init, TurnsLeft, InPlace, AgentAssumption
<1>5. worker \in [pc : {"none", "idle", "emit", "ended", "dead"}, item : 0..made]
  BY DEF Init, Stop
<1> QED
  BY <1>1, <1>2, <1>3, <1>4, <1>5 DEF TypeInv, TypeOK, RunRecord, AgentAssumption

(* What the runner's steps leave alone keeps its type while `made` grows. *)
LEMMA GrowingNumbers ==
    ASSUME TypeOK, made' \in Nat, made <= made', UNCHANGED <<worker, log>>
    PROVE  /\ worker' \in [pc : {"none", "idle", "emit", "ended", "dead"}, item : 0..made']
           /\ log' \in Seq(0..made')
<1>1. 0..made \subseteq 0..made'
  BY DEF TypeOK
<1>2. log \in Seq(0..made')
  BY <1>1, SeqMonotonic DEF TypeOK
<1> QED
  BY <1>1, <1>2 DEF TypeOK

LEMMA TypeStep == AgentAssumption /\ TypeInv /\ [Next]_vars => TypeInv'
<1> SUFFICES ASSUME AgentAssumption, TypeInv, [Next]_vars
             PROVE  TypeInv'
  OBVIOUS
<1> USE DEF TypeInv
<1>1. run \in RunRecord
  BY DEF TypeOK, RunRecord
<1>2. ASSUME run' \in RunRecord, TurnsLeft', InPlace',
             made' \in Nat, made <= made', queue' \in Seq(0..made'), Len(queue') <= QueueSize,
             UNCHANGED <<worker, log>>, ToolsTypeOK'
      PROVE  TypeInv'
  BY <1>2, GrowingNumbers DEF TypeOK, RunRecord
<1>3. ASSUME UNCHANGED <<queue, made>>
      PROVE  /\ made' \in Nat
             /\ made <= made'
             /\ queue' \in Seq(0..made')
             /\ Len(queue') <= QueueSize
  BY <1>3 DEF TypeOK
<1>4. ASSUME UNCHANGED toolVars
      PROVE  ToolsTypeOK'
  BY <1>4 DEF TypeOK, ToolsTypeOK, toolVars
<1>5. ASSUME PutAndGo(0, Leave(run, "raise"))
      PROVE  /\ run' \in RunRecord
             /\ TurnsLeft'
             /\ InPlace'
             /\ made' \in Nat
             /\ made <= made'
             /\ queue' \in Seq(0..made')
             /\ Len(queue') <= QueueSize
  <2>1. Leave(run, "raise") \in RunRecord /\ Leave(run, "raise").pc = "join"
    BY <1>1 DEF Leave, RunRecord
  <2> QED
    BY <1>5, <2>1, PutAndGoType DEF TurnsLeft, InPlace
<1>6. CASE RunUnbound
  <2>1. run' \in RunRecord /\ TurnsLeft' /\ InPlace'
    BY <1>1, <1>6 DEF RunUnbound, RunRecord, TurnsLeft, InPlace
  <2> QED
    BY <1>2, <1>3, <1>4, <1>6, <2>1 DEF RunUnbound
<1>7. CASE StartRun
  <2>1. run' \in RunRecord /\ TurnsLeft' /\ InPlace'
    BY <1>1, <1>7 DEF StartRun, RunRecord, TurnsLeft, InPlace
  <2> QED
    BY <1>4, <1>7, <2>1 DEF StartRun, TypeOK, RunRecord
<1>8. ASSUME NEW response \in Responses, Respond(response)
      PROVE  TypeInv'
  <2>1. /\ run' \in RunRecord
        /\ TurnsLeft'
        /\ InPlace'
        /\ made' \in Nat
        /\ made <= made'
        /\ queue' \in Seq(0..made')
        /\ Len(queue') <= QueueSize
    <3>1. run.iteration < MaxIterations /\ 1 \in 1..MaxBlocks + 1
      BY <1>8 DEF Respond, TurnsLeft, AgentAssumption
    <3>2. 1 <= Len(Work(response)) + 1
      BY ResponseWork
    <3> QED
      BY <1>8, <3>1, <3>2, AdvanceType DEF Respond
  <2> QED
    BY <1>2, <1>4, <1>8, <2>1 DEF Respond
<1>9. CASE RequestFails
  BY <1>2, <1>4, <1>5, <1>9 DEF RequestFails
<1>10. ASSUME NEW action \in Actions, ToolCalled(action)
       PROVE  TypeInv'
  <2>1. run' \in RunRecord /\ TurnsLeft' /\ InPlace'
    BY <1>1, <1>10 DEF ToolCalled, RunRecord, TurnsLeft, InPlace
  <2>2. ToolsTypeOK'
    BY <1>10, CommandsType DEF ToolCalled, CallTool, ToolsTypeOK, TypeOK
  <2> QED
    BY <1>2, <1>3, <1>10, <2>1, <2>2 DEF ToolCalled
<1>11. CASE CommandEnds
  <2>1. ToolsTypeOK'
    BY <1>11, CommandStepType DEF CommandEnds, TypeOK
  <2>2. run' \in RunRecord /\ TurnsLeft' /\ InPlace'
    BY <1>1, <1>11 DEF CommandEnds, TurnsLeft, InPlace
  <2> QED
    BY <1>2, <1>3, <1>11, <2>1, <2>2 DEF CommandEnds
<1>12. CASE ToolRaises
  <2>1. ToolsTypeOK'
    BY <1>12, CommandStepType DEF ToolRaises, TypeOK
  <2> QED
    BY <1>2, <1>5, <1>12, <2>1 DEF ToolRaises
<1>13. CASE ToolReturns
  <2>1. /\ run' \in RunRecord
        /\ TurnsLeft'
        /\ InPlace'
        /\ made' \in Nat
        /\ made <= made'
        /\ queue' \in Seq(0..made')
        /\ Len(queue') <= QueueSize
    <3>1. /\ run.iteration < MaxIterations
          /\ run.response \in Responses
          /\ run.next \in 1..MaxBlocks + 1
          /\ run.next <= Len(Work(run.response)) + 1
      BY <1>1, <1>13 DEF ToolReturns, TurnsLeft, InPlace, RunRecord
    <3>2. (IF tool.image THEN 2 ELSE 1) \in Nat
      OBVIOUS
    <3> QED
      BY <1>13, <3>1, <3>2, AdvanceType DEF ToolReturns
  <2>2. ToolsTypeOK'
    BY <1>13 DEF ToolReturns, ToolsTypeOK, NoTool, TypeOK
  <2> QED
    BY <1>2, <1>13, <2>1, <2>2 DEF ToolReturns
<1>14. CASE WorkerGet
  <2>1. /\ Head(queue) \in 0..made
        /\ Tail(queue) \in Seq(0..made)
        /\ Len(Tail(queue)) = Len(queue) - 1
        /\ Len(queue) \in Nat
    BY <1>14, HeadTailProperties, LenProperties DEF WorkerGet, TypeOK
  <2>2. worker' \in [pc : {"none", "idle", "emit", "ended", "dead"}, item : 0..made]
    BY <1>14, <2>1 DEF WorkerGet
  <2> QED
    BY <1>4, <1>14, <2>1, <2>2 DEF WorkerGet, TypeOK, TurnsLeft, InPlace, AgentAssumption
<1>15. CASE WorkerEmit \/ WorkerDies
  <2>1. worker.item \in 0..made /\ Append(log, worker.item) \in Seq(0..made)
    BY DEF TypeOK
  <2>2. worker' \in [pc : {"none", "idle", "emit", "ended", "dead"}, item : 0..made]
    BY <1>15 DEF WorkerEmit, WorkerDies, TypeOK
  <2>3. log' \in Seq(0..made)
    BY <1>15, <2>1 DEF WorkerEmit, WorkerDies, TypeOK
  <2>4. UNCHANGED <<run, queue, made, toolVars>>
    BY <1>15 DEF WorkerEmit, WorkerDies
  <2> QED
    BY <1>4, <2>2, <2>3, <2>4 DEF TypeOK, TurnsLeft, InPlace
<1>16. CASE Join
  <2>1. run' \in RunRecord /\ TurnsLeft' /\ InPlace'
    BY <1>1, <1>16, ZenonT(30) DEF Join, JoinOutcome, RunRecord, TurnsLeft, InPlace
  <2> QED
    BY <1>2, <1>3, <1>4, <1>16, <2>1 DEF Join
<1>17. CASE Conclude
  <2>1. run' \in RunRecord /\ TurnsLeft' /\ InPlace'
    BY <1>1, <1>17 DEF Conclude, RunRecord, TurnsLeft, InPlace
  <2>2. log' \in Seq(0..made)
    <3>1. log \in Seq(0..made) /\ Append(log, Done) \in Seq(0..made)
      BY DEF TypeOK, Done
    <3> QED
      BY <1>17, <3>1 DEF Conclude
  <2> QED
    BY <1>4, <1>17, <2>1, <2>2 DEF Conclude, TypeOK, RunRecord
<1>18. CASE UNCHANGED vars
  BY <1>4, <1>18 DEF vars, TypeOK, TurnsLeft, InPlace
<1> QED
  BY <1>6, <1>7, <1>8, <1>9, <1>10, <1>11, <1>12, <1>13, <1>14, <1>15, <1>16, <1>17, <1>18
  DEF Next, RunStep, WorkerStep

(* The types of a run hold always; in particular callbacks never overfill  *)
(* the queue (anthropic_callbacks.py _put), however many come at once.     *)
THEOREM QueueBounded == Spec => []TypeOK
<1>1. Init => TypeInv
  BY TypeInit, AgentAssumption
<1>2. TypeInv /\ [Next]_vars => TypeInv'
  BY TypeStep, AgentAssumption
<1>3. TypeInv => TypeOK
  BY DEF TypeInv
<1> QED
  BY <1>1, <1>2, <1>3, PTL DEF Spec

-----------------------------------------------------------------------------
(***************************************************************************)
(* The order of the log.  Of the callbacks made, the first k are logged,   *)
(* the next may be in the worker's hands and the others wait in the queue, *)
(* with the marker behind them once close has put it.                      *)
(***************************************************************************)
Over == {"join", "ended", "concluded"}

Pending(k) ==
    \E n \in Nat :
       /\ made = k + n
       /\ \A i \in 1..n : queue[i] = k + i
       /\ \/ Len(queue) = n
          \/ Len(queue) = n + 1 /\ queue[n + 1] = Stop /\ run.pc \in Over

Reached(k) ==
    /\ k <= made
    /\ Logged = 1..k
    /\ worker.pc \in {"none", "idle"} => Pending(k)
    /\ worker.pc = "emit" => worker.item = k + 1 /\ Pending(k + 1)
    /\ worker.pc = "ended" => k = made /\ run.pc \in Over

Increasing == \A i, j \in Events : i < j => log[i] < log[j]

(* Who has ended when: the worker of a run that ended in order is not at   *)
(* work, and only the executor logs Done.                                  *)
EndsInOrder ==
    /\ run.pc = "start" => worker.pc = "none"
    /\ run.pc \in {"ended", "concluded"} /\ ~run.overflowed => worker.pc \notin {"idle", "emit"}
    /\ run.pc \in {"ended", "concluded"} /\ run.outcome = "return" => worker.pc = "ended"
    /\ (\E i \in 1..Len(log) : log[i] = Done) => run.pc = "concluded"
    /\ TerminalEventLast

OrderInv ==
    /\ TypeInv
    /\ Increasing
    /\ \E k \in Nat : Reached(k)
    /\ EndsInOrder

LEMMA LogGrows ==
    ASSUME log \in Seq(Nat), NEW e \in Nat, log' = Append(log, e)
    PROVE  /\ e # Done => /\ Events' = Events \cup {Len(log) + 1}
                         /\ Logged' = Logged \cup {e}
           /\ e = Done => Events' = Events /\ Logged' = Logged
           /\ \A i \in Events : log'[i] = log[i] /\ i < Len(log) + 1
           /\ log'[Len(log) + 1] = e
           /\ Len(log') = Len(log) + 1
<1>1. /\ Len(log) \in Nat
      /\ Len(log') = Len(log) + 1
      /\ \A i \in 1..Len(log) : log'[i] = log[i]
      /\ log'[Len(log) + 1] = e
  OBVIOUS
<1>2. e # Done => Events' = Events \cup {Len(log) + 1}
  BY <1>1 DEF Events
<1>3. e = Done => Events' = Events
  BY <1>1 DEF Events
<1>4. \A i \in Events : i \in 1..Len(log) /\ log'[i] = log[i] /\ i < Len(log) + 1
  BY <1>1 DEF Events
<1>5. e # Done => Logged' = Logged \cup {e}
  <2> SUFFICES ASSUME e # Done
               PROVE  Logged' = Logged \cup {e}
    OBVIOUS
  <2>1. Logged' = {log'[i] : i \in Events'}
    BY DEF Logged
  <2> QED
    BY <1>1, <1>2, <1>4, <2>1 DEF Logged
<1>6. e = Done => Logged' = Logged
  <2>1. Logged' = {log'[i] : i \in Events'}
    BY DEF Logged
  <2> QED
    BY <1>3, <1>4, <2>1 DEF Logged
<1> QED
  BY <1>1, <1>2, <1>3, <1>4, <1>5, <1>6

LEMMA OrderInit == AgentAssumption /\ Init => OrderInv
<1> SUFFICES ASSUME AgentAssumption, Init
             PROVE  OrderInv
  OBVIOUS
<1>1. log = <<>> /\ queue = <<>> /\ made = 0 /\ worker.pc = "none" /\ run.pc = "start"
  BY DEF Init
<1>2. Events = {} /\ Logged = {}
  BY <1>1 DEF Events, Logged
<1>3. Pending(0)
  <2> SUFFICES \E n \in Nat : /\ made = 0 + n
                              /\ \A i \in 1..n : queue[i] = 0 + i
                              /\ Len(queue) = n
    BY DEF Pending
  <2> WITNESS 0 \in Nat
  <2> QED
    BY <1>1
<1>4. Reached(0)
  BY <1>1, <1>2, <1>3 DEF Reached
<1>5. EndsInOrder
  BY <1>1 DEF EndsInOrder, TerminalEventLast
<1> QED
  BY <1>2, <1>4, <1>5, TypeInit DEF OrderInv, Increasing

(* Callbacks join the end of the line. *)
LEMMA PutAndGoOrder ==
    ASSUME AgentAssumption, TypeOK, NEW n \in Nat, NEW next \in RunRecord, PutAndGo(n, next),
           run.pc \notin Over, NEW k \in Nat, Pending(k)
    PROVE  Pending(k)'
<1> DEFINE put == Min({n, Room})
<1>1. PICK m \in Nat : /\ made = k + m
                       /\ \A i \in 1..m : queue[i] = k + i
                       /\ Len(queue) = m
  BY DEF Pending
<1>2. queue \in Seq(Nat) /\ Room \in Nat
  <2>1. queue \in Seq(0..made) /\ 0..made \subseteq Nat
    BY DEF TypeOK
  <2> QED
    BY <2>1, SeqMonotonic DEF TypeOK, Room, AgentAssumption
<1>3. put \in Nat /\ (n <= Room => put = n)
  <2>1. put \in {n, Room} /\ put <= n /\ put <= Room
    BY <1>2, MinOfTwo
  <2> HIDE DEF put
  <2> QED
    BY <1>2, <2>1
<1>4. made' = k + (m + put)
  <2>1. made' = made + put
    BY DEF PutAndGo
  <2> HIDE DEF put
  <2> QED
    BY <1>1, <1>3, <2>1
<1> HIDE DEF put
<1> DEFINE filled == queue \o Callbacks(put)
<1>5. /\ filled \in Seq(Nat)
      /\ Len(filled) = m + put
      /\ \A i \in 1..m + put : filled[i] = k + i
  <2>1. /\ Callbacks(put) \in Seq(Nat)
        /\ Len(Callbacks(put)) = put
        /\ \A i \in 1..put : Callbacks(put)[i] = k + m + i
    BY <1>1, <1>3 DEF Callbacks
  <2> DEFINE new == Callbacks(put)
  <2>2. new \in Seq(Nat) /\ Len(new) = put
    BY <2>1
  <2> HIDE DEF new
  <2>3. /\ queue \o new \in Seq(Nat)
        /\ Len(queue \o new) = m + put
        /\ \A i \in 1..m + put : (queue \o new)[i] = IF i <= m THEN queue[i] ELSE new[i - m]
    BY <1>1, <1>2, <2>2, ConcatProperties, ZenonT(30)
  <2>4. \A i \in 1..m + put : i > m => i - m \in 1..put /\ k + m + (i - m) = k + i
    BY <1>3
  <2>5. \A i \in 1..m + put : i <= m => i \in 1..m
    OBVIOUS
  <2> QED
    BY <1>1, <1>3, <2>1, <2>3, <2>4, <2>5, SMTT(30) DEF new
<1>6. \/ queue' = filled
      \/ queue' = filled \o <<Stop>> /\ run'.pc = "join"
  <2>1. CASE Closing(next) /\ n < Room
    <3>1. put = n
      BY <1>2, <1>3, <2>1
    <3>2. queue' = queue \o Callbacks(n) \o <<Stop>> /\ run' = next
      BY <2>1 DEF PutAndGo
    <3> QED
      BY <2>1, <3>1, <3>2 DEF Closing
  <2>2. CASE ~Closing(next) /\ n <= Room
    <3>1. put = n
      BY <1>3, <2>2
    <3>2. queue' = queue \o Callbacks(n) \o <<>>
      BY <2>2 DEF PutAndGo
    <3>3. filled \o <<>> = filled
      <4> HIDE DEF filled
      <4> QED
        BY <1>5, ConcatEmptySeq
    <3> QED
      BY <3>1, <3>2, <3>3
  <2>3. CASE ~ (IF Closing(next) THEN n < Room ELSE n <= Room)
    BY <2>3 DEF PutAndGo, put
  <2> QED
    BY <2>1, <2>2, <2>3
<1> HIDE DEF filled
<1>7. CASE queue' = filled
  BY <1>3, <1>4, <1>5, <1>7 DEF Pending
<1>8. CASE queue' = filled \o <<Stop>> /\ run'.pc = "join"
  <2>1. <<Stop>> \in Seq(Nat) /\ Len(<<Stop>>) = 1 /\ <<Stop>>[1] = Stop
    BY DEF Stop
  <2>2. /\ Len(queue') = m + put + 1
        /\ \A i \in 1..m + put : queue'[i] = k + i
        /\ queue'[m + put + 1] = Stop
    <3> DEFINE both == filled \o <<Stop>>
    <3>1. /\ Len(both) = m + put + 1
          /\ \A i \in 1..m + put + 1 : both[i] = IF i <= m + put THEN filled[i]
                                                ELSE <<Stop>>[i - (m + put)]
      BY <1>3, <1>5, <2>1, ConcatProperties
    <3>2. m + put + 1 \in 1..m + put + 1 /\ m + put + 1 - (m + put) = 1 /\ m + put \in Nat
      BY <1>3
    <3> HIDE DEF both
    <3> QED
      BY <1>5, <1>8, <2>1, <3>1, <3>2 DEF both
  <2> QED
    BY <1>3, <1>4, <1>8, <2>2 DEF Pending, Over
<1> QED
  BY <1>6, <1>7, <1>8

LEMMA CallbackStep ==
    ASSUME AgentAssumption, OrderInv, TypeInv', run.pc \in {"request", "tool", "command"},
           NEW n \in Nat, NEW next \in RunRecord, PutAndGo(n, next),
           next.pc \in {"request", "tool", "join"},
           UNCHANGED <<worker, log>>
    PROVE  OrderInv'
<1>1. /\ TypeOK
      /\ run.pc \notin Over
      /\ ~\E i \in 1..Len(log) : log[i] = Done
  BY DEF OrderInv, TypeInv, EndsInOrder, Over
<1>2. /\ made <= made'
      /\ run'.pc \in {"request", "tool", "join", "ended"}
      /\ run'.pc = "ended" => run'.overflowed /\ run'.outcome = "raise"
  BY <1>1, PutAndGoType
<1>3. ASSUME NEW k \in Nat, Reached(k)
      PROVE  Reached(k)'
  <2>1. k <= made' /\ Logged' = 1..k
    <3>1. made \in Nat /\ made' \in Nat
      BY DEF OrderInv, TypeInv, TypeOK
    <3>2. Logged' = Logged
      BY DEF Logged, Events
    <3> QED
      BY <1>2, <1>3, <3>1, <3>2 DEF Reached
  <2>2. Pending(k) => Pending(k)'
    BY <1>1, PutAndGoOrder
  <2>3. Pending(k + 1) => Pending(k + 1)'
    BY <1>1, PutAndGoOrder
  <2> QED
    BY <1>1, <1>3, <2>1, <2>2, <2>3 DEF Reached
<1>4. Increasing'
  BY DEF OrderInv, Increasing, Events
<1>5. EndsInOrder'
  BY <1>1, <1>2 DEF EndsInOrder, TerminalEventLast
<1> QED
  BY <1>3, <1>4, <1>5 DEF OrderInv

(* Steps of the runner that make no callback and leave queue and log. *)
LEMMA QuietStep ==
    ASSUME OrderInv, TypeInv', UNCHANGED <<queue, made, log>>,
           run'.pc \in Over \/ run.pc \notin Over,
           \/ worker'.pc = worker.pc /\ worker'.item = worker.item
           \/ worker.pc = "none" /\ worker'.pc = "idle",
           EndsInOrder'
    PROVE  OrderInv'
<1>1. Increasing' /\ Logged' = Logged
  BY DEF OrderInv, Increasing, Logged, Events
<1>2. ASSUME NEW k \in Nat, Pending(k)
      PROVE  Pending(k)'
  BY <1>2 DEF Pending
<1>3. ASSUME NEW k \in Nat, Reached(k)
      PROVE  Reached(k)'
  BY <1>1, <1>2, <1>3 DEF Reached, OrderInv
<1> QED
  BY <1>1, <1>3 DEF OrderInv

LEMMA WorkerGetOrder ==
    ASSUME OrderInv, TypeInv', WorkerGet
    PROVE  OrderInv'
<1>1. PICK k \in Nat : Reached(k)
  BY DEF OrderInv
<1>2. PICK n \in Nat : /\ made = k + n
                       /\ \A i \in 1..n : queue[i] = k + i
                       /\ \/ Len(queue) = n
                          \/ Len(queue) = n + 1 /\ queue[n + 1] = Stop /\ run.pc \in Over
  BY <1>1 DEF WorkerGet, Reached, Pending
<1>3. /\ Len(queue) \in Nat \ {0}
      /\ Len(Tail(queue)) = Len(queue) - 1
      /\ \A i \in 1..Len(queue) - 1 : Tail(queue)[i] = queue[i + 1]
      /\ Head(queue) = queue[1]
  <2>1. queue \in Seq(0..made) /\ queue # <<>>
    BY DEF OrderInv, TypeInv, TypeOK, WorkerGet
  <2> QED
    BY <2>1, HeadTailProperties, EmptySeq
<1>4. /\ worker.pc = "idle"
      /\ queue' = Tail(queue)
      /\ worker' = [pc |-> IF Head(queue) = Stop THEN "ended" ELSE "emit", item |-> Head(queue)]
      /\ UNCHANGED <<run, made, log>>
  BY DEF WorkerGet
<1>5. Increasing' /\ Logged' = Logged
  BY <1>4 DEF OrderInv, Increasing, Logged, Events
<1>6. EndsInOrder'
  BY <1>4 DEF OrderInv, EndsInOrder, TerminalEventLast
<1>7. CASE n = 0
  <2>1. Head(queue) = Stop /\ run.pc \in Over /\ k = made
    BY <1>2, <1>3, <1>7
  <2>2. worker'.pc = "ended"
    BY <1>4, <2>1
  <2>3. Reached(k)'
    BY <1>1, <1>4, <1>5, <2>1, <2>2 DEF Reached
  <2> QED
    BY <1>5, <1>6, <2>3 DEF OrderInv
<1>8. CASE n > 0
  <2>1. Head(queue) = k + 1 /\ Head(queue) # Stop
    <3>1. 1 \in 1..n
      BY <1>8
    <3>2. queue[1] = k + 1
      BY <1>2, <3>1
    <3> QED
      BY <1>3, <3>2 DEF Stop
  <2>2. worker'.pc = "emit" /\ worker'.item = k + 1
    BY <1>4, <2>1
  <2>3. Pending(k + 1)'
    <3>1. n - 1 \in Nat /\ made' = (k + 1) + (n - 1)
      BY <1>2, <1>4, <1>8
    <3>2. \A i \in 1..n - 1 : queue'[i] = (k + 1) + i
      <4>1. ASSUME NEW i \in 1..n - 1
            PROVE  /\ i + 1 \in 1..n
                   /\ i \in 1..Len(queue) - 1
                   /\ k + (i + 1) = (k + 1) + i
        <5>1. Len(queue) \in {n, n + 1}
          BY <1>2
        <5> QED
          BY <1>8, <5>1
      <4>2. \A i \in 1..n - 1 : Tail(queue)[i] = queue[i + 1] /\ queue[i + 1] = (k + 1) + i
        BY <1>2, <1>3, <4>1
      <4>3. queue' = Tail(queue)
        BY <1>4
      <4> QED
        BY <4>2, <4>3
    <3>3. \/ Len(queue') = n - 1
          \/ Len(queue') = n /\ queue'[n] = Stop /\ run'.pc \in Over
      <4>1. CASE Len(queue) = n
        BY <1>3, <1>4, <4>1
      <4>2. CASE Len(queue) = n + 1 /\ queue[n + 1] = Stop /\ run.pc \in Over
        <5>1. n \in 1..Len(queue) - 1 /\ Len(Tail(queue)) = n
          BY <1>3, <1>8, <4>2
        <5>2. Tail(queue)[n] = queue[n + 1]
          BY <1>3, <5>1
        <5> QED
          BY <1>4, <4>2, <5>1, <5>2
      <4> QED
        BY <1>2, <4>1, <4>2
    <3>4. (n - 1) + 1 = n
      OBVIOUS
    <3> QED
      BY <3>1, <3>2, <3>3, <3>4 DEF Pending
  <2>4. Reached(k)'
    BY <1>1, <1>4, <1>5, <2>2, <2>3 DEF Reached
  <2> QED
    BY <1>5, <1>6, <2>4 DEF OrderInv
<1> QED
  BY <1>7, <1>8

(* The worker logs what it holds, or dies before or after it has. *)
LEMMA WorkerLogsOrder ==
    ASSUME OrderInv, TypeInv', WorkerEmit \/ WorkerDies
    PROVE  OrderInv'
<1>1. PICK k \in Nat : Reached(k)
  BY DEF OrderInv
<1>2. /\ worker.pc = "emit"
      /\ worker.item = k + 1
      /\ Pending(k + 1)
      /\ worker'.pc \in {"idle", "dead"}
      /\ \/ log' = log /\ worker'.pc = "dead"
         \/ log' = Append(log, k + 1)
      /\ UNCHANGED <<run, queue, made>>
  BY <1>1 DEF WorkerEmit, WorkerDies, Reached, OrderInv, TypeInv, TypeOK
<1>3. log \in Seq(Nat)
  <2>1. log \in Seq(0..made) /\ 0..made \subseteq Nat
    BY DEF OrderInv, TypeInv, TypeOK
  <2> QED
    BY <2>1, SeqMonotonic
<1>4. Pending(k + 1)'
  BY <1>2 DEF Pending
<1>5. CASE log' = log /\ worker'.pc = "dead"
  <2>1. Increasing' /\ Logged' = Logged
    BY <1>5 DEF OrderInv, Increasing, Logged, Events
  <2>2. Reached(k)'
    BY <1>1, <1>2, <1>5, <2>1 DEF Reached
  <2>3. EndsInOrder'
    BY <1>2, <1>5 DEF OrderInv, EndsInOrder, TerminalEventLast
  <2> QED
    BY <2>1, <2>2, <2>3 DEF OrderInv
<1>6. CASE log' = Append(log, k + 1)
  <2>1. /\ k + 1 \in Nat
        /\ k + 1 # Done
    BY DEF Done
  <2>2. /\ Events' = Events \cup {Len(log) + 1}
        /\ Logged' = Logged \cup {k + 1}
        /\ \A i \in Events : log'[i] = log[i] /\ i < Len(log) + 1
        /\ log'[Len(log) + 1] = k + 1
        /\ Len(log') = Len(log) + 1
    BY <1>3, <1>6, <2>1, LogGrows
  <2>3. Logged' = 1..k + 1
    BY <1>1, <2>2 DEF Reached
  <2>4. \A i \in Events : log[i] < k + 1
    <3>1. \A i \in Events : log[i] \in Logged
      BY DEF Logged
    <3> QED
      BY <1>1, <3>1 DEF Reached
  <2>5. Increasing'
    <3> SUFFICES ASSUME NEW i \in Events', NEW j \in Events', i < j
                 PROVE  log'[i] < log'[j]
      BY DEF Increasing
    <3>1. i \in Events
      <4>1. Len(log) \in Nat /\ Events \subseteq Nat
        BY <1>3 DEF Events
      <4>2. i # Len(log) + 1
        BY <2>2, <4>1
      <4> QED
        BY <2>2, <4>2
    <3>2. CASE j \in Events
      BY <2>2, <3>1, <3>2 DEF OrderInv, Increasing
    <3>3. CASE j = Len(log) + 1
      BY <2>2, <2>4, <3>1, <3>3
    <3> QED
      BY <2>2, <3>2, <3>3
  <2>6. k + 1 <= made'
    BY <1>2 DEF Pending
  <2>7. Reached(k + 1)'
    BY <1>2, <1>4, <2>3, <2>6 DEF Reached
  <2>8. EndsInOrder'
    <3>1. /\ run.pc # "start"
          /\ run.pc \in {"ended", "concluded"} => run.overflowed /\ run.outcome # "return"
      BY <1>2 DEF OrderInv, EndsInOrder
    <3>2. ASSUME NEW i \in 1..Len(log'), log'[i] = Done
          PROVE  \E j \in 1..Len(log) : log[j] = Done
      <4>1. i # Len(log) + 1
        BY <2>1, <2>2, <3>2
      <4>2. i \in 1..Len(log)
        BY <1>3, <2>2, <4>1
      <4>3. log[i] = Done
        BY <1>3, <1>6, <3>2, <4>2
      <4> QED
        BY <4>2, <4>3
    <3>3. (\E i \in 1..Len(log') : log'[i] = Done) => run.pc = "concluded"
      BY <3>2 DEF OrderInv, EndsInOrder
    <3> QED
      BY <1>2, <3>1, <3>3 DEF EndsInOrder, TerminalEventLast
  <2> QED
    BY <2>1, <2>5, <2>7, <2>8 DEF OrderInv
<1> QED
  BY <1>2, <1>5, <1>6

LEMMA ConcludeOrder ==
    ASSUME OrderInv, TypeInv', Conclude
    PROVE  OrderInv'
<1>1. /\ run.pc = "ended"
      /\ run' = [run EXCEPT !.pc = "concluded"]
      /\ run'.pc = "concluded"
      /\ run'.outcome = run.outcome
      /\ run'.overflowed = run.overflowed
      /\ UNCHANGED <<queue, made, worker>>
  BY DEF Conclude, OrderInv, TypeInv, TypeOK
<1>2. log \in Seq(Nat)
  <2>1. log \in Seq(0..made) /\ 0..made \subseteq Nat
    BY DEF OrderInv, TypeInv, TypeOK
  <2> QED
    BY <2>1, SeqMonotonic
<1>3. ~\E i \in 1..Len(log) : log[i] = Done
  BY <1>1 DEF OrderInv, EndsInOrder
<1>4. Increasing' /\ Logged' = Logged /\ TerminalEventLast'
  <2>1. CASE log' = log
    BY <1>3, <2>1 DEF OrderInv, Increasing, Logged, Events, TerminalEventLast
  <2>2. CASE log' = Append(log, Done)
    <3>1. /\ Events' = Events
          /\ Logged' = Logged
          /\ \A i \in Events : log'[i] = log[i]
      BY <1>2, <2>2, LogGrows DEF Done
    <3>2. \A i \in 1..Len(log') : log'[i] = Done => i = Len(log')
      BY <1>2, <1>3, <2>2
    <3> QED
      BY <3>1, <3>2 DEF OrderInv, Increasing, TerminalEventLast
  <2> QED
    BY <2>1, <2>2 DEF Conclude
<1>5. ASSUME NEW k \in Nat, Pending(k)
      PROVE  Pending(k)'
  BY <1>1, <1>5 DEF Pending, Over
<1>6. ASSUME NEW k \in Nat, Reached(k)
      PROVE  Reached(k)'
  BY <1>1, <1>4, <1>5, <1>6 DEF Reached, Over
<1>7. EndsInOrder'
  BY <1>1, <1>4 DEF OrderInv, EndsInOrder
<1> QED
  BY <1>4, <1>6, <1>7 DEF OrderInv

LEMMA OrderStep == AgentAssumption /\ OrderInv /\ [Next]_vars => OrderInv'
<1> SUFFICES ASSUME AgentAssumption, OrderInv, [Next]_vars
             PROVE  OrderInv'
  OBVIOUS
<1>1. TypeInv /\ TypeInv' /\ TypeOK /\ run \in RunRecord
  BY TypeStep DEF OrderInv, TypeInv, TypeOK, RunRecord
<1>2. CASE RunUnbound
  BY <1>1, <1>2, QuietStep DEF RunUnbound, Over, OrderInv, EndsInOrder, TerminalEventLast, RunRecord
<1>3. CASE StartRun
  BY <1>1, <1>3, QuietStep
  DEF StartRun, Over, OrderInv, EndsInOrder, TerminalEventLast, TypeOK, RunRecord
<1>4. ASSUME NEW response \in Responses, Respond(response)
      PROVE  OrderInv'
  <2>1. /\ run.iteration < MaxIterations
        /\ 1 \in 1..MaxBlocks + 1
        /\ 1 <= Len(Work(response)) + 1
    BY <1>1, <1>4, ResponseWork DEF Respond, TypeInv, TurnsLeft, AgentAssumption
  <2>2. \E n \in Nat, next \in RunRecord :
           PutAndGo(n, next) /\ next.pc \in {"request", "tool", "join"}
    BY <1>1, <1>4, <2>1, AdvancePuts DEF Respond
  <2> QED
    BY <1>1, <1>4, <2>2, CallbackStep DEF Respond
<1>5. CASE RequestFails \/ ToolRaises
  <2>1. Leave(run, "raise") \in RunRecord /\ Leave(run, "raise").pc = "join"
    BY <1>1 DEF Leave, RunRecord
  <2> QED
    BY <1>1, <1>5, <2>1, CallbackStep DEF RequestFails, ToolRaises
<1>6. ASSUME NEW action \in Actions, ToolCalled(action)
      PROVE  OrderInv'
  BY <1>1, <1>6, QuietStep
  DEF ToolCalled, Over, OrderInv, EndsInOrder, TerminalEventLast, RunRecord
<1>7. CASE CommandEnds
  BY <1>1, <1>7, QuietStep DEF CommandEnds, Over, OrderInv, EndsInOrder, TerminalEventLast
<1>8. CASE ToolReturns
  <2>1. /\ run.iteration < MaxIterations
        /\ run.response \in Responses
        /\ run.next \in 1..MaxBlocks + 1
        /\ run.next <= Len(Work(run.response)) + 1
        /\ (IF tool.image THEN 2 ELSE 1) \in Nat
    BY <1>1, <1>8 DEF ToolReturns, TypeInv, TurnsLeft, InPlace, RunRecord
  <2>2. \E n \in Nat, next \in RunRecord :
           PutAndGo(n, next) /\ next.pc \in {"request", "tool", "join"}
    BY <1>1, <1>8, <2>1, AdvancePuts DEF ToolReturns
  <2> QED
    BY <1>1, <1>8, <2>2, CallbackStep DEF ToolReturns
<1>9. CASE WorkerGet
  BY <1>1, <1>9, WorkerGetOrder
<1>10. CASE WorkerEmit \/ WorkerDies
  BY <1>1, <1>10, WorkerLogsOrder
<1>11. CASE Join
  <2>1. EndsInOrder'
    BY <1>1, <1>11
    DEF Join, Joinable, JoinOutcome, OrderInv, EndsInOrder, TerminalEventLast, RunRecord
  <2> QED
    BY <1>1, <1>11, <2>1, QuietStep DEF Join, Over, RunRecord
<1>12. CASE Conclude
  BY <1>1, <1>12, ConcludeOrder
<1>13. CASE UNCHANGED vars
  BY <1>1, <1>13, QuietStep DEF vars, OrderInv, EndsInOrder, TerminalEventLast
<1> QED
  BY <1>2, <1>3, <1>4, <1>5, <1>6, <1>7, <1>8, <1>9, <1>10, <1>11, <1>12, <1>13
  DEF Next, RunStep, WorkerStep

(* The events of a run are its callbacks in their order, and all of them   *)
(* if the run returns its answer: the queue of anthropic_callbacks.py      *)
(* loses and repeats nothing, whenever the worker fails or it fills up.    *)
THEOREM CallbacksLoggedInOrder == Spec => []EventsInOrder
<1>1. Init => OrderInv
  BY OrderInit, AgentAssumption
<1>2. OrderInv /\ [Next]_vars => OrderInv'
  BY OrderStep, AgentAssumption
<1>3. OrderInv => EventsInOrder
  <2> SUFFICES ASSUME OrderInv
               PROVE  EventsInOrder
    OBVIOUS
  <2>1. PICK k \in Nat : Reached(k)
    BY DEF OrderInv
  <2>2. k \in 0..made /\ Logged = 1..k
    BY <2>1 DEF Reached, OrderInv, TypeInv, TypeOK
  <2>3. run.outcome = "return" /\ run.pc \in {"ended", "concluded"} => k = made
    BY <2>1 DEF Reached, OrderInv, EndsInOrder
  <2> QED
    BY <2>2, <2>3 DEF EventsInOrder, OrderInv, Increasing
<1> QED
  BY <1>1, <1>2, <1>3, PTL DEF Spec

(* Nothing follows the event that ends a run, unless a full queue ended    *)
(* the run and left its worker behind (anthropic_callbacks.py close).      *)
THEOREM RunEndsItsEvents == Spec => []TerminalEventLast
<1>1. Init => OrderInv
  BY OrderInit, AgentAssumption
<1>2. OrderInv /\ [Next]_vars => OrderInv'
  BY OrderStep, AgentAssumption
<1>3. OrderInv => TerminalEventLast
  BY DEF OrderInv, EndsInOrder
<1> QED
  BY <1>1, <1>2, <1>3, PTL DEF Spec

-----------------------------------------------------------------------------
(***************************************************************************)
(* The keys of the sandbox.  What is left of a tool call always has the    *)
(* release of a key where it is reached whatever fails before it: next, or *)
(* behind the click that is made while the key is down.                    *)
(***************************************************************************)
Presses == {"press", "press_anyway"}
Releases == {"release", "release_anyway"}

ReleasedAt(commands, i) ==
    \/ i <= Len(commands) /\ commands[i] \in Releases
    \/ /\ i + 1 <= Len(commands)
       /\ commands[i] = "click"
       /\ commands[i + 1] \in Releases

PressesReleased(commands) ==
    \A i \in 1..Len(commands) : commands[i] \in Presses => ReleasedAt(commands, i + 1)

KeysInv ==
    /\ TypeInv
    /\ PressesReleased(tool.commands)
    /\ run.outcome = "raise" => run.pc \in Over
    /\ owed => ReleasedAt(tool.commands, 1) \/ run.outcome = "raise"

LEMMA ReleasedInConcatenation ==
    ASSUME NEW first \in Seq(CommandNames), NEW second \in Seq(CommandNames),
           PressesReleased(first), PressesReleased(second)
    PROVE  PressesReleased(first \o second)
<1> DEFINE both == first \o second
           n == Len(first)
<1>1. /\ both \in Seq(CommandNames)
      /\ n \in Nat
      /\ Len(second) \in Nat
      /\ Len(both) = n + Len(second)
      /\ \A i \in 1..n : both[i] = first[i]
      /\ \A i \in 1..Len(second) : both[n + i] = second[i]
  BY ConcatProperties
<1> HIDE DEF both, n
<1>2. ASSUME NEW i \in 1..n, both[i] \in Presses
      PROVE  ReleasedAt(both, i + 1)
  <2>1. ReleasedAt(first, i + 1)
    BY <1>1, <1>2 DEF PressesReleased, n
  <2> QED
    BY <1>1, <2>1 DEF ReleasedAt, n
<1>3. ASSUME NEW i \in 1..Len(second), both[n + i] \in Presses
      PROVE  ReleasedAt(both, n + i + 1)
  <2>1. ReleasedAt(second, i + 1)
    BY <1>1, <1>3 DEF PressesReleased
  <2>2. CASE i + 1 <= Len(second) /\ second[i + 1] \in Releases
    <3>1. both[n + (i + 1)] = second[i + 1] /\ n + (i + 1) = n + i + 1
      BY <1>1, <2>2
    <3> QED
      BY <1>1, <2>2, <3>1 DEF ReleasedAt
  <2>3. CASE /\ i + 2 <= Len(second)
             /\ second[i + 1] = "click"
             /\ second[i + 2] \in Releases
    <3>1. /\ both[n + (i + 1)] = second[i + 1]
          /\ both[n + (i + 2)] = second[i + 2]
          /\ n + (i + 1) = n + i + 1
          /\ n + (i + 2) = n + i + 1 + 1
      BY <1>1, <2>3
    <3> QED
      BY <1>1, <2>3, <3>1 DEF ReleasedAt
  <2>4. i + 1 + 1 = i + 2
    OBVIOUS
  <2> QED
    BY <2>1, <2>2, <2>3, <2>4 DEF ReleasedAt
<1>4. ASSUME NEW i \in 1..Len(both), i \notin 1..n
      PROVE  \E j \in 1..Len(second) : i = n + j
  <2>1. i - n \in 1..Len(second) /\ i = n + (i - n)
    BY <1>1, <1>4
  <2> QED
    BY <2>1
<1> QED
  BY <1>2, <1>3, <1>4 DEF PressesReleased, both

LEMMA CommandsReleaseKeys ==
    ASSUME NEW action \in Actions
    PROVE  PressesReleased(Commands(action))
<1>1. Capture \in Seq(CommandNames) /\ PressesReleased(Capture)
  BY DEF Capture, CommandNames, PressesReleased, Presses
<1>2. ASSUME NEW c \in CommandNames \ Presses
      PROVE  /\ <<c>> \in Seq(CommandNames)
             /\ PressesReleased(<<c>>)
  BY DEF PressesReleased
<1>3. ASSUME NEW c \in CommandNames \ Presses, NEW d \in CommandNames \ Presses
      PROVE  /\ <<c, d>> \in Seq(CommandNames)
             /\ PressesReleased(<<c, d>>)
  BY DEF PressesReleased
<1>4. ASSUME NEW p \in Presses, NEW r \in Releases
      PROVE  /\ <<p, r>> \in Seq(CommandNames)
             /\ PressesReleased(<<p, r>>)
             /\ <<"xdotool", p, "click", r>> \in Seq(CommandNames)
             /\ PressesReleased(<<"xdotool", p, "click", r>>)
  <2> DEFINE short == <<p, r>>
             long == <<"xdotool", p, "click", r>>
  <2>1. p \in CommandNames /\ r \in CommandNames /\ r \notin Presses
    BY DEF CommandNames, Presses, Releases
  <2>2. "xdotool" \in CommandNames \ Presses /\ "click" \in CommandNames \ Presses
    BY DEF CommandNames, Presses
  <2>3. short \in Seq(CommandNames) /\ Len(short) = 2 /\ short[1] = p /\ short[2] = r
    BY <2>1
  <2>4. /\ long \in Seq(CommandNames)
        /\ Len(long) = 4
        /\ long[1] = "xdotool"
        /\ long[2] = p
        /\ long[3] = "click"
        /\ long[4] = r
    BY <2>1, <2>2
  <2> HIDE DEF short, long
  <2>5. PressesReleased(short)
    <3>1. ASSUME NEW i \in 1..2, short[i] \in Presses
          PROVE  i = 1
      BY <2>1, <2>3, <3>1
    <3>2. ReleasedAt(short, 1 + 1)
      BY <2>3 DEF ReleasedAt
    <3> QED
      BY <2>3, <3>1, <3>2 DEF PressesReleased
  <2>6. PressesReleased(long)
    <3>1. ASSUME NEW i \in 1..4, long[i] \in Presses
          PROVE  i = 2
      BY <2>1, <2>2, <2>4, <3>1
    <3>2. ReleasedAt(long, 2 + 1)
      BY <2>4 DEF ReleasedAt
    <3> QED
      BY <2>4, <3>1, <3>2 DEF PressesReleased
  <2> QED
    BY <2>3, <2>4, <2>5, <2>6 DEF short, long
<1>5. /\ {"xdotool", "click", "bash"} \subseteq CommandNames \ Presses
      /\ {"press", "press_anyway"} \subseteq Presses
      /\ {"release", "release_anyway"} \subseteq Releases
      /\ <<>> \in Seq(CommandNames)
      /\ PressesReleased(<<>>)
  BY DEF CommandNames, Presses, Releases, PressesReleased
<1>6. \/ Commands(action) \in {Capture, <<>>}
      \/ Commands(action) \in {<<"xdotool">>, <<"bash">>}
      \/ Commands(action) = <<"xdotool">> \o Capture
      \/ Commands(action) \in {<<"xdotool", "xdotool">> \o Capture, <<"xdotool", "click">> \o Capture}
      \/ Commands(action) = <<"press", "release_anyway">> \o Capture
      \/ Commands(action) = <<"xdotool", "press", "click", "release">> \o Capture
      \/ Commands(action) = <<"xdotool", "press_anyway", "click", "release_anyway">> \o Capture
  BY ZenonT(60) DEF Commands, Actions
<1>7. /\ PressesReleased(<<"xdotool">>)
      /\ PressesReleased(<<"bash">>)
      /\ PressesReleased(<<"xdotool">> \o Capture)
      /\ PressesReleased(<<"xdotool", "xdotool">> \o Capture)
      /\ PressesReleased(<<"xdotool", "click">> \o Capture)
  BY <1>1, <1>2, <1>3, <1>5, ReleasedInConcatenation
<1>8. /\ PressesReleased(<<"press", "release_anyway">> \o Capture)
      /\ PressesReleased(<<"xdotool", "press", "click", "release">> \o Capture)
      /\ PressesReleased(<<"xdotool", "press_anyway", "click", "release_anyway">> \o Capture)
  BY <1>1, <1>4, <1>5, ReleasedInConcatenation
<1> QED
  BY <1>1, <1>5, <1>6, <1>7, <1>8

(* Running the first command moves the release one place nearer. *)
LEMMA RestReleasesKeys ==
    ASSUME NEW commands \in Seq(CommandNames), commands # <<>>, PressesReleased(commands)
    PROVE  /\ PressesReleased(Tail(commands))
           /\ Head(commands) \in Presses => ReleasedAt(Tail(commands), 1)
           /\ ReleasedAt(commands, 1) /\ Head(commands) \notin Releases
                 => /\ Head(commands) = "click"
                    /\ Tail(commands) # <<>>
                    /\ Head(Tail(commands)) \in Releases
                    /\ ReleasedAt(Tail(commands), 1)
<1> DEFINE rest == Tail(commands)
<1>1. /\ Len(commands) \in Nat \ {0}
      /\ Len(rest) = Len(commands) - 1
      /\ \A i \in 1..Len(rest) : rest[i] = commands[i + 1]
      /\ Head(commands) = commands[1]
      /\ Len(rest) > 0 => rest # <<>> /\ Head(rest) = rest[1]
  BY HeadTailProperties
<1> HIDE DEF rest
<1>2. ASSUME NEW i \in Nat \ {0}, ReleasedAt(commands, i + 1)
      PROVE  ReleasedAt(rest, i)
  BY <1>1, <1>2 DEF ReleasedAt
<1>3. PressesReleased(rest)
  <2> SUFFICES ASSUME NEW i \in 1..Len(rest), rest[i] \in Presses
               PROVE  ReleasedAt(rest, i + 1)
    BY DEF PressesReleased
  <2>1. ReleasedAt(commands, (i + 1) + 1)
    BY <1>1 DEF PressesReleased
  <2> QED
    BY <1>1, <1>2, <2>1
<1>4. Head(commands) \in Presses => ReleasedAt(rest, 1)
  BY <1>1, <1>2 DEF PressesReleased
<1>5. ReleasedAt(commands, 1) /\ Head(commands) \notin Releases
         => /\ Head(commands) = "click"
            /\ rest # <<>>
            /\ Head(rest) \in Releases
            /\ ReleasedAt(rest, 1)
  BY <1>1 DEF ReleasedAt
<1> QED
  BY <1>3, <1>4, <1>5 DEF rest

(* Whichever way a command ends, a key that is down is released later, or  *)
(* the exception ends the run.                                             *)
LEMMA CommandStepKeys ==
    ASSUME ToolsTypeOK, CommandSucceeds \/ CommandFails,
           PressesReleased(tool.commands),
           owed => ReleasedAt(tool.commands, 1)
    PROVE  /\ PressesReleased(tool.commands')
           /\ owed' => ReleasedAt(tool.commands', 1)
<1> DEFINE commands == tool.commands
           command == Head(commands)
           rest == Tail(commands)
<1>1. commands \in Seq(CommandNames) /\ commands # <<>> /\ rest \in Seq(CommandNames)
  BY HeadTailProperties DEF ToolsTypeOK, CommandSucceeds, CommandFails
<1>2. /\ PressesReleased(rest)
      /\ command \in Presses => ReleasedAt(rest, 1)
      /\ ReleasedAt(commands, 1) /\ command \notin Releases
            => /\ command = "click"
               /\ rest # <<>>
               /\ Head(rest) \in Releases
               /\ ReleasedAt(rest, 1)
  BY <1>1, RestReleasesKeys
<1>3. command \notin Releases /\ Owed(command) /\ command \notin Presses => owed
  BY DEF Owed, Presses, Releases
<1>4. command \in Releases => ~Owed(command)
  BY DEF Owed, Presses, Releases
<1>5. CASE CommandSucceeds
  <2>1. tool.commands' = rest /\ owed' = Owed(command)
    BY <1>5 DEF CommandSucceeds, ToolsTypeOK
  <2> HIDE DEF commands, command, rest
  <2> QED
    BY <1>2, <1>3, <1>4, <2>1 DEF commands
<1>6. CASE CommandFails
  <2>1. /\ tool.commands' = AfterFailure(command, rest)
        /\ owed' = IF command = "press" THEN owed ELSE Owed(command)
    BY <1>6 DEF CommandFails, ToolsTypeOK
  <2>2. ASSUME NEW e \in Releases
        PROVE  PressesReleased(<<e>>) /\ ReleasedAt(<<e>>, 1)
    BY DEF PressesReleased, ReleasedAt, Releases, Presses
  <2>3. PressesReleased(<<>>)
    BY DEF PressesReleased
  <2> HIDE DEF commands, command, rest
  <2>4. PressesReleased(AfterFailure(command, rest))
    BY <1>2, <2>2, <2>3 DEF AfterFailure, ReleaseOnly, Releases
  <2>5. CASE command = "press"
    BY <1>2, <2>1, <2>4, <2>5 DEF commands, Releases
  <2>6. CASE command = "click"
    <3>1. owed' => owed
      BY <1>3, <2>1, <2>6 DEF Releases, Presses
    <3>2. owed => AfterFailure(command, rest) = <<Head(rest)>> /\ Head(rest) \in Releases
      BY <1>2, <2>6 DEF commands, AfterFailure, ReleaseOnly, Releases
    <3> QED
      BY <2>1, <2>2, <2>4, <3>1, <3>2
  <2>7. CASE command = "press_anyway"
    BY <1>2, <2>1, <2>4, <2>7 DEF AfterFailure, Presses
  <2>8. CASE command \notin {"press", "click", "press_anyway"}
    <3>1. command \notin Presses
      BY <2>8 DEF Presses
    <3>2. ~owed'
      BY <1>2, <1>3, <1>4, <2>1, <2>8, <3>1 DEF commands
    <3> QED
      BY <2>1, <2>4, <3>2
  <2> QED
    BY <2>5, <2>6, <2>7, <2>8
<1> QED
  BY <1>5, <1>6

LEMMA KeysStep == AgentAssumption /\ KeysInv /\ [Next]_vars => KeysInv'
<1> SUFFICES ASSUME AgentAssumption, KeysInv, [Next]_vars
             PROVE  KeysInv'
  OBVIOUS
<1>1. TypeInv /\ TypeInv' /\ TypeOK /\ ToolsTypeOK /\ run \in RunRecord
  BY TypeStep DEF KeysInv, TypeInv, TypeOK, RunRecord
<1>2. PressesReleased(<<>>)
  BY DEF PressesReleased
<1>3. ASSUME UNCHANGED toolVars,
             \/ UNCHANGED run
             \/ run'.outcome = "raise" /\ run'.pc \in Over
             \/ run'.outcome # "raise" /\ run.outcome # "raise"
      PROVE  KeysInv'
  BY <1>1, <1>3 DEF KeysInv, toolVars
<1>4. ASSUME run.pc \in {"request", "tool", "command"},
             NEW n \in Nat, NEW next \in RunRecord, PutAndGo(n, next),
             \/ next.pc = "join"
             \/ next.pc \in {"request", "tool"} /\ next.outcome = run.outcome
      PROVE  run'.outcome = "raise" => run'.pc \in Over
  BY <1>1, <1>4, PutAndGoType DEF KeysInv, Over
<1>5. CASE RunUnbound
  BY <1>1, <1>3, <1>5 DEF RunUnbound, Over, RunRecord
<1>6. CASE StartRun
  BY <1>1, <1>3, <1>6 DEF StartRun, Over, RunRecord, KeysInv
<1>7. ASSUME NEW response \in Responses, Respond(response)
      PROVE  KeysInv'
  <2>1. /\ run.iteration < MaxIterations
        /\ 1 \in 1..MaxBlocks + 1
        /\ 1 <= Len(Work(response)) + 1
    BY <1>1, <1>7, ResponseWork DEF Respond, TypeInv, TurnsLeft, AgentAssumption
  <2>2. \E n \in Nat, next \in RunRecord :
           /\ PutAndGo(n, next)
           /\ \/ next.pc = "join"
              \/ next.pc \in {"request", "tool"} /\ next.outcome = run.outcome
    BY <1>1, <1>7, <2>1, AdvancePuts DEF Respond
  <2>3. run'.outcome = "raise" => run'.pc \in Over
    BY <1>4, <1>7, <2>2 DEF Respond
  <2>4. run.outcome # "raise"
    BY <1>7 DEF Respond, KeysInv, Over
  <2> QED
    BY <1>3, <1>7, <2>3, <2>4 DEF Respond
<1>8. CASE RequestFails
  <2>1. Leave(run, "raise") \in RunRecord /\ Leave(run, "raise").pc = "join"
        /\ Leave(run, "raise").outcome = "raise"
    BY <1>1 DEF Leave, RunRecord
  <2>2. run'.outcome = "raise" /\ run'.pc \in Over
    BY <1>1, <1>8, <2>1, PutAndGoType DEF RequestFails, Over
  <2> QED
    BY <1>3, <1>8, <2>2 DEF RequestFails
<1>9. ASSUME NEW action \in Actions, ToolCalled(action)
      PROVE  KeysInv'
  <2>1. /\ tool.commands = <<>>
        /\ tool'.commands = Commands(action)
        /\ owed' = owed
    BY <1>9 DEF ToolCalled, CallTool, NoTool
  <2>2. run.outcome # "raise" /\ run'.outcome = run.outcome
    BY <1>1, <1>9 DEF ToolCalled, KeysInv, Over, RunRecord
  <2>3. ~owed
    BY <2>1, <2>2 DEF KeysInv, ReleasedAt
  <2> QED
    BY <1>1, <2>1, <2>2, <2>3, CommandsReleaseKeys DEF KeysInv
<1>10. CASE CommandEnds
  <2>1. run.outcome # "raise" /\ UNCHANGED run
    BY <1>10 DEF CommandEnds, KeysInv, Over
  <2>2. PressesReleased(tool.commands') /\ (owed' => ReleasedAt(tool.commands', 1))
    BY <1>1, <1>10, <2>1, CommandStepKeys DEF CommandEnds, KeysInv
  <2> QED
    BY <1>1, <2>1, <2>2 DEF KeysInv
<1>11. CASE ToolRaises
  <2>1. Leave(run, "raise") \in RunRecord /\ Leave(run, "raise").pc = "join"
        /\ Leave(run, "raise").outcome = "raise"
    BY <1>1 DEF Leave, RunRecord
  <2>2. run'.outcome = "raise" /\ run'.pc \in Over
    BY <1>1, <1>11, <2>1, PutAndGoType DEF ToolRaises, Over
  <2>3. tool'.commands = <<>>
    BY <1>11 DEF ToolRaises, CommandRaises, NoTool
  <2> QED
    BY <1>1, <1>2, <2>2, <2>3 DEF KeysInv
<1>12. CASE ToolReturns
  <2>1. /\ run.iteration < MaxIterations
        /\ run.response \in Responses
        /\ run.next \in 1..MaxBlocks + 1
        /\ run.next <= Len(Work(run.response)) + 1
        /\ (IF tool.image THEN 2 ELSE 1) \in Nat
    BY <1>1, <1>12 DEF ToolReturns, TypeInv, TurnsLeft, InPlace, RunRecord
  <2>2. \E n \in Nat, next \in RunRecord :
           /\ PutAndGo(n, next)
           /\ \/ next.pc = "join"
              \/ next.pc \in {"request", "tool"} /\ next.outcome = run.outcome
    BY <1>1, <1>12, <2>1, AdvancePuts DEF ToolReturns
  <2>3. run'.outcome = "raise" => run'.pc \in Over
    BY <1>4, <1>12, <2>2 DEF ToolReturns
  <2>4. tool'.commands = <<>> /\ owed' = owed /\ ~owed
    BY <1>12 DEF ToolReturns, NoTool, KeysInv, ReleasedAt, Over
  <2> QED
    BY <1>1, <1>2, <2>3, <2>4 DEF KeysInv
<1>13. CASE WorkerStep
  BY <1>3, <1>13 DEF WorkerStep, WorkerGet, WorkerEmit, WorkerDies
<1>14. CASE Join
  BY <1>1, <1>3, <1>14 DEF Join, JoinOutcome, Over, RunRecord, KeysInv
<1>15. CASE Conclude
  BY <1>1, <1>3, <1>15 DEF Conclude, Over, RunRecord, KeysInv
<1>16. CASE UNCHANGED vars
  BY <1>3, <1>16 DEF vars
<1> QED
  BY <1>5, <1>6, <1>7, <1>8, <1>9, <1>10, <1>11, <1>12, <1>13, <1>14, <1>15, <1>16
  DEF Next, RunStep

(* No tool call returns with a key still pressed, whichever of its commands *)
(* failed (remote_tools.py _click, _scroll and _hold_key): the release is   *)
(* reached from wherever the press leads, or the exception ends the run.    *)
THEOREM CallsReleaseKeys == Spec => []KeysReleased
<1>1. Init => KeysInv
  <2> SUFFICES ASSUME Init
               PROVE  KeysInv
    OBVIOUS
  <2>1. TypeInv
    BY TypeInit, AgentAssumption
  <2> QED
    BY <2>1 DEF Init, ToolsInit, NoTool, KeysInv, PressesReleased
<1>2. KeysInv /\ [Next]_vars => KeysInv'
  BY KeysStep, AgentAssumption
<1>3. KeysInv => KeysReleased
  BY DEF KeysInv, KeysReleased, ReleasedAt
<1> QED
  BY <1>1, <1>2, <1>3, PTL DEF Spec
=============================================================================
