----------------------------- MODULE AgentRunner -----------------------------
(***************************************************************************)
(* One call of AnthropicAgentRunner.run (backend/app/agents/anthropic.py): *)
(* the model is asked, the tools it calls run in the sandbox (RemoteTools) *)
(* and every answer and tool result is handed, by synchronous callbacks,   *)
(* to a bounded queue that a worker task drains into the session's events  *)
(* (anthropic_callbacks.py).  The executor then appends the event that     *)
(* ends the run.                                                           *)
(*                                                                         *)
(* The runner gives up control only where it awaits the model, a command   *)
(* or the worker; what it does between two awaits is one action.           *)
(***************************************************************************)
EXTENDS RemoteTools, FiniteSetsExt

CONSTANTS MaxIterations,   \* ANTHROPIC_MAX_ITERATIONS
          QueueSize,       \* of the callback queue, 256 in the code
          MaxBlocks        \* bound: blocks of one response of the model

ASSUME AgentAssumption ==
    /\ MaxIterations \in Nat \ {0}
    /\ QueueSize \in Nat \ {0}
    /\ MaxBlocks \in Nat

VARIABLES run,       \* control point and locals of run
          queue,     \* callbacks by number; Stop is the marker
          made,      \* callbacks put so far
          worker,    \* the task _drain
          log        \* events of the run in the database; Done ends the run

vars == <<run, queue, made, worker, log, toolVars>>

Stop == 0
Done == 0

(* A response of the model: texts and native calls of tools in their order *)
(* and the number of calls written out in texts ("proposals"), which run   *)
(* after the other blocks whatever text they stand in.                     *)
Responses ==
    UNION {[blocks : [1..n -> {"text", "tool_use"}], proposals : 0..MaxBlocks - n] :
             n \in 0..MaxBlocks}

Uses(response) == Cardinality({i \in DOMAIN response.blocks : response.blocks[i] = "tool_use"})

Work(response) == response.blocks \o [i \in 1..response.proposals |-> "proposal"]

NoResponse == [blocks |-> <<>>, proposals |-> 0]

-----------------------------------------------------------------------------
Init ==
    /\ run = [pc |-> "start", iteration |-> 0, response |-> NoResponse, next |-> 1,
              results |-> 0, outcome |-> "none", overflowed |-> FALSE]
    /\ queue = <<>>
    /\ made = 0
    /\ worker = [pc |-> "none", item |-> Stop]
    /\ log = <<>>
    /\ ToolsInit

(* Mutant of Room: _put lets one callback too many in. *)
RoomOver == QueueSize + 1 - Len(queue)

Room == QueueSize - Len(queue)

Callbacks(n) == [i \in 1..n |-> made + i]

Closing(next) == next.pc = "join"

(* n callbacks one after the other and then `next`.  If the queue is full, *)
(* CallbackBufferFullError leaves run by way of close, whose own put of    *)
(* the marker then raises as well: nobody waits for the worker.            *)
PutAndGo(n, next) ==
    LET put  == Min({n, Room})
        fits == IF Closing(next) THEN n < Room ELSE n <= Room
    IN  /\ made' = made + put
        /\ IF fits
           THEN /\ queue' = queue \o Callbacks(n) \o IF Closing(next) THEN <<Stop>> ELSE <<>>
                /\ run' = next
           ELSE /\ queue' = queue \o Callbacks(put)
                /\ run' = [run EXCEPT !.pc = "ended", !.outcome = "raise",
                                      !.overflowed = TRUE]

Leave(state, outcome) == [state EXCEPT !.pc = "join", !.outcome = outcome]

(* The end of the blocks: with proposals the next user message holds their *)
(* results and no tool_result; without, a response that called no tool is  *)
(* the answer.  There are at most MaxIterations requests.                  *)
NextRequest(response) ==
    LET asked == Uses(response)
        again == [run EXCEPT !.pc = "request", !.iteration = @ + 1, !.response = response,
                             !.results = IF response.proposals > 0 THEN 0 ELSE asked]
    IN  IF response.proposals = 0 /\ asked = 0
        THEN Leave(again, "return")
        ELSE IF again.iteration = MaxIterations
             THEN Leave(again, "raise")
             ELSE again

(* On from item i of a response with n callbacks already due: announce the *)
(* texts, and start the next tool if there is one.                         *)
Advance(response, i, n) ==
    LET work == Work(response)
    IN  \/ /\ \A j \in i..Len(work) : work[j] = "text"
           /\ PutAndGo(n + Len(work) + 1 - i, NextRequest(response))
        \/ \E j \in i..Len(work) :
              /\ work[j] # "text"
              /\ \A l \in i..j - 1 : work[l] = "text"
              /\ PutAndGo(n + j + 1 - i, [run EXCEPT !.pc = "tool", !.response = response,
                                                    !.next = j + 1])

-----------------------------------------------------------------------------
(* The session has no runtime: run raises before it makes an adapter. *)
RunUnbound ==
    /\ run.pc = "start"
    /\ run' = [run EXCEPT !.pc = "ended", !.outcome = "raise"]
    /\ UNCHANGED <<queue, made, worker, log, toolVars>>

StartRun ==
    /\ run.pc = "start"
    /\ run' = [run EXCEPT !.pc = "request"]
    /\ worker' = [worker EXCEPT !.pc = "idle"]
    /\ UNCHANGED <<queue, made, log, toolVars>>

Respond(response) ==
    /\ run.pc = "request"
    /\ Advance(response, 1, 0)
    /\ UNCHANGED <<worker, log, toolVars>>

(* The request fails for good, after the client's own retries. *)
RequestFails ==
    /\ run.pc = "request"
    /\ PutAndGo(0, Leave(run, "raise"))
    /\ UNCHANGED <<worker, log, toolVars>>

(* A tool call that runs no command returns at once; the model lets the    *)
(* worker run in between all the same.                                     *)
ToolCalled(action) ==
    /\ run.pc = "tool"
    /\ CallTool(action)
    /\ run' = [run EXCEPT !.pc = "command"]
    /\ UNCHANGED <<queue, made, worker, log>>

CommandEnds ==
    /\ run.pc = "command"
    /\ CommandSucceeds \/ CommandFails
    /\ UNCHANGED <<run, queue, made, worker, log>>

ToolRaises ==
    /\ run.pc = "command"
    /\ CommandRaises
    /\ PutAndGo(0, Leave(run, "raise"))
    /\ UNCHANGED <<worker, log>>

(* TOOL_RESULT, and SCREENSHOT_AVAILABLE if the result has an image. *)
ToolReturns ==
    /\ run.pc = "command"
    /\ tool.commands = <<>>
    /\ Advance(run.response, run.next, IF tool.image THEN 2 ELSE 1)
    /\ tool' = NoTool
    /\ UNCHANGED <<worker, log, owed>>

-----------------------------------------------------------------------------
WorkerGet ==
    /\ worker.pc = "idle"
    /\ queue # <<>>
    /\ worker' = [pc |-> IF Head(queue) = Stop THEN "ended" ELSE "emit", item |-> Head(queue)]
    /\ queue' = Tail(queue)
    /\ UNCHANGED <<run, made, log, toolVars>>

WorkerEmit ==
    /\ worker.pc = "emit"
    /\ log' = Append(log, worker.item)
    /\ worker' = [worker EXCEPT !.pc = "idle"]
    /\ UNCHANGED <<run, queue, made, toolVars>>

(* The append fails, at its commit or after it (refresh): the exception    *)
(* ends the worker, and nobody looks at it before close.                   *)
WorkerDies ==
    /\ worker.pc = "emit"
    /\ log' \in {log, Append(log, worker.item)}
    /\ worker' = [worker EXCEPT !.pc = "dead"]
    /\ UNCHANGED <<run, queue, made, toolVars>>

(* Mutant of Joinable: close waits for the marker to be taken. *)
MarkerTaken == worker.pc = "ended"

(* Mutant of Joinable: close does not wait for the worker. *)
NotAwaited == TRUE

Joinable == worker.pc \in {"ended", "dead"}

(* Mutant of JoinOutcome: close ignores what the worker raised. *)
OutcomeKept == run.outcome

JoinOutcome == IF worker.pc = "dead" THEN "raise" ELSE run.outcome

(* close has waited for the worker, and run returns or raises; closing the *)
(* two clients may raise too.                                              *)
Join ==
    /\ run.pc = "join"
    /\ Joinable
    /\ \E outcome \in {JoinOutcome, "raise"} :
          run' = [run EXCEPT !.pc = "ended", !.outcome = outcome]
    /\ UNCHANGED <<queue, made, worker, log, toolVars>>

(* The executor appends RUN_COMPLETED or RUN_FAILED; nothing if the run    *)
(* was cancelled or its own append fails.                                  *)
Conclude ==
    /\ run.pc = "ended"
    /\ run' = [run EXCEPT !.pc = "concluded"]
    /\ log' \in {log, Append(log, Done)}
    /\ UNCHANGED <<queue, made, worker, toolVars>>

RunStep ==
    \/ RunUnbound
    \/ StartRun
    \/ \E response \in Responses : Respond(response)
    \/ RequestFails
    \/ \E action \in Actions : ToolCalled(action)
    \/ CommandEnds
    \/ ToolRaises
    \/ ToolReturns
    \/ Join
    \/ Conclude

WorkerStep ==
    \/ WorkerGet
    \/ WorkerEmit
    \/ WorkerDies

Next == RunStep \/ WorkerStep

Spec == Init /\ [][Next]_vars

(* Requests, commands and appends have deadlines, and asyncio runs a task  *)
(* that can go on.                                                         *)
FairSpec == Spec /\ WF_vars(RunStep) /\ WF_vars(WorkerStep)

-----------------------------------------------------------------------------
(* The records and sequences of one run; in particular the queue keeps its *)
(* bound, whatever the callbacks put in one go.                            *)
TypeOK ==
    /\ run \in [pc : {"start", "request", "tool", "command", "join", "ended", "concluded"},
                iteration : 0..MaxIterations, response : Responses,
                next : 1..MaxBlocks + 1, results : 0..MaxBlocks,
                outcome : {"none", "return", "raise"}, overflowed : BOOLEAN]
    /\ made \in Nat
    /\ queue \in Seq(0..made)
    /\ Len(queue) <= QueueSize
    /\ worker \in [pc : {"none", "idle", "emit", "ended", "dead"}, item : 0..made]
    /\ log \in Seq(0..made)
    /\ ToolsTypeOK

Events == {i \in 1..Len(log) : log[i] # Done}
Logged == {log[i] : i \in Events}

(* The events of a run are its callbacks in their order, none twice and    *)
(* none left out before another; a run that returns its answer has logged  *)
(* them all (anthropic_callbacks.py close and _drain).                     *)
EventsInOrder ==
    /\ \A i, j \in Events : i < j => log[i] < log[j]
    /\ \E k \in 0..made : Logged = 1..k
    /\ run.outcome = "return" /\ run.pc \in {"ended", "concluded"} => Logged = 1..made

(* Nothing follows RUN_COMPLETED or RUN_FAILED unless the run was ended by *)
(* a full queue, which leaves the worker behind.                           *)
TerminalEventLast ==
    ~run.overflowed => \A i \in 1..Len(log) : log[i] = Done => i = Len(log)

(* A key that a tool call has pressed is released when the call returns,   *)
(* whichever of its commands failed (remote_tools.py _click, _scroll and   *)
(* _hold_key); only an exception that ends the run may leave it pressed.   *)
KeysReleased == tool.commands = <<>> /\ owed => run.outcome = "raise"

(* A run ends: the turn loop is bounded and close does not wait for a      *)
(* worker that is gone (anthropic.py, finally).                            *)
RunEnds == <>(run.pc = "concluded")

(* Every native tool_use of the model's message is answered by a           *)
(* tool_result in the next request, as test_anthropic_agent.py:160 asserts *)
(* of a single call.                                                       *)
ToolUsesAnswered == run.pc = "request" => run.results = Uses(run.response)
=============================================================================
