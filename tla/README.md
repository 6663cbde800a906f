# A TLA+ model of the session manager

This directory models the control plane of the Claude computer-use session
manager (`backend/app`): what its request handlers, background tasks and
reconciler do to the rows, containers and event streams they share, and what its
page makes of them. It also models the demo the repository keeps as a baseline
(`computer_use_demo`): its sampling loop, its chat and its tools. TLC checks the
model on small instances; TLAPS proves the most important properties for every
number of sessions, runs and requests.

Paths below are relative to `src/`, and to `src/backend/app/` when they start
with a package name (`services/sessions.py`).

## 1. The system

| Component | State it keeps | Operations | Interacts with |
| --- | --- | --- | --- |
| Session database (`db/models`, `repositories`) | rows of `sessions`, `runs`, `messages`, `events`; unique indexes; row locks | read, `SELECT FOR UPDATE`, `UPDATE`, insert, flush and commit | everything |
| `SessionService` (`services/sessions.py`) | the row a request has loaded | create, submit a run, stop, delete; reads | database, Docker |
| `DockerRuntimeProvider` (`runtime/docker_runtime.py`) | containers in the Docker daemon | create, stop, delete, list, VNC token | Docker |
| `RunExecutor` (`services/run_executor.py`) | one background task per run, its own database session | load, start, agent, complete, fail | database, event log, agent |
| `RuntimeReconciler` (`services/runtime_reconciler.py`) | snapshots of one pass | list, load, delete containers, commit | database, Docker |
| API process (`main.py`, `api/routes`) | background tasks in memory | first reconcile, serve, periodic reconcile | all of the above |
| Event log and broker (`services/events.py`, `events/broker.py`) | rows of `events`; Redis channel | append = insert, commit, publish | database, Redis |
| `EventStreamService` (`services/event_stream.py`) | per connection: cursor, live queue, pump task | subscribe, replay, live loop, overflow | database, Redis, page |
| Dashboard (`static/app.js`) | selected session, events shown, cursor, EventSource | select, stream, reset, buttons | API |
| Agent adapter and remote tools (`agents`) | callback queue, tool calls in progress | run, drain, execute | executor, sandbox |
| Demo sampling loop (`computer_use_demo/loop.py`) | the conversation it was given, cache breakpoints, images | request, tool calls, results, image filter | page, tools |
| Demo page (`computer_use_demo/streamlit.py`) | `session_state`: conversation, tool results, loop's mark, settings | message, interruption blocks, rerun, reset | sampling loop |
| Demo tools (`computer_use_demo/tools`) | a shell and its pipes; a file; the screen's size | run, restart; create, replace, insert, view; pointer | shell, files, X server |

What makes it hard:

* Every handler reads a row, awaits something slow (Docker, the agent, another
  query), assigns attributes and commits. No status is tested again and the
  `version` column is written but never compared. Two tasks that overlap write
  over each other, attribute by attribute.
* `create_session` commits before the container exists, so the reconciler, a
  delete and expiry all see half-made sessions.
* The reconciler combines two snapshots taken at different times.
* A crash of the process loses every background task; rows and containers stay.
* Events are numbered, committed, published and replayed in four places, and
  Redis may lose a message.
* The page has many requests in flight, and whichever answer comes back may find
  another session selected, or none.
* Streamlit runs the demo's script again for every input and stops the run under
  way at its next use of the page, wherever the sampling loop is then.
* The demo's shell is shared by all calls and by the applications that commands
  leave in the background: a command that timed out goes on, and its output and its
  sentinel come later; two pipes are read in any order, into buffers that stop being
  filled when they grow too large.

## 2. Modules

| Module | Models | Correspondence |
| --- | --- | --- |
| `Database` | rows, indexes, locks | `sessions[s]` has the status, whether `runtime_id` is set, whether `deleted_at` is set; `expired[s]` is the clock passing `expires_at`; `runs[r]`; `messages[s]` is the conversation by sequence number; `runLocks` the locked rows of `runs`. `Dirty` is SQLAlchemy's flush: a column is written only if the value in memory differs from the loaded one. |
| `DockerRuntime` | containers | `containers[s]`: absent, created, starting, healthy, exited |
| `SessionService` | requests and `create` | `create[s]` is the control point of the call that creates `s`, `call[h]` that of a stop or delete with the row it loaded and the rows its uncommitted UPDATE locks |
| `RunExecutor` | `execute` | `exec[r]`: control point, loaded session status, sequence number read |
| `RuntimeReconciler` | one pass | `rec`: the listing, the loaded rows, the sessions expired at `now`, deletions still to make |
| `ControlPlane` | composition of the five, the process, failures, properties | `serving`: the lifespan's first pass is done; `faults`: failures so far |
| `RunEvents` | `ControlPlane` and the events its executors append | `timeline[r]`: the types of the run's events, in the order of their commits |
| `EventFeed` | abstract specification of the event path | a growing log, a view of it that passes nothing over, and the events that are excused |
| `EventStream` | append, Redis, stream, page | one session, one page; ids are event rows; `page` is what the page waits for, `failed` once its history or its stream was refused; `excused` is a history variable |
| `RemoteTools` | the tools' commands in the sandbox | `tool` is the call in progress with the commands it still has to run, named by what their failure does; `owed`: a key was pressed and no release sent since |
| `AgentRunner` | one call of `AnthropicAgentRunner.run`, its callback queue and worker, the executor's final event | `run`: control point and locals; `queue`: callbacks by number and the stop marker; `worker`: the task `_drain`; `log`: the run's events |
| `Dashboard` | the page, and the API as the page sees it | variables are the fields of `state`; `pending` is a bag of the continuations that wait for a request, with what they captured; `streams` the open EventSources with the last id each delivered; `status` and `log` stand for the API |
| `ToolConversation` | abstract specification of a conversation with tools | turns that ask and answer calls |
| `SamplingLoop` | one call of `sampling_loop` | `messages`: turns with their calls and the calls they answer; `images`, `marked`: what else the loop keeps in them; `loop`: control point and locals |
| `DemoChat` | the page's chat around the loop | `tools` and `inLoop` are fields of `session_state`; `Rerun` is Streamlit stopping a run |
| `BashSession` | `_BashSession`, its shell and what commands leave in the background | `stdin`, `pipe`, `buffer`: where a command and its output are, each piece with its source; `call`: the command that `run` waits for; `session`: the process, `_timed_out`, paused readers, background; `printed`, `errors`, `delivered`, `backlog` are history variables |
| `EditTool` | the edit tool and one file | `shown`: the numbered lines of the last output |
| `ComputerTool` | coordinates of the computer tool | `pointer` on the screen, `asked` and `reported` in the model's display |
| `DemoTools` | the three tools together | `name`: the tool this behaviour calls |
| `MCControlPlane`, `MCDashboard` | symmetry sets for TLC | |
| `ControlPlaneProofs`, `ConversationProofs`, `EventStreamProofs`, `AgentRunnerProofs`, `DashboardProofs`, `DemoChatProofs`, `DemoToolsProofs` | theorems | section 5 |
| `DataLemmas` | lemmas on finite sets of numbers and on sequences that the proofs share | section 5 |

`ControlPlane` EXTENDS the component modules, whose actions leave the other
components' variables to it. `RunEvents` EXTENDS `ControlPlane` and adds to each of its
steps the event that the step's commit contains. `EventStream` stands alone: the only thing the
event path and the rest share is who appends (executors), and its writers are
those executors. `AgentRunner` EXTENDS `RemoteTools` and shows what is
behind `RunExecutor`'s `AgentReturns` and `AgentRaises`; it shares no variable with
the control plane, which does not look into an agent's run. `Dashboard` reduces
the control plane to the status of a session, and the stream to a cursor into a
log, which is what `EventStream` delivers when no message is lost. `DemoChat`
EXTENDS `SamplingLoop`: they share the conversation, and the page decides when a
call of the loop begins and is cut off. `DemoTools` EXTENDS the tools, which share
nothing; the loop sees of them a result, which may hold an image, or an exception.

### Steps and atomicity

A step is the code between two awaits that read or write shared state.

* `create_run` holds the session's row lock from its first statement to its
  commit, so it is one action, `CreateRun`; its refusals write nothing.
  Everyone else's write of the session row is a single step anyway.
* stop and delete are: read, (mark STOPPING), Docker call, UPDATE of the active
  runs, commit. Between UPDATE and commit the rows are locked and unchanged for
  everyone else (READ COMMITTED).
* `stop`'s get, reload and stop of a container are one step; so are `delete`'s
  get and remove. Nothing between them is acted upon.
* `execute` selects its run FOR UPDATE and then loads the session: one step,
  because the lock freezes the run in between.
* `containers.run` is two Docker calls, so the container can exist unstarted.
* The agent's runner gives up control only where it awaits the model, a command
  or its worker; the callbacks between two awaits are one action (`PutAndGo`),
  which is why a burst of them can fill the queue before the worker runs.
* The page is JavaScript: a step is the code from one await to the next. A request
  is answered by the API in one step and its continuation runs in a later one, so
  everything else may happen in between. The requests of one `Promise.all` are
  answered together, because nothing compares their replies.
* The demo's loop gives up control in its callbacks and awaits, and its requests
  are synchronous: a step is the code between two of those. `StartLoop` and
  `SendResults` include everything up to the request.
* A page's request for a history or a stream may be refused (`LoadHistoryFails`,
  `SubscribeRefused`): `selectSession` shows a toast, the handler of stream.reset ends
  with the stream closed, and an EventSource that is answered with an error does not
  try again. The page then has no stream until somebody selects a session, which is a
  new behaviour of `EventStream`. A connection that was open and is lost is another
  matter: EventSource reconnects (`Disconnect`).
* The demo's shell and the event loop that reads its pipes go on while `run`
  sleeps between two looks at the buffers; a look, the result and the clearing of
  both buffers are one step, because there is no await between them.
* The reconciler's loops make no await except the deletions; all its row writes
  happen in the commit at the end, from the rows as loaded.

### Failures and faults

`Fault` covers: a failing Docker call of create (with and without a container
left behind), stop, delete, the reconciler; a failing commit in any handler or
executor, at each place where the code goes somewhere else after it; the refresh
that follows a commit (`SubmitFault`, `ExecStartedFails`); a container whose main
process ends; a pass of the reconciler that raises; `Crash`, which drops every
task, rolls back transactions, and restarts the process before its first
reconcile. All count against `MaxFaults`. Two things that look like failures are
free: health checks that never pass (`HealthFails`) and an agent that raises
(`AgentRaises`).

PostgreSQL may also abort a transaction because of a deadlock: stop locks rows
of `runs` and then flushes `sessions`, an executor flushes `sessions` and then
`runs`. The victim is `CallAborts` or `ExecRaises`; the wait-for graph is not
modelled.

### What is left out

* `version`, timestamps, titles, inputs, answers: written, never tested.
* Duplicate containers and `create`'s branches for an existing container: a name
  is derived from a fresh UUID and `create` is called once per session, so there
  is at most one container per session, and `runtime_id` is set or not.
* Reads (`GET` routes, VNC tokens, health): no shared state is changed.
* Heartbeats, SSE formatting, the 2 s retry interval.
* What an agent says and what its commands print; a text stands for one block, a
  written-out call for one item of work, whatever text it is found in.
* In `EventStream`: sessions are not deleted, and there is one page. Streams
  share nothing but the log, so one stands for all.
* In `Dashboard`: drawing, toasts, the health indicator, `state.sessions` (it is
  only drawn) and the order of the list: the first session of a list is any of it.
  `setBusy` is no guard, because every redraw enables the buttons again. The
  statuses CREATING, STOPPING, FAILED and EXPIRED do not occur. A history is never
  longer than the 1000 events of its one request.
* In `SamplingLoop`: texts and thinking blocks; VERTEX, which the loop treats like
  BEDROCK; a response without any block.
* In `DemoChat`: model, thinking and token settings, credentials, drawing, the log
  of HTTP exchanges. Only the run that appended a message starts a loop, because
  Streamlit executes the script anew and an earlier message's role is then a member
  of another `Sender` class.
* In `BashSession`: commands that write the sentinel themselves, and a pipe that is full
  and blocks its writers, which the model shows as writers that do not go on. A piece of output stands for as much as
  matters to the limit of a StreamReader. All processes in the background of a shell
  are one source; those of a shell that was restarted write to pipes nobody reads.
* In `EditTool`: other files and directories, the width of tabs, the cut of outputs
  above 16,000 characters (the lines before it keep their numbers), the edit history,
  which is never read, and files that are changed by others.
* In `ComputerTool`: keys, buttons, screenshots and the zoom of the newest version,
  which crops the scaled-down screenshot by screen coordinates; an image has no
  content in the model.
* A second API process. The code keeps background tasks and Docker locks in
  memory; Compose runs one.

## 3. What the runs check

Each configuration runs in about two minutes or less with two workers.

| Run | Instance | Checks |
| --- | --- | --- |
| `runs_compete` | 1 session, 2 runs, 1 key, 1 stop or delete, no faults (1.7 M states) | `OneActiveRun`, `IdempotentRuns`, `LockDiscipline`, `ConversationMatchesRuns` |
| `faults` | 1 session, 1 run, 1 stop or delete, 1 fault, fairness (513 k) | `TypeOK`, `ReconcilerSparesLive`, `ConversationMatchesRuns`, `TimelineMatchesRow`, `RunsFinish` |
| `reclaim` | 1 session, 1 stop or delete, 2 faults, fairness (51 k) | `RuntimesReclaimed`, `ExpiryRecorded` |
| `stream_feed` | 2 writers, 4 events, pages of 2, queue of 2, wire of 2, 1 drop, 1 Redis failure, fairness (232 k) | `TypeOK`, `DeliveredInOrder`, refinement `FeedSpec`, `EventsDelivered` |
| `agent_run` | 2 turns, responses of up to 2 blocks, queue of 3, fairness (199 k) | `TypeOK`, `EventsInOrder`, `TerminalEventLast`, `KeysReleased`, `RunEnds` |
| `dashboard` | 2 sessions, 2 events, 2 clicks, 1 overflow or lost request (2.5 M) | `TypeOK`, `OneStream`, `CursorIsLastShown`, `StreamFitsPage`, `RepliesFitCurrent` |
| `demo_chat` | a caching and a filtering provider, no limit and a limit of 2 images, 8 turns, 2 calls a turn (1.2 M) | `TypeOK`, `ShownAsTold`, `ImagesFew`, `BreakpointsBounded`, refinement `ConversationSpec`, `ImagesLeaveInChunks` |
| `demo_tools` | 2 commands and a background of up to 2 pieces, 4 pieces of errors, buffers of 2; texts of 2 and a file of 4 symbols; 25 screens, 12 coordinates (3.1 M) | `TypeOK`, `OutputOfItsCommand`, `ErrorsKept`, `LinesNumbered`, `PointerFound`, `OnePlaceReplaced` |
| `states_validated` | 1 session, 1 run, 1 request | refutes `StatesValidated` |
| `busy_ready` | 1 session, 1 run, 1 request | refutes `BusySessionNotReady` |
| `gap_lost_publish` | 1 writer, 3 events, 1 Redis failure | refutes `NoEventGap` |
| `agent_mixed` | 2 turns, responses of up to 2 blocks | refutes `ToolUsesAnswered` |

What they show:

* **One active run** (`OneActiveRun`). The session status that `create_run` tests
  is overwritten by four other tasks; it is the partial unique index, the lock
  between `FOR UPDATE` and the first commit, and the status of the rows the
  UPDATE selects that keep a session's runs apart. `LockDiscipline` is why: a run
  about to be started is still PENDING, and no UPDATE has selected it. Its third
  part speaks of two requests and is checked by the proof only; the TLC instance
  has one request.
* **Idempotent submissions** (`IdempotentRuns`), including retries after the
  first run has ended or was cancelled.
* **The conversation fits the runs** (`ConversationMatchesRuns`), although a
  cancelled run may still be completed and a completed one may become FAILED:
  one question per run, at most one answer, an answer only to a run that is
  COMPLETED, or FAILED because RUN_COMPLETED could not be appended.
* **A run's events and its row agree** (`TimelineMatchesRow`): the events are
  RUN_STARTED, ASSISTANT_MESSAGE and RUN_COMPLETED up to a point, and RUN_FAILED
  at their end if and only if the row says FAILED; a run that is CANCELLED has no
  answer. Every event is in the commit of the status it is about, and that is what
  holds them together when an append fails, the process dies or a cancellation is
  overwritten. A refresh that fails after the commit of RUN_COMPLETED gives a run
  with RUN_COMPLETED and then RUN_FAILED.
* **The reconciler spares live desktops** (`ReconcilerSparesLive`): listing
  before loading is the right order, because the row is committed before the
  container is made.
* **Containers are reclaimed** (`RuntimesReclaimed`) for good, including those of
  a creation still under way when its session is deleted, and **expiry is
  recorded** (`ExpiryRecorded`), over stale writes of create, stop and delete.
  Both only thanks to the reconciler's later passes. The run has no executor, which
  writes over EXPIRED as well: with one (`Runs = {r1}`, 974 k states) both properties
  hold as well, but TLC takes too long for a run that is repeated.
* **Runs finish** (`RunsFinish`) as long as nothing fails and the session is not
  deleted. Both exceptions are real: a crash, a failing refresh after
  `create_run`'s commit or a failing first commit of the executor leave the run
  PENDING or RUNNING with nobody to end it, and so does a delete that commits
  between a run's acceptance and its executor's start.
* **Ordered delivery** (`DeliveredInOrder`) whatever order Redis delivers in.
* **The event path implements the feed** (`FeedSpec`): across the seam of replay
  and live, short and full pages, overflow, reconnects and failures of Redis, a
  reader's view grows by committed events and passes none over but those that are
  excused: not published, or overtaken by another append between their insert
  and the end of their publication. What is not excused **is delivered**
  (`EventsDelivered`), with two exceptions that are what the code does. The pump may
  die: nobody looks at the task, heartbeats go on, and a page that sees heartbeats does
  not reconnect. And a page whose request for the history after a stream.reset, at its
  selection, or whose request for the stream is refused has no stream and asks for none.
* **An agent's events** are its callbacks in order, and all of them if its run
  succeeds (`EventsInOrder`), although the worker that logs them may die unseen
  long before `close`; nothing follows RUN_COMPLETED or RUN_FAILED
  (`TerminalEventLast`) except when a full queue ended the run, in which case
  the code does leave the worker behind, still logging.
* **Keys** pressed by a tool call are released when one of its commands fails
  (`KeysReleased`), but not when the call raises (a time-out, Docker).
* **An agent's run ends** (`RunEnds`): turns are bounded and `close` does not
  wait for a dead worker.

* **The page has one stream** (`OneStream`), although several functions open one
  after an await and several close it.
* **The cursor is the last event shown** (`CursorIsLastShown`), so a reconnect
  neither skips nor repeats, also when a history arrives after its session was
  deleted from the page.
* **Late answers fit** (`RepliesFitCurrent`): messages and desktops are compared
  with the current session when they arrive.
* **The page is of one session** (`StreamFitsPage`): an open stream is the last
  selection's, and what is shown beside it is that session's, without a gap, until
  a stream.reset is handled. The handler of stream.reset does not compare
  `selectionVersion` after it awaited the history, so a selection made in the
  meantime can lose its stream to that of the earlier one, whose messages are then
  ignored, and the earlier session's events are added to the new one's. No
  document promises otherwise, so the property says "until" and there is no
  finding.

* **Every tool call is answered once, by the next turn** (`ConversationSpec`),
  wherever a script run was stopped: before the call, while it ran, or after its
  result was stored but not sent. The calls of the last turn are answered with an
  error even if they have run, and **the page shows what the model was told**
  (`ShownAsTold`), because the stored result is replaced as well.
* **Images leave in chunks** (`ImagesLeaveInChunks`), oldest first and never one of
  the most recent, and a filtered request has **fewer than twice the limit**
  (`ImagesFew`), also when the limit or the provider changed since the last one.
* **Three breakpoints** (`BreakpointsBounded`), as long as every user turn is
  followed by a caching request before the next. The comment at
  `computer_use_demo/loop.py:309` ("we'll only every have one extra turn per loop")
  needs that: a message whose run was stopped before its request, or an exchange
  with another provider, leaves a breakpoint that is never removed, and the next
  request then has five with the system prompt's, one over the API's limit, until
  Reset. Without its premise `BreakpointsBounded` fails in twelve steps.
* **A result is all its command's output and no other command's**
  (`OutputOfItsCommand`), because a shell that timed out is refused until it is
  restarted. What applications in the background write (the system prompt,
  `computer_use_demo/loop.py:68`, tells the model to start them) comes between and
  during commands: it is found in whichever result is next, or dropped with the buffer
  if it follows the sentinel, but costs no command any of its own output. **Error
  output is kept** (`ErrorsKept`), though it may be delivered with a later command:
  results, buffer and pipe together always are what was written, in its order. What
  is in the pipe can still come, because the reader does not pause as long as no more
  error output than its buffer holds waited at once. When more did, it may pause for
  good: a StreamReader is resumed by its read methods only, and `bash.py` clears its
  buffer instead, "so that the next output can be read correctly" (line 97). What is
  behind a paused reader never comes: then every later result has no error output, or,
  if it was the other pipe, every later command times out until the restart.
* **Line numbers of an edit's output are the file's** (`LinesNumbered`), at its first
  and last lines too, and **a replacement changes one place** (`OnePlaceReplaced`).
* **The pointer is found where it was put** (`PointerFound`), whatever the rounding
  on both ways.

What they refute (`findings` in `PROJECT.json`):

* "validated before every transition" (`README.en.md:42`): an executor,
  `create_session` or the reconciler writes READY or RUNNING over STOPPED, and
  an executor COMPLETED or FAILED over CANCELLED.
* "a competing new task receives HTTP 409" (`README.en.md:63`): a session can be
  READY with an active run; the next submission fails on the index with an error
  that is not turned into 409.
* "recover by database replay" (`services/events.py:50`): not after the cursor
  has moved past the lost event. The same gap arises without any failure when
  the executor of a finished run publishes RUN_COMPLETED while the executor of
  the next one appends; `FeedSpec` excuses both.
* that a native tool call is answered by a `tool_result`
  (`tests/test_anthropic_agent.py:160`): not if the same response also holds a
  call written out in text.

### Bounds, and why they are enough

One session is enough for everything but the composition of sessions, which
share no row, container or lock; the proofs cover any number. Two runs are needed
for a conflict on the index, a key or a sequence number; a third meets the same
two situations. One stop or delete overlaps create, both executors and the
reconciler; two overlapping requests are covered by the proofs. Two faults of
`reclaim` reach every pair (a failed clean-up and then a crash), and containers do not
depend on runs; one fault of `faults` reaches every failure, and the proofs of its invariants cover any number.
Four events with pages of two give two full pages, the empty one after them, and a
short one; a queue of two overflows; a wire of two orders two messages; two writers
overtake each other.
An agent's turn of two blocks makes up to six callbacks, so a queue of three is
filled by one burst, by a slow worker and by the marker, and is also never
filled; two turns give a continued, an answered and an exhausted conversation.
Two sessions are the selected one and another; two clicks make three overlapping
functions with the one that runs when the page loads, each of which may be in any
of its awaits, and every event may start a refresh of its own; one overflow gives
a late history, one lost request a failed continuation. More of each is covered by the proofs.
Eight turns hold five user turns, so that a breakpoint is removed and can be
left behind, and eight calls, so that a limit of two images is passed by one and by
two chunks. Two commands are one that times out and one that comes after it, refused or
after a restart, or two whose errors come late; two pieces and buffers of two let a command
fit the buffer, fill it and, with its sentinel, pass it. Four error pieces, of any sources,
pause the error reader (three) and leave one behind it that never comes. A file of four symbols has up to five lines, with
snippets of one line around an edit; texts of two overlap. The screens scale to each
target, to none, and by ratios a little off; the coordinates are corners, edges and
midpoints.
`CHECK_DEADLOCK FALSE` is said for `EventStream`, `AgentRunner` and `Dashboard` only: a
bounded feed ends when everything is delivered, a run when it has ended, and the
page when the clicks and events of its bounds are used up. `ControlPlane`,
`DemoChat` and `DemoTools` never deadlock.

Each passing property has a mutant: a plausible bug (an index that forgets
RUNNING, a key looked up among active runs only, a retry of the failed commit,
an off-by-one of the queue) that makes it fail under the same configuration.
The mutants are the definitions marked so in the modules; nothing else uses them.

## 4. Fairness

`FairSpec` of `ControlPlane` has weak fairness of each creation's, request's and
executor's steps and of the reconciler: asyncio runs every task that can go on,
`_wait_until_healthy` and the Docker client have deadlines, agents are bounded by
`ANTHROPIC_MAX_ITERATIONS` and their calls by timeouts, and `run_periodically`
catches every exception and goes on. Nothing is assumed of clients, the clock,
health checks or failures. `FairSpec` of `EventStream` has weak fairness of the
generator's, pump's and page's steps one by one, so that the pump does not starve the
live loop, and of each append that has been started. Nobody must append, and no request must be
refused, but it may be at any time (`PageFails` is not fair). `FairSpec` of `AgentRunner` has weak fairness of
the run and of its worker: requests to the model and commands have deadlines, and
so has an append (it may fail, which the model says).

## 5. What is proved

TLAPS checks the theorems of the control plane (the first six) for arbitrary
`Sessions`, `Runs`, `Keys`, `Requests` and `MaxFaults`, under `NullAssumption` (no
id is `Null`) and `FaultAssumption` (`MaxFaults \in Nat`).

| Theorem | Statement |
| --- | --- |
| `ControlPlaneProofs!TypeCorrect` | `Spec => []TypeOK` |
| `ControlPlaneProofs!LocksDisciplined` | `Spec => []LockDiscipline` |
| `ControlPlaneProofs!AtMostOneActiveRun` | `Spec => []OneActiveRun` |
| `ControlPlaneProofs!KeysIdempotent` | `Spec => []IdempotentRuns` |
| `ConversationProofs!ConversationConsistent` | `Spec => []ConversationMatchesRuns` |
| `ConversationProofs!EventsOnlyObserve` | `RunEventsSpec => Spec` |
| `ConversationProofs!EventsTellTheRow` | `RunEventsSpec => []TimelineMatchesRow` |
| `ControlPlaneProofs!ReconcilerSpares` | `Spec => []ReconcilerSparesLive` |
| `AgentRunnerProofs!QueueBounded` | `Spec => []TypeOK` (of `AgentRunner`) |
| `AgentRunnerProofs!CallbacksLoggedInOrder` | `Spec => []EventsInOrder` |
| `AgentRunnerProofs!RunEndsItsEvents` | `Spec => []TerminalEventLast` |
| `AgentRunnerProofs!CallsReleaseKeys` | `Spec => []KeysReleased` |
| `EventStreamProofs!StreamTyped` | `Spec => []TypeOK` (of `EventStream`) |
| `EventStreamProofs!NothingTwice` | `Spec => []DeliveredInOrder` |
| `EventStreamProofs!StreamImplementsFeed` | `Spec => FeedSpec` |
| `DashboardProofs!PageTyped` | `Spec => []TypeOK` (of `Dashboard`) |
| `DashboardProofs!OnlyOneStream` | `Spec => []OneStream` |
| `DashboardProofs!CursorFitsTimeline` | `Spec => []CursorIsLastShown` |
| `DashboardProofs!LateRepliesFit` | `Spec => RepliesFitCurrent` |
| `DashboardProofs!PageOfOneSession` | `Spec => []StreamFitsPage` |
| `DemoChatProofs!ChatTyped` | `Spec => []TypeOK` (of `DemoChat`) |
| `DemoChatProofs!PageTellsTheSame` | `Spec => []ShownAsTold` |
| `DemoChatProofs!ChatImplementsConversation` | `Spec => ConversationSpec` |
| `DemoChatProofs!RequestsCarryFewImages` | `Spec => []ImagesFew` |
| `DemoChatProofs!OldImagesLeaveInChunks` | `Spec => ImagesLeaveInChunks` |
| `DemoChatProofs!ThreeBreakpoints` | `Spec => []BreakpointsBounded` |
| `DemoToolsProofs!OutputIsTheCommands` | `Spec => []OutputOfItsCommand` |
| `DemoToolsProofs!NoErrorLost` | `Spec => []ErrorsKept` |
| `DemoToolsProofs!PointerRoundTrip` | `Spec => []PointerFound` |
| `DemoToolsProofs!ToolsTypes` | `Spec => []TypeOK` (of `DemoTools`) |
| `DemoToolsProofs!LinesAreNumbered` | `Spec => []LinesNumbered` |
| `DemoToolsProofs!ReplacesOnePlace` | `Spec => OnePlaceReplaced` |

Those of `DashboardProofs` hold for any `Sessions`, `MaxEvents`, `MaxClicks` and
`MaxFaults` under `PageAssumption` (`Null` is neither a session nor the data of
one, the bounds are natural numbers). Those of `AgentRunnerProofs` hold for any `MaxIterations`, `QueueSize` and `MaxBlocks` under
`AgentAssumption` (the first two positive, the third a natural number). Those of
`EventStreamProofs` hold for any `Writers` and any bounds under `StreamAssumption`
(sizes positive, the numbers of drops and losses natural), those of `DemoChatProofs`
for any `Caching`, `Filtering` and `Limits` under `LoopAssumption` (no provider both
caches and filters; limits and bounds are natural numbers), those of
`DemoToolsProofs` under `BashAssumption`, `EditAssumption` and `ScreenAssumption` (bounds,
lengths and screens are positive). None assumes that a set is finite.

The argument. `TypeOK` is inductive. `OneActiveRun` is not: `ExecStart` sets a
run RUNNING without looking, and that is harmless only because the run is still
PENDING, which holds only because its row has been locked since it was read. So
`RunInvariant` adds `LockDiscipline` (who holds which row and what the row is
meanwhile) and `RowsExist` (a run with a control point has a row with a
session). `ExecFail` and `ExecComplete` leave the active statuses; nothing but
`CreateRun` enters them, behind the index. `ConversationProofs` strengthens
`ConversationMatchesRuns` with what each control point of an executor says of
the answers written so far (none before its commit, one when it announces).
`ReconcilerSpares` strengthens `ReconcilerSparesLive` with "whatever was listed
or exists has a row" (`RuntimesHaveRows`): rows are never removed, so a listed
container is never that of an unknown session, and `deleted_at` and expiry are
never taken back. `AgentRunnerProofs` needs `OrderInv`: of the callbacks made so
far the first k are logged, the next may be in the worker's hands, and the rest
wait in the queue in order, with the stop marker last (`Reached`, `Pending`); and
a run that has ended in order has no worker at work (`EndsInOrder`).
`EventsInOrder` alone is not inductive because it says nothing of the queue.
`DashboardProofs` needs of the calls in flight that they ask for what their
continuation expects and that no reply is ahead of the log (`GoodPending`, part of
`TypeInv`); `RepliesFitCurrent` then is a matter of one step. `StreamFitsPage`
needs besides `OneStream` that no history is being reloaded before the first
stream.reset (`NoReload`): a step that connects fits the page by what it assigns,
a message extends what is shown by exactly the next event of its session, and
whatever else moves the page's session or version closes the only stream.

`CallsReleaseKeys` needs of the commands that a tool call still has to run that they
release whatever is pressed, whichever of them fails: a press is followed by its
release, next or behind the click made while the key is down, and a click that
fails goes on to the release (`ReleasedAt`, `PressesReleased`).

`EventsOnlyObserve` makes every invariant of `ControlPlane` one of `RunEvents`. Given
these, `TimelineInv` says which timeline a run has: while it has an executor its
control point tells, since each append is in the commit of a step, and afterwards
the status tells. `TimelineMatchesRow` alone is not inductive: only the control
point says that a run which is overwritten with COMPLETED or FAILED has begun its
timeline, although a run that was CANCELLED may have none.

`EventStreamProofs` rests on what the cursor of a connection means. `CursorInv`: the
wire ascends from what is shown to the cursor, and every event up to the cursor
that is not excused has been sent. `ReplayInv`: a page is an interval of the log after
the cursor. `PipeInv`: queue and channel ascend, except for events that were
overtaken, and these are excused (`WritersInv`: an append that a later one's commit
overtook). `CoverInv`: once the last page has been read, an event is up to the cursor,
in that page, in queue or channel, or about to be published; or the queue has
overrun, and then nothing after the marker is sent. A step of `EventStream` maps to
`Commit`, `Lose`, `Deliver` or a stutter of `EventFeed`, and `CursorInv` gives
`Gapless`.

`DemoChatProofs` needs that the calls the loop has done and has to do are those of
the last turn, that it is only cut off in a state in which the page's mark stays
(`LoopInv`), and that calls are numbered by turns (`CallsInv`), which makes the calls
of a new turn fresh. That the page completes the conversation with exactly the
missing results follows, and with it the refinement of `ToolConversation`. The
images that a filter keeps and the turns that are marked are the `Newest` of a set:
`DataLemmas` counts them by their rank in it. `MarkedInv`: as long as none was missed,
the marked turns are the newest three of those up to the last one marked.

`ShellInv` of `DemoToolsProofs`: the shell holds at most the last command
(`OneCommand`); while its call waits, buffer and pipe together (`Stream`) hold all the
pieces it has written and no other command's; the sentinel follows once the command has
ended, with nothing but background behind it (`EndsAt`); between calls only background is
in them, unless the shell has timed out, and then it is refused (`OutputInv`). So whatever
precedes the sentinel in the buffer is complete, and whatever is cleared behind it or comes
later is no command's. `ErrorsInv`: results, buffer and pipe are what was written, so the
pieces that wait are at most the backlog, and a reader that paused had more of them than
its buffer holds. `PointerInv`
rests on one lemma for each axis (`ThereAndBack`): rounding to a screen that is not
smaller is off by at most a half of its pixels, and such an error does not reach
the next coordinate of the display when it is scaled back.

`EditInv` of `DemoToolsProofs` is `LinesNumbered` with the types: an output shows
the file as it is, and no step changes the file without showing it anew. The work is
in the operators on texts, which recurse, count and choose. Induction is avoided by
taking the least or greatest number at which a claim would fail, which a finite set of
numbers has (`LeastElement`, `GreatestElement`, `NaturalsReached` of `DataLemmas`):

* The line ends of a text, with a place before it and one behind it, are enumerated in
  ascending order by their ranks (`BreaksAscend`), and any such enumeration gives the
  lines (`LinesByBreaks`), so no line has a line end (`LinesOfText`). In joined lines
  the ends of the parts are such an enumeration (`FlattenEnds`), hence `Lines` gives
  the joined lines back (`LinesOfJoined`). So the snippet of an insertion, which is put
  together from the old file's lines and the new ones, shows the file that was written
  (`SliceOfInserted`); those of a replacement and a view are ranges of the lines of the
  file (`SliceOfLines`).
* If `str.count` finds one occurrence at most, the occurrences overlap. `Rest` is then
  what the recursion of `Replaced` returns at each place: the text from there on with
  the next occurrence replaced. `Rest` takes the recursion's steps (`RestSolves`), so the
  recursion has a solution; it has no other, since it only goes up and there would be a
  last place of difference (`ReplacedIsRest`). From the start of the text the next
  occurrence is the first (`ReplacedInPlace`), for which `str_replace` numbers its snippet.

The invariants that the proofs need (`StreamInv`, `ChatInv`, `MarkedInv`, `KeysInv`,
`TimelineInv`, `ShellInv`, `EditInv`, `PointerInv`) were checked by TLC on the instances of
`stream_feed`, `demo_chat`, `agent_run`, `faults` and `demo_tools` before they were proved.

Every safety property of a passing run is stated by a theorem. Only model-checked are
the liveness properties (`RuntimesReclaimed`, `ExpiryRecorded`, `RunsFinish`, `RunEnds`,
`EventsDelivered`): they need fairness and ENABLED, which the provers do not handle.
What remains an assumption of the models themselves is in "What is left out" and in the
bounds of section 3.

## 6. Plan

The modules of the plan exist: the core (`ControlPlane` and its components), the event
path, the runs' events, an agent's run, the page, and the demo's loop, chat and tools.
No safety property is left to prove. Should the code change, the parts that deserve
attention first are those whose proofs rest on a detail elsewhere in it: the row locks
behind `OneActiveRun`, the page's mark behind `ShownAsTold`, and `str.count` and
`str.replace` counting alike behind `OnePlaceReplaced`.

Not planned: images, shell and PowerShell scripts, configuration, schemas and
health probes, which keep no state beyond one call; the demo's model and thinking
settings, which are read from widgets once for each script run; the fakes of the
test suite.
