------------------------------ MODULE Dashboard ------------------------------
(***************************************************************************)
(* The dashboard page (static/app.js): its one `state` object and the      *)
(* asynchronous functions that change it.  JavaScript runs one             *)
(* continuation at a time, so a step is the code between two awaits; any   *)
(* number of calls can be waiting for the API, and they are answered and   *)
(* resumed in any order.                                                   *)
(*                                                                         *)
(* A call in `pending` is the continuation `fn` that waits for a request,  *)
(* with the variables it captured.  The requests of one Promise.all are    *)
(* answered together: nothing below compares their replies.  The API is    *)
(* reduced to the status of each session (CREATING, STOPPING, FAILED and   *)
(* EXPIRED are left out) and the ids of its events; the                    *)
(* stream of EventStream.tla to a cursor into them.  state.sessions is     *)
(* only drawn, so a click may select any session that was ever created,    *)
(* and the first session of a list is any session it holds.                *)
(*                                                                         *)
(* setBusy disables a button, and every renderCurrentSession enables it    *)
(* again, so it is no guard.                                               *)
(***************************************************************************)
EXTENDS Integers, Sequences, BagsExt

CONSTANTS Sessions,
          Null,
          MaxEvents,    \* bound: events of all sessions
          MaxClicks,    \* bound: what the user does
          MaxFaults     \* bound: live queues that overflow, and requests lost
                        \* although the API accepts them

(* NONE: not created yet; GONE: deleted. *)
Statuses == {"NONE", "READY", "RUNNING", "STOPPED", "GONE"}
SessionData == [id : Sessions, status : Statuses \ {"NONE", "GONE"}]

ASSUME PageAssumption ==
    /\ Null \notin Sessions
    /\ Null \notin SessionData
    /\ {MaxEvents, MaxClicks, MaxFaults} \subseteq Nat

VARIABLES status,           \* the API: status of each session
          log,              \* the API: the session of each event, by id
          current,          \* state.current
          messages,         \* whose messages state.messages holds
          shown,            \* ids of state.events
          lastEventId,      \* state.lastEventId
          eventSource,      \* state.eventSource
          selectionVersion, \* state.selectionVersion
          desktop,          \* the session whose noVNC page is framed
          streams,          \* open EventSources, with the last id each delivered
          pending,          \* bag of calls that wait for the API
          clicks, resets, errors \* counters of the bounds

api == <<status, log>>
timeline == <<shown, lastEventId>>
connection == <<eventSource, streams>>
page == <<current, messages, timeline, connection, selectionVersion, desktop>>
bounds == <<clicks, resets, errors>>
vars == <<api, page, pending, bounds>>

Known == {s \in Sessions : status[s] \notin {"NONE", "GONE"}}

ACTIVE_VNC_STATUSES == {"READY", "RUNNING"}
RUNNABLE_STATUSES == {"READY"}
STOPPABLE_STATUSES == {"READY", "RUNNING"}  \* and two that do not occur here

EventsOf(s, after, upto) == {i \in 1..upto : i > after /\ log[i] = s}

(* The highest of some ids. *)
Latest(ids) == {i \in ids : \A j \in ids : j <= i}

Call(fn, asked, target, version, after) ==
    [fn |-> fn, asked |-> asked, target |-> target, version |-> version,
     after |-> after, reply |-> Null]
Ask(fn, s) == Call(fn, s, s, 0, 0)

Waiting == DOMAIN pending
Returned(fn) == {c \in Waiting : c.fn = fn /\ c.reply # Null}

(* The page has loaded and start() waits for the list of sessions. *)
Init ==
    /\ status \in [Sessions -> {"NONE", "READY"}]
    /\ log = <<>>
    /\ current = Null
    /\ messages = Null
    /\ shown = {}
    /\ lastEventId = 0
    /\ eventSource = Null
    /\ selectionVersion = 0
    /\ desktop = Null
    /\ streams = [k \in {} |-> 0]
    /\ pending = BagAdd([c \in {} |-> 0], Ask("start", Null))
    /\ clicks = 0
    /\ resets = 0
    /\ errors = 0

-----------------------------------------------------------------------------
(* The API. *)

ListCalls == {"start", "stopped", "deleted", "created"}

Accepts(c) ==
    CASE c.fn \in ListCalls -> TRUE
      [] c.fn = "create"    -> status[c.asked] = "NONE"
      [] c.fn = "submit"    -> status[c.asked] = "READY"
      [] c.fn = "vnc"       -> status[c.asked] \in ACTIVE_VNC_STATUSES
      [] OTHER              -> c.asked \in Known

StatusAfter(c) ==
    CASE c.fn = "create" -> [status EXCEPT ![c.asked] = "READY"]
      [] c.fn = "submit" -> [status EXCEPT ![c.asked] = "RUNNING"]
      [] c.fn = "stop"   -> [status EXCEPT ![c.asked] = "STOPPED"]
      [] c.fn = "delete" -> [status EXCEPT ![c.asked] = "GONE"]
      [] OTHER           -> status

(* What a continuation uses of its reply: the list of sessions or the      *)
(* session asked for, and the events committed by now.                     *)
Reply(c) ==
    [status |-> [s \in IF c.fn \in ListCalls THEN Sessions
                       ELSE IF c.fn \in {"select", "refresh", "submitted", "stop"}
                       THEN {c.asked} ELSE {} |-> StatusAfter(c)[s]],
     upto   |-> IF c.fn \in {"select", "reset"} THEN Len(log) ELSE 0]

Answer(c) ==
    /\ c.reply = Null
    /\ Accepts(c)
    /\ status' = StatusAfter(c)
    /\ pending' = BagAdd(BagRemove(pending, c), [c EXCEPT !.reply = Reply(c)])
    /\ UNCHANGED <<log, page, bounds>>

EventAppended(s) ==
    /\ Len(log) < MaxEvents
    /\ status[s] \in ACTIVE_VNC_STATUSES
    /\ log' = Append(log, s)
    /\ UNCHANGED <<status, page, pending, bounds>>

RunEnds(s) ==
    /\ status[s] = "RUNNING"
    /\ status' = [status EXCEPT ![s] = "READY"]
    /\ UNCHANGED <<log, page, pending, bounds>>

-----------------------------------------------------------------------------
(* The event stream. *)

(* As if closeEventStream forgot the source without closing it. *)
NoneClosed == DOMAIN streams

StillOpen == DOMAIN streams \ {eventSource}

CloseEventStream ==
    /\ eventSource' = Null
    /\ streams' = [k \in StillOpen |-> streams[k]]

ConnectEventStream(s, version, cursor) ==
    LET source == [session |-> s, version |-> version]
    IN  /\ eventSource' = source
        /\ streams' = [k \in StillOpen \cup {source} |->
                          IF k = source THEN cursor ELSE streams[k]]

AddEvents(ids) ==
    /\ shown' = shown \cup ids
    /\ lastEventId' \in Latest(ids \cup {lastEventId})

(* selectSession up to its first await, with calls what is pending then. *)
BeginSelect(s, calls) ==
    /\ selectionVersion' = selectionVersion + 1
    /\ CloseEventStream
    /\ desktop' = Null
    /\ pending' = BagAdd(calls, Call("select", s, s, selectionVersion + 1, 0))

NextOf(k) ==
    LET ahead == EventsOf(k.session, streams[k], Len(log))
    IN  {i \in ahead : \A j \in ahead : i <= j}

(* A message of an open stream; run.started, run.completed, run.failed and *)
(* assistant.message also refresh.                                         *)
HandleStreamMessage(k, refreshes) ==
    \E i \in NextOf(k) :
        /\ streams' = [streams EXCEPT ![k] = i]
        /\ IF k.version = selectionVersion
           THEN /\ AddEvents({i})
                /\ pending' = IF refreshes /\ current # Null
                              THEN BagAdd(pending, Ask("refresh", current.id))
                              ELSE pending
           ELSE UNCHANGED <<timeline, pending>>
        /\ UNCHANGED <<api, current, messages, eventSource, selectionVersion,
                       desktop, bounds>>

(* stream.reset: the source is closed, and reloadHistory asks for the      *)
(* history of what is current now.                                         *)
StreamReset(k) ==
    /\ k.version = selectionVersion
    /\ resets + errors < MaxFaults
    /\ resets' = resets + 1
    /\ IF current = Null
       THEN /\ ConnectEventStream(k.session, k.version, lastEventId)
            /\ UNCHANGED pending
       ELSE /\ streams' = [j \in DOMAIN streams \ {k} |-> streams[j]]
            /\ pending' = BagAdd(pending, Call("reset", current.id, k.session,
                                               k.version, lastEventId))
            /\ UNCHANGED eventSource
    /\ UNCHANGED <<api, current, messages, timeline, selectionVersion,
                   desktop, clicks, errors>>

-----------------------------------------------------------------------------
(* Continuations. *)

(* As if selectionVersion were never compared after an await. *)
NeverOutdated(c) == FALSE

Outdated(c) == c.version # selectionVersion

Resume(c) ==
    /\ pending' = BagRemove(pending, c)
    /\ UNCHANGED <<api, bounds>>

ResumeAndAsk(c, next) ==
    /\ pending' = BagAdd(BagRemove(pending, c), next)
    /\ UNCHANGED <<api, bounds>>

SelectOutdated(c) ==
    /\ Outdated(c)
    /\ Resume(c)
    /\ UNCHANGED page

SelectLoaded(c) ==
    LET history == EventsOf(c.asked, 0, c.reply.upto)
    IN  /\ ~Outdated(c)
        /\ current' = [id |-> c.asked, status |-> c.reply.status[c.asked]]
        /\ messages' = c.asked
        /\ shown' = history
        /\ lastEventId' \in Latest(history \cup {0})
        /\ ConnectEventStream(c.asked, c.version, lastEventId')
        /\ IF current'.status \in ACTIVE_VNC_STATUSES
           THEN /\ ResumeAndAsk(c, Call("vnc", c.asked, c.asked, c.version, 0))
                /\ UNCHANGED desktop
           ELSE Resume(c) /\ desktop' = Null
        /\ UNCHANGED selectionVersion

HistoryReloaded(c) ==
    /\ AddEvents(EventsOf(c.asked, c.after, c.reply.upto))
    /\ ConnectEventStream(c.target, c.version, lastEventId')
    /\ Resume(c)
    /\ UNCHANGED <<current, messages, selectionVersion, desktop>>

IsCurrent(s) == current # Null /\ current.id = s

(* As if refreshCurrentData set the messages before it compares the ids. *)
RefreshUnchecked(c) ==
    /\ messages' = c.asked
    /\ Resume(c)
    /\ UNCHANGED <<current, timeline, connection, selectionVersion, desktop>>

RefreshLoaded(c) ==
    /\ IF IsCurrent(c.asked)
       THEN /\ current' = [current EXCEPT !.status = c.reply.status[c.asked]]
            /\ messages' = c.asked
       ELSE UNCHANGED <<current, messages>>
    /\ Resume(c)
    /\ UNCHANGED <<timeline, connection, selectionVersion, desktop>>

VncIssued(c) ==
    /\ desktop' = IF Outdated(c) \/ ~IsCurrent(c.asked) THEN desktop ELSE c.asked
    /\ Resume(c)
    /\ UNCHANGED <<current, messages, timeline, connection, selectionVersion>>

Stopped(c) ==
    /\ current' = [id |-> c.asked, status |-> c.reply.status[c.asked]]
    /\ CloseEventStream
    /\ desktop' = Null
    /\ ResumeAndAsk(c, Ask("stopped", Null))
    /\ UNCHANGED <<messages, timeline, selectionVersion>>

(* As if deleteCurrentSession left the cursor. *)
DeletedKeepsCursor(c) ==
    /\ CloseEventStream
    /\ current' = Null
    /\ messages' = Null
    /\ shown' = {}
    /\ desktop' = Null
    /\ ResumeAndAsk(c, Ask("deleted", Null))
    /\ UNCHANGED <<lastEventId, selectionVersion>>

Deleted(c) ==
    /\ CloseEventStream
    /\ current' = Null
    /\ messages' = Null
    /\ shown' = {}
    /\ lastEventId' = 0
    /\ desktop' = Null
    /\ ResumeAndAsk(c, Ask("deleted", Null))
    /\ UNCHANGED selectionVersion

Created(c) ==
    /\ ResumeAndAsk(c, Call("created", Null, c.asked, 0, 0))
    /\ UNCHANGED page

Submitted(c) ==
    /\ IF current = Null THEN Resume(c)
                         ELSE ResumeAndAsk(c, Ask("submitted", current.id))
    /\ UNCHANGED page

(* loadSessions, and what its caller selects then. *)
(* As if the list held deleted sessions too. *)
ListedAll(c) == {s \in Sessions : c.reply.status[s] # "NONE"}

Listed(c) == {s \in Sessions : c.reply.status[s] \notin {"NONE", "GONE"}}

Choices(c) ==
    CASE c.fn = "created" -> {c.target}
      [] c.fn = "stopped" -> {}
      [] OTHER            -> Listed(c)

SessionsLoaded(c) ==
    /\ current' = IF current # Null /\ current.id \in Listed(c)
                  THEN [current EXCEPT !.status = c.reply.status[current.id]]
                  ELSE current
    /\ IF Choices(c) = {}
       THEN /\ Resume(c)
            /\ UNCHANGED <<connection, selectionVersion, desktop>>
       ELSE /\ \E s \in Choices(c) : BeginSelect(s, BagRemove(pending, c))
            /\ UNCHANGED <<api, bounds>>
    /\ UNCHANGED <<messages, timeline>>

-----------------------------------------------------------------------------
(* A request that the API refuses, or whose answer is lost. *)

CanFail(c) ==
    \/ c.reply = Null /\ ~Accepts(c) /\ UNCHANGED errors
    \/ resets + errors < MaxFaults /\ errors' = errors + 1

(* submitRun refreshes in its catch block too. *)
SubmitFails(c) ==
    /\ CanFail(c)
    /\ c.fn \in {"submit", "submitted"}
    /\ pending' = IF current = Null
                  THEN BagRemove(pending, c)
                  ELSE BagAdd(BagRemove(pending, c), Ask("refresh", current.id))
    /\ UNCHANGED <<api, page, clicks, resets>>

(* loadVnc clears the desktop in its catch block, whatever is selected.    *)
(* Everyone else only shows a message, and after a failed reloadHistory    *)
(* nothing connects again.                                                 *)
CallFails(c) ==
    /\ CanFail(c)
    /\ c.fn \notin {"submit", "submitted"}
    /\ desktop' = IF c.fn = "vnc" THEN Null ELSE desktop
    /\ pending' = BagRemove(pending, c)
    /\ UNCHANGED <<api, current, messages, timeline, connection,
                   selectionVersion, clicks, resets>>

-----------------------------------------------------------------------------
(* The user. *)

ClickSelect(s) ==
    /\ status[s] # "NONE"
    /\ BeginSelect(s, pending)
    /\ UNCHANGED <<current, messages, timeline>>

Click(call) ==
    /\ pending' = BagAdd(pending, call)
    /\ UNCHANGED page

ClickCreate ==
    \E s \in Sessions :
        /\ status[s] = "NONE"
        /\ \A c \in Waiting : c.fn = "create" => c.asked # s
        /\ Click(Ask("create", s))

ClickReloadVnc ==
    /\ current # Null
    /\ current.status \in ACTIVE_VNC_STATUSES
    /\ Click(Call("vnc", current.id, current.id, selectionVersion, 0))

ClickSubmit ==
    /\ current # Null
    /\ current.status \in RUNNABLE_STATUSES
    /\ Click(Ask("submit", current.id))

ClickStop ==
    /\ current # Null
    /\ current.status \in STOPPABLE_STATUSES
    /\ Click(Ask("stop", current.id))

ClickDelete ==
    /\ current # Null
    /\ Click(Ask("delete", current.id))

UserClicks ==
    /\ clicks < MaxClicks
    /\ clicks' = clicks + 1
    /\ \/ \E s \in Sessions : ClickSelect(s)
       \/ ClickCreate \/ ClickReloadVnc \/ ClickSubmit
       \/ ClickStop \/ ClickDelete
    /\ UNCHANGED <<api, resets, errors>>

-----------------------------------------------------------------------------
Continue ==
    \/ \E c \in Returned("select") : SelectOutdated(c) \/ SelectLoaded(c)
    \/ \E c \in Returned("reset") : HistoryReloaded(c)
    \/ \E c \in Returned("refresh") \cup Returned("submitted") : RefreshLoaded(c)
    \/ \E c \in Returned("vnc") : VncIssued(c)
    \/ \E c \in Returned("stop") : Stopped(c)
    \/ \E c \in Returned("delete") : Deleted(c)
    \/ \E c \in Returned("create") : Created(c)
    \/ \E c \in Returned("submit") : Submitted(c)
    \/ \E fn \in ListCalls : \E c \in Returned(fn) : SessionsLoaded(c)

Next ==
    \/ \E s \in Sessions : EventAppended(s) \/ RunEnds(s)
    \/ \E c \in Waiting : Answer(c) \/ SubmitFails(c) \/ CallFails(c)
    \/ \E k \in DOMAIN streams :
           StreamReset(k) \/ \E refreshes \in BOOLEAN : HandleStreamMessage(k, refreshes)
    \/ Continue
    \/ UserClicks

Spec == Init /\ [][Next]_vars

-----------------------------------------------------------------------------
CallFns == ListCalls \cup {"select", "reset", "refresh", "vnc", "submit",
                          "submitted", "stop", "delete", "create"}

Replies == [status : UNION {[S -> Statuses] : S \in SUBSET Sessions},
            upto : 0..MaxEvents]

Calls == [fn : CallFns, asked : Sessions \cup {Null}, target : Sessions \cup {Null},
          version : Nat, after : 0..MaxEvents, reply : Replies \cup {Null}]

(* What the page, the API and the calls in flight are made of.             *)
TypeOK ==
    /\ status \in [Sessions -> Statuses]
    /\ log \in Seq(Sessions)
    /\ Len(log) \in 0..MaxEvents
    /\ current \in {Null} \cup SessionData
    /\ messages \in Sessions \cup {Null}
    /\ shown \subseteq 1..MaxEvents
    /\ lastEventId \in 0..MaxEvents
    /\ selectionVersion \in Nat
    /\ desktop \in Sessions \cup {Null}
    /\ eventSource \in {Null} \cup [session : Sessions, version : Nat]
    /\ DOMAIN streams \subseteq [session : Sessions, version : Nat]
    /\ \A k \in DOMAIN streams : streams[k] \in 0..MaxEvents
    /\ Waiting \subseteq Calls
    /\ clicks \in 0..MaxClicks
    /\ resets \in 0..MaxFaults
    /\ errors \in 0..MaxFaults

(* The page never has two EventSources open: a late answer to an earlier   *)
(* selection, or a stream.reset whose history arrives after another        *)
(* session was selected, may open a stream, but not beside another one.    *)
OneStream == DOMAIN streams \subseteq {eventSource}

(* state.lastEventId, which every reconnect starts after, is the id of the *)
(* last event shown and 0 if there is none, through selection, messages,   *)
(* histories that arrive late, and deletion: a larger cursor would skip    *)
(* events, a smaller one left over from a session fetch them again.        *)
CursorIsLastShown ==
    /\ lastEventId \in shown \cup {0}
    /\ \A i \in shown : i <= lastEventId

(* Messages and desktops that arrive late are put on the page only for the *)
(* session that is the current one by then.                                *)
RepliesFitCurrent ==
    [][ /\ messages' \in {messages, Null} \/ IsCurrent(messages)'
        /\ desktop' \in {desktop, Null} \/ IsCurrent(desktop)' ]_vars

(* As long as no stream.reset was handled, an open stream is the one of    *)
(* the last selection, everything on the page is of its session, and the   *)
(* events shown are all those up to its cursor, none missing and none of   *)
(* another session, however selections, stops, deletions, creations and    *)
(* refreshes overlap.  (After a stream.reset this does not hold: its       *)
(* handler does not look at the version again after it awaited the         *)
(* history.)                                                               *)
StreamFitsPage ==
    resets = 0 =>
        \A k \in DOMAIN streams :
            /\ k.version = selectionVersion
            /\ IsCurrent(k.session)
            /\ messages = k.session
            /\ shown = EventsOf(k.session, 0, streams[k])

=============================================================================
