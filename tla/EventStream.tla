----------------------------- MODULE EventStream -----------------------------
(***************************************************************************)
(* One session's events from EventService.append (services/events.py)      *)
(* through Redis pub/sub (events/broker.py) and EventStreamService         *)
(* (services/event_stream.py) to the page's EventSource (static/app.js).   *)
(*                                                                         *)
(* A writer is a task that appends events: the executor of a run.  The     *)
(* executor of a finished run still appends RUN_COMPLETED after the        *)
(* session became READY, so the executors of two runs can append at once.  *)
(* An event is its id, which PostgreSQL draws from a sequence at the       *)
(* insert, before the commit that makes the row visible.                   *)
(***************************************************************************)
EXTENDS Integers, Sequences, FiniteSets

CONSTANTS Writers,
          MaxEvents,    \* bound: events appended
          PageSize,     \* rows of one replay query or history request (1000)
          QueueSize,    \* sse_queue_size
          WireSize,     \* bound: messages in the connection's buffers
          MaxDrops,     \* bound: connections lost
          MaxLost       \* bound: Redis failures

ASSUME StreamAssumption ==
    /\ {MaxEvents, PageSize, QueueSize, WireSize} \subseteq Nat \ {0}
    /\ {MaxDrops, MaxLost} \subseteq Nat

VARIABLES nextId,       \* the id sequence
          writer,       \* the append in progress of each writer
          events,       \* ids of committed events rows
          channel,      \* messages Redis holds for the subscription
          stream,       \* the generator EventStreamService.stream
          queue,        \* live_queue
          pump,         \* the _pump_subscription task
          wire,         \* sent, not yet read by the page
          page,         \* what the page's EventSource is doing; "failed": none
          shown,        \* ids of state.events in the page
          excused,      \* history: ids whose append was overtaken or not published
          drops, lost   \* counters of the bounds

writerVars == <<nextId, writer, events, excused>>
serverVars == <<channel, stream, queue, pump>>
clientVars == <<wire, page, shown>>
vars == <<writerVars, serverVars, clientVars, drops, lost>>

Ids == 1..MaxEvents
Overflow == 0           \* _StreamOverflow in the queue, stream.reset on the wire

NoAppend == [pc |-> "idle", id |-> 0]
ClosedStream == [pc |-> "closed", last |-> 0, rows |-> {}, full |-> FALSE]

Init ==
    /\ nextId = 1
    /\ writer = [w \in Writers |-> NoAppend]
    /\ events = {}
    /\ channel = <<>>
    /\ stream = ClosedStream
    /\ queue = <<>>
    /\ pump = "none"
    /\ wire = <<>>
    /\ page = "history"
    /\ shown = {}
    /\ excused = {}
    /\ drops = 0
    /\ lost = 0

-----------------------------------------------------------------------------
(* EventService.append *)

Insert(w) ==
    /\ writer[w].pc = "idle"
    /\ nextId <= MaxEvents
    /\ writer' = [writer EXCEPT ![w] = [pc |-> "commit", id |-> nextId]]
    /\ nextId' = nextId + 1
    /\ UNCHANGED <<events, excused, serverVars, clientVars, drops, lost>>

(* The appends in progress that w overtakes by committing now. *)
OvertakenBy(w) ==
    {writer[v].id : v \in {v \in Writers : /\ writer[v].pc # "idle"
                                          /\ writer[v].id < writer[w].id}}

Commit(w) ==
    /\ writer[w].pc = "commit"
    /\ events' = events \cup {writer[w].id}
    /\ excused' = excused \cup OvertakenBy(w)
    /\ writer' = [writer EXCEPT ![w].pc = "publish"]
    /\ UNCHANGED <<nextId, serverVars, clientVars, drops, lost>>

(* Redis hands a message to the subscriptions that exist now. *)
Publish(w) ==
    /\ writer[w].pc = "publish"
    /\ channel' = IF stream.pc = "closed" THEN channel ELSE Append(channel, writer[w].id)
    /\ writer' = [writer EXCEPT ![w] = NoAppend]
    /\ UNCHANGED <<nextId, events, excused, stream, queue, pump, clientVars, drops, lost>>

(* The publication raises, which append logs and forgets. *)
PublishFails(w) ==
    /\ writer[w].pc = "publish"
    /\ lost < MaxLost
    /\ lost' = lost + 1
    /\ excused' = excused \cup {writer[w].id}
    /\ writer' = [writer EXCEPT ![w] = NoAppend]
    /\ UNCHANGED <<nextId, events, serverVars, clientVars, drops>>

-----------------------------------------------------------------------------
Last(ids) == CHOOSE e \in ids : \A f \in ids : f <= e
First(ids) == CHOOSE e \in ids : \A f \in ids : e <= f

(* EventRepository.list_after: the first PageSize rows after a cursor. *)
ListAfter(cursor) ==
    LET later == {e \in events : e > cursor}
    IN  {e \in later : Cardinality({f \in later : f < e}) < PageSize}

(* state.lastEventId: addEvent keeps the largest id. *)
LastEventId == IF shown = {} THEN 0 ELSE Last(shown)

(* The page asks for the stream with its cursor, from the URL or the       *)
(* Last-Event-ID header; the service subscribes before it reads a row.     *)
Subscribe ==
    /\ page = "connect"
    /\ page' = "open"
    /\ stream' = [ClosedStream EXCEPT !.pc = "replay", !.last = LastEventId]
    /\ UNCHANGED <<writerVars, channel, queue, pump, wire, shown, drops, lost>>

(* The request is answered with an error, before any of the stream: the    *)
(* row of the session could not be read, or is deleted.  An EventSource    *)
(* fails for good then.                                                    *)
SubscribeRefused ==
    /\ page = "connect"
    /\ page' = "failed"
    /\ UNCHANGED <<writerVars, serverVars, wire, shown, drops, lost>>

(* One query of the replay loop; an empty page ends it. *)
ReplayQuery ==
    /\ stream.pc = "replay"
    /\ LET rows == ListAfter(stream.last)
       IN  /\ stream' = [stream EXCEPT !.pc = IF rows = {} THEN "live" ELSE "yield",
                                       !.rows = rows,
                                       !.full = Cardinality(rows) = PageSize]
           /\ pump' = IF rows = {} THEN "running" ELSE pump
    /\ UNCHANGED <<writerVars, channel, queue, clientVars, drops, lost>>

(* Mutant of AfterPage: one page is replayed. *)
LiveAfterPage(full) == "live"

(* Where the loop goes when the last row of a page has been sent. *)
AfterPage(full) == IF full THEN "replay" ELSE "live"

ReplayYield ==
    /\ stream.pc = "yield"
    /\ Len(wire) < WireSize
    /\ LET id == First(stream.rows)
           to == IF stream.rows = {id} THEN AfterPage(stream.full) ELSE "yield"
       IN  /\ wire' = Append(wire, id)
           /\ stream' = [stream EXCEPT !.pc = to, !.last = id, !.rows = @ \ {id},
                                       !.full = IF to = "yield" THEN @ ELSE FALSE]
           /\ pump' = IF to = "live" THEN "running" ELSE pump
    /\ UNCHANGED <<writerVars, channel, queue, page, shown, drops, lost>>

(* Mutants of QueueFull, off by one, and of Overflowed, which drops the    *)
(* oldest message without a marker.                                        *)
QueueOverfull == Len(queue) > QueueSize
OldestDropped == Tail(queue)

QueueFull == Len(queue) = QueueSize

(* What QueueFull leaves in the queue: it is emptied for the marker. *)
Overflowed == <<Overflow>>

(* _pump_subscription *)
PumpStep ==
    /\ pump = "running"
    /\ channel # <<>>
    /\ channel' = Tail(channel)
    /\ IF QueueFull
       THEN queue' = Overflowed /\ pump' = "ended"
       ELSE queue' = Append(queue, Head(channel)) /\ UNCHANGED pump
    /\ UNCHANGED <<writerVars, stream, clientVars, drops, lost>>

(* subscription.get raises: the task ends and nobody looks at it. *)
PumpDies ==
    /\ pump = "running"
    /\ lost < MaxLost
    /\ lost' = lost + 1
    /\ pump' = "ended"
    /\ UNCHANGED <<writerVars, channel, stream, queue, clientVars, drops>>

(* The finally block of stream. *)
Close ==
    /\ stream' = ClosedStream
    /\ channel' = <<>>
    /\ queue' = <<>>
    /\ pump' = "none"

(* Mutant of AlreadySent: only a repetition of the last one is dropped. *)
SentLast(id) == id = stream.last

(* The live loop drops what the client already has. *)
AlreadySent(id) == id <= stream.last

LiveYield ==
    /\ stream.pc = "live"
    /\ queue # <<>>
    /\ Len(wire) < WireSize
    /\ LET id == Head(queue)
       IN  IF id = Overflow
           THEN Close /\ wire' = Append(wire, Overflow)
           ELSE /\ queue' = Tail(queue)
                /\ IF AlreadySent(id)
                   THEN UNCHANGED <<stream, wire>>
                   ELSE /\ stream' = [stream EXCEPT !.last = id]
                        /\ wire' = Append(wire, id)
                /\ UNCHANGED <<channel, pump>>
    /\ UNCHANGED <<writerVars, page, shown, drops, lost>>

-----------------------------------------------------------------------------
(* static/app.js *)

(* addEvent *)
Receive ==
    /\ wire # <<>>
    /\ Head(wire) # Overflow
    /\ wire' = Tail(wire)
    /\ shown' = shown \cup {Head(wire)}
    /\ UNCHANGED <<writerVars, serverVars, page, drops, lost>>

(* Mutant of Reset: the page does not come back after a stream.reset. *)
ResetIgnored ==
    /\ wire # <<>>
    /\ Head(wire) = Overflow
    /\ wire' = <<>>
    /\ UNCHANGED <<writerVars, serverVars, page, shown, drops, lost>>

(* The stream.reset listener closes the source and reloads the history. *)
Reset ==
    /\ wire # <<>>
    /\ Head(wire) = Overflow
    /\ wire' = <<>>
    /\ page' = "history"
    /\ UNCHANGED <<writerVars, serverVars, shown, drops, lost>>

(* selectSession's first request, and reloadHistory. *)
LoadHistory ==
    /\ page = "history"
    /\ shown' = shown \cup ListAfter(LastEventId)
    /\ page' = "connect"
    /\ UNCHANGED <<writerVars, serverVars, wire, drops, lost>>

(* The history request fails: selectSession shows a toast and the          *)
(* stream.reset listener rejects.  Neither opens a stream or tries again.  *)
LoadHistoryFails ==
    /\ page = "history"
    /\ page' = "failed"
    /\ UNCHANGED <<writerVars, serverVars, wire, shown, drops, lost>>

(* The connection is lost with all it held; EventSource connects again. *)
Disconnect ==
    /\ page = "open"
    /\ drops < MaxDrops
    /\ drops' = drops + 1
    /\ Close
    /\ wire' = <<>>
    /\ page' = "connect"
    /\ UNCHANGED <<writerVars, shown, lost>>

-----------------------------------------------------------------------------
WriterStep(w) == Insert(w) \/ Commit(w) \/ Publish(w)
StreamStep == Subscribe \/ ReplayQuery \/ ReplayYield \/ PumpStep \/ LiveYield
PageStep == Receive \/ Reset \/ LoadHistory
PageFails == SubscribeRefused \/ LoadHistoryFails

Next ==
    \/ \E w \in Writers : WriterStep(w) \/ PublishFails(w)
    \/ StreamStep
    \/ PageStep
    \/ PumpDies
    \/ PageFails
    \/ Disconnect

Spec == Init /\ [][Next]_vars

(* The page, the generator and the pump go on whenever they can; the       *)
(* generator's own steps are fair one by one, so the pump does not starve  *)
(* the live loop.  Nobody has to append, and no failure has to happen.     *)
FairSpec ==
    /\ Spec
    /\ WF_vars(Subscribe) /\ WF_vars(ReplayQuery) /\ WF_vars(ReplayYield)
    /\ WF_vars(PumpStep) /\ WF_vars(LiveYield)
    /\ WF_vars(Receive) /\ WF_vars(Reset) /\ WF_vars(LoadHistory)
    /\ \A w \in Writers : WF_vars(Commit(w) \/ Publish(w))

-----------------------------------------------------------------------------
TypeOK ==
    /\ nextId \in 1..(MaxEvents + 1)
    /\ writer \in [Writers -> [pc : {"idle", "commit", "publish"}, id : Ids \cup {0}]]
    /\ events \subseteq Ids
    /\ channel \in Seq(Ids)
    /\ stream \in [pc : {"closed", "replay", "yield", "live"}, last : Ids \cup {0},
                   rows : SUBSET Ids, full : BOOLEAN]
    /\ queue \in Seq(Ids \cup {Overflow})
    /\ Len(queue) <= QueueSize
    /\ pump \in {"none", "running", "ended"}
    /\ wire \in Seq(Ids \cup {Overflow})
    /\ page \in {"history", "connect", "open", "failed"}
    /\ shown \subseteq Ids
    /\ excused \subseteq Ids
    /\ drops \in 0..MaxDrops
    /\ lost \in 0..MaxLost

(* Nothing is delivered twice or out of order on any connection: the ids   *)
(* on the wire ascend and lie after everything the page has, across the    *)
(* seam of replay and live, overflows, reconnects, and whatever order      *)
(* Redis delivers in.                                                      *)
DeliveredInOrder ==
    /\ \A i, j \in DOMAIN wire : i < j /\ wire[j] # Overflow => wire[i] < wire[j]
    /\ \A i \in DOMAIN wire : wire[i] # Overflow => wire[i] > LastEventId

(* README.en.md: the order of subscription and replay prevents an event    *)
(* gap.  The page never shows an event while a committed one before it is  *)
(* missing: its cursor has passed that one, so no replay will return it.   *)
NoEventGap == \A e \in events : e < LastEventId => e \in shown

(* The reader's view of the feed: what EventFeed promises.  Replay, live   *)
(* delivery, overflow, reconnects and failures of Redis together pass over *)
(* no event whose own append was published and not overtaken.              *)
Feed == INSTANCE EventFeed WITH log <- events, view <- shown
FeedSpec == Feed!Spec

(* The pump is dead, and nothing tells the live loop. *)
Deaf == pump = "ended" /\ \A i \in DOMAIN queue : queue[i] # Overflow

(* Every event that was published and not overtaken is shown some time,    *)
(* with two exceptions.  A pump that died: heartbeats go on, so the page   *)
(* does not reconnect.  And a page that failed: after one request for the  *)
(* history or the stream that was refused it has no stream, until somebody *)
(* selects the session again, which begins a new behaviour.                *)
EventsDelivered ==
    \A e \in Ids :
       (e \in events \ excused) ~> (e \in shown \cup excused \/ Deaf \/ page = "failed")
=============================================================================
