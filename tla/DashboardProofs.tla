--------------------------- MODULE DashboardProofs ---------------------------
(***************************************************************************)
(* The page's stream, cursor and contents, for any number of sessions,     *)
(* events, clicks, overflows and lost requests.                            *)
(***************************************************************************)
EXTENDS Dashboard, TLAPS

(* What a waiting call asks for, and what its reply tells it: the requests *)
(* of continuations that name a session name one, they are answered with   *)
(* its status while it exists, and no reply is ahead of the log.           *)
GoodCall(c, length) ==
    /\ c \in Calls
    /\ c.fn \notin ListCalls => c.asked \in Sessions /\ c.target \in Sessions
    /\ c.fn = "created" => c.target \in Sessions
    /\ c.reply # Null =>
          /\ c.reply.upto <= length
          /\ c.fn \in ListCalls => c.reply.status \in [Sessions -> Statuses]
          /\ c.fn \in {"select", "refresh", "submitted", "stop"} =>
                c.reply.status[c.asked] \in Statuses \ {"NONE", "GONE"}

GoodPending(calls, length) == \A c \in DOMAIN calls : GoodCall(c, length)

TypeInv ==
    /\ TypeOK
    /\ GoodPending(pending, Len(log))
    /\ lastEventId <= Len(log)
    /\ \A k \in DOMAIN streams : streams[k] <= Len(log)

-----------------------------------------------------------------------------
(* Calls and bags of calls. *)

LEMMA CallGood ==
    ASSUME PageAssumption, NEW length, NEW fn \in CallFns,
           NEW asked \in Sessions \cup {Null}, NEW target \in Sessions \cup {Null},
           fn \notin ListCalls => asked \in Sessions /\ target \in Sessions,
           fn = "created" => target \in Sessions,
           NEW version \in Nat, NEW after \in 0..MaxEvents
    PROVE  GoodCall(Call(fn, asked, target, version, after), length)
BY DEF GoodCall, Call, Calls

LEMMA ZeroTyped ==
    ASSUME PageAssumption
    PROVE  0 \in 0..MaxEvents
BY DEF PageAssumption

LEMMA AskGood ==
    ASSUME PageAssumption, NEW length, NEW fn \in CallFns \ {"created"},
           NEW s \in Sessions \cup {Null}, fn \notin ListCalls => s \in Sessions
    PROVE  GoodCall(Ask(fn, s), length)
BY CallGood DEF Ask, PageAssumption

LEMMA RemoveGood ==
    ASSUME NEW calls, NEW c, NEW length, GoodPending(calls, length)
    PROVE  GoodPending(BagRemove(calls, c), length)
<1>1. DOMAIN BagRemove(calls, c) \subseteq DOMAIN calls
  BY DEF BagRemove
<1> QED
  BY <1>1 DEF GoodPending

LEMMA AddGood ==
    ASSUME NEW calls, NEW c, NEW length, GoodPending(calls, length), GoodCall(c, length)
    PROVE  GoodPending(BagAdd(calls, c), length)
<1>1. DOMAIN BagAdd(calls, c) = DOMAIN calls \cup {c}
  BY DEF BagAdd
<1> QED
  BY <1>1 DEF GoodPending

LEMMA LongerLog ==
    ASSUME NEW calls, NEW m \in Nat, NEW n \in Nat, m <= n, PageAssumption,
           GoodPending(calls, m)
    PROVE  GoodPending(calls, n)
<1> SUFFICES ASSUME NEW c \in DOMAIN calls
             PROVE  GoodCall(c, n)
  BY DEF GoodPending
<1>1. GoodCall(c, m)
  BY DEF GoodPending
<1>2. c.reply # Null => c.reply.upto \in Nat
  BY <1>1 DEF GoodCall, Calls, Replies
<1> QED
  BY <1>1, <1>2 DEF GoodCall

(* What the API makes of the status of the sessions. *)
LEMMA StatusTyped ==
    ASSUME NEW c, status \in [Sessions -> Statuses]
    PROVE  StatusAfter(c) \in [Sessions -> Statuses]
BY DEF StatusAfter, Statuses

LEMMA ReplyGood ==
    ASSUME PageAssumption, TypeOK, NEW c, GoodCall(c, Len(log)),
           c.reply = Null, Accepts(c)
    PROVE  GoodCall([c EXCEPT !.reply = Reply(c)], Len(log))
<1> DEFINE named == {"select", "refresh", "submitted", "stop"}
           about == IF c.fn \in ListCalls THEN Sessions
                    ELSE IF c.fn \in named THEN {c.asked} ELSE {}
           known == [s \in about |-> StatusAfter(c)[s]]
           upto == IF c.fn \in {"select", "reset"} THEN Len(log) ELSE 0
<1>1. Reply(c) = [status |-> known, upto |-> upto]
  BY DEF Reply
<1>2. c.fn \notin ListCalls => c.asked \in Sessions
  BY DEF GoodCall
<1>3. StatusAfter(c) \in [Sessions -> Statuses]
  BY StatusTyped DEF TypeOK
<1>4. about \in SUBSET Sessions
  BY <1>2
<1>5. known \in [about -> Statuses]
  BY <1>3, <1>4
<1>6. upto \in 0..MaxEvents /\ upto <= Len(log)
  BY DEF TypeOK, PageAssumption
<1>7. Reply(c) \in Replies
  <2> HIDE DEF about, known, upto
  <2> QED
    BY <1>1, <1>4, <1>5, <1>6 DEF Replies
<1>8. c.fn \in ListCalls => known \in [Sessions -> Statuses]
  BY <1>5
<1>9. c.fn \in named => known[c.asked] \in Statuses \ {"NONE", "GONE"}
  <2> SUFFICES ASSUME c.fn \in named
               PROVE  StatusAfter(c)[c.asked] \in Statuses \ {"NONE", "GONE"}
    BY DEF ListCalls
  <2>1. c.asked \in Known
    BY DEF Accepts, ListCalls
  <2> QED
    BY <2>1, <1>2 DEF StatusAfter, Known, Statuses, TypeOK
<1>10. [c EXCEPT !.reply = Reply(c)] \in Calls
  BY <1>7 DEF GoodCall, Calls
<1> HIDE DEF known, upto
<1> QED
  BY <1>1, <1>6, <1>8, <1>9, <1>10 DEF GoodCall, Calls

-----------------------------------------------------------------------------
(* What the helpers of the stream do to the types. *)

LEMMA EventIds ==
    ASSUME PageAssumption, TypeOK, NEW s, NEW after \in 0..MaxEvents,
           NEW upto \in 0..MaxEvents
    PROVE  /\ EventsOf(s, after, upto) \subseteq 1..MaxEvents
           /\ \A i \in EventsOf(s, after, upto) : i <= upto /\ after < i
BY DEF EventsOf, PageAssumption

LEMMA ConnectTyped ==
    ASSUME PageAssumption, TypeInv, NEW s \in Sessions, NEW version \in Nat,
           NEW cursor \in 0..MaxEvents, cursor <= Len(log), log' = log,
           ConnectEventStream(s, version, cursor)
    PROVE  /\ eventSource' \in [session : Sessions, version : Nat]
           /\ DOMAIN streams' \subseteq [session : Sessions, version : Nat]
           /\ \A k \in DOMAIN streams' :
                 streams'[k] \in 0..MaxEvents /\ streams'[k] <= Len(log')
BY DEF ConnectEventStream, StillOpen, TypeInv, TypeOK

LEMMA CloseTyped ==
    ASSUME TypeInv, log' = log, CloseEventStream
    PROVE  /\ eventSource' = Null
           /\ DOMAIN streams' \subseteq [session : Sessions, version : Nat]
           /\ \A k \in DOMAIN streams' :
                 streams'[k] \in 0..MaxEvents /\ streams'[k] <= Len(log')
BY DEF CloseEventStream, StillOpen, TypeInv, TypeOK

LEMMA SelectTyped ==
    ASSUME PageAssumption, TypeInv, NEW s \in Sessions, NEW calls,
           GoodPending(calls, Len(log)), BeginSelect(s, calls),
           UNCHANGED <<api, messages, timeline, resets, errors>>,
           clicks' \in 0..MaxClicks,
           current' \in {Null} \cup SessionData
    PROVE  TypeInv'
<1>1. selectionVersion' \in Nat /\ log' = log
  BY DEF BeginSelect, TypeInv, TypeOK, api
<1>2. CloseEventStream
  BY DEF BeginSelect
<1>3. GoodPending(pending', Len(log'))
  <2>1. GoodCall(Call("select", s, s, selectionVersion + 1, 0), Len(log))
    <3>1. selectionVersion + 1 \in Nat /\ 0 \in 0..MaxEvents
      BY DEF TypeInv, TypeOK, PageAssumption
    <3> QED
      BY <3>1, CallGood DEF CallFns, ListCalls
  <2> QED
    BY <2>1, <1>1, AddGood DEF BeginSelect
<1>4. desktop' = Null
  BY DEF BeginSelect
<1>5. Waiting' \subseteq Calls
  BY <1>3 DEF GoodPending, GoodCall, Waiting
<1> QED
  BY <1>1, <1>2, <1>3, <1>4, <1>5, CloseTyped
     DEF TypeInv, TypeOK, api, timeline

-----------------------------------------------------------------------------
(* The types are kept. *)

LEMMA TypeInit ==
    ASSUME PageAssumption, Init
    PROVE  TypeInv
<1> DEFINE none == [c \in {} |-> 0]
<1>1. GoodPending(none, 0)
  BY DEF GoodPending
<1>2. GoodCall(Ask("start", Null), 0)
  BY AskGood DEF CallFns, ListCalls
<1>3. GoodPending(pending, 0)
  <2> HIDE DEF none
  <2>1. GoodPending(BagAdd(none, Ask("start", Null)), 0)
    BY <1>1, <1>2, AddGood
  <2> QED
    BY <2>1 DEF Init, none
<1>4. Waiting \subseteq Calls
  BY <1>3 DEF GoodPending, GoodCall, Waiting
<1>5. status \in [Sessions -> Statuses]
  BY DEF Init, Statuses
<1>6. Len(log) = 0 /\ log \in Seq(Sessions)
  BY DEF Init
<1> QED
  BY <1>3, <1>4, <1>5, <1>6 DEF Init, TypeInv, TypeOK, PageAssumption

LEMMA TypeApi ==
    ASSUME PageAssumption, TypeInv,
           \/ \E s \in Sessions : EventAppended(s) \/ RunEnds(s)
           \/ \E c \in Waiting : Answer(c)
    PROVE  TypeInv'
<1>1. ASSUME NEW s \in Sessions, EventAppended(s)
      PROVE  TypeInv'
  <2>1. /\ log' \in Seq(Sessions) /\ Len(log') = Len(log) + 1
        /\ Len(log') \in 0..MaxEvents /\ Len(log) \in Nat
    BY <1>1 DEF EventAppended, TypeInv, TypeOK, PageAssumption
  <2>2. GoodPending(pending', Len(log'))
    BY <1>1, <2>1, LongerLog DEF EventAppended, TypeInv, PageAssumption
  <2> QED
    BY <1>1, <2>1, <2>2
       DEF EventAppended, TypeInv, TypeOK, Waiting, page, timeline, connection, bounds
<1>2. ASSUME NEW s \in Sessions, RunEnds(s)
      PROVE  TypeInv'
  <2>1. status' \in [Sessions -> Statuses]
    BY <1>2 DEF RunEnds, TypeInv, TypeOK, Statuses
  <2> QED
    BY <1>2, <2>1
       DEF RunEnds, TypeInv, TypeOK, Waiting, page, timeline, connection, bounds
<1>3. ASSUME NEW c \in Waiting, Answer(c)
      PROVE  TypeInv'
  <2>1. GoodCall(c, Len(log))
    BY DEF TypeInv, GoodPending, Waiting
  <2>2. GoodCall([c EXCEPT !.reply = Reply(c)], Len(log))
    BY <1>3, <2>1, ReplyGood DEF Answer, TypeInv
  <2>3. GoodPending(pending', Len(log'))
    BY <1>3, <2>2, AddGood, RemoveGood DEF Answer, TypeInv
  <2>4. Waiting' \subseteq Calls
    BY <2>3 DEF GoodPending, GoodCall, Waiting
  <2>5. status' \in [Sessions -> Statuses]
    BY <1>3, StatusTyped DEF Answer, TypeInv, TypeOK
  <2> QED
    BY <1>3, <2>3, <2>4, <2>5
       DEF Answer, TypeInv, TypeOK, page, timeline, connection, bounds
<1> QED
  BY <1>1, <1>2, <1>3

LEMMA TypeStream ==
    ASSUME PageAssumption, TypeInv, NEW k \in DOMAIN streams,
           StreamReset(k) \/ \E refreshes \in BOOLEAN : HandleStreamMessage(k, refreshes)
    PROVE  TypeInv'
<1>1. k \in [session : Sessions, version : Nat] /\ streams[k] \in 0..MaxEvents
  BY DEF TypeInv, TypeOK
<1>2. ASSUME StreamReset(k), current = Null
      PROVE  TypeInv'
  <2>1. ConnectEventStream(k.session, k.version, lastEventId) /\ log' = log
    BY <1>2 DEF StreamReset, api
  <2>2. /\ eventSource' \in [session : Sessions, version : Nat]
        /\ DOMAIN streams' \subseteq [session : Sessions, version : Nat]
        /\ \A j \in DOMAIN streams' :
              streams'[j] \in 0..MaxEvents /\ streams'[j] <= Len(log')
    BY <1>1, <2>1, ConnectTyped DEF TypeInv, TypeOK
  <2>3. resets' \in 0..MaxFaults
    BY <1>2 DEF StreamReset, TypeInv, TypeOK, PageAssumption
  <2> QED
    BY <1>2, <2>2, <2>3 DEF StreamReset, TypeInv, TypeOK, Waiting, api, timeline
<1>3. ASSUME StreamReset(k), current # Null
      PROVE  TypeInv'
  <2> DEFINE call == Call("reset", current.id, k.session, k.version, lastEventId)
  <2>1. GoodCall(call, Len(log))
    BY <1>1, <1>3, CallGood DEF CallFns, ListCalls, TypeInv, TypeOK, SessionData
  <2>2. GoodPending(pending', Len(log'))
    BY <1>3, <2>1, AddGood DEF StreamReset, TypeInv, api
  <2>3. Waiting' \subseteq Calls
    BY <2>2 DEF GoodPending, GoodCall, Waiting
  <2>4. streams' = [j \in DOMAIN streams \ {k} |-> streams[j]]
    BY <1>3 DEF StreamReset
  <2>5. resets' \in 0..MaxFaults
    BY <1>3 DEF StreamReset, TypeInv, TypeOK, PageAssumption
  <2> QED
    BY <1>3, <2>2, <2>3, <2>4, <2>5 DEF StreamReset, TypeInv, TypeOK, api, timeline
<1>4. ASSUME NEW refreshes \in BOOLEAN, HandleStreamMessage(k, refreshes)
      PROVE  TypeInv'
  <2>1. PICK i \in NextOf(k) :
          /\ streams' = [streams EXCEPT ![k] = i]
          /\ IF k.version = selectionVersion
             THEN /\ AddEvents({i})
                  /\ pending' = IF refreshes /\ current # Null
                                THEN BagAdd(pending, Ask("refresh", current.id))
                                ELSE pending
             ELSE UNCHANGED <<timeline, pending>>
          /\ UNCHANGED <<api, current, messages, eventSource, selectionVersion,
                         desktop, bounds>>
    BY <1>4 DEF HandleStreamMessage
  <2>2. i \in 1..MaxEvents /\ i <= Len(log)
    BY <1>1, EventIds DEF NextOf, TypeInv, TypeOK, PageAssumption
  <2>3. /\ shown' \subseteq 1..MaxEvents
        /\ lastEventId' \in 0..MaxEvents
        /\ lastEventId' <= Len(log)
    BY <2>1, <2>2 DEF AddEvents, Latest, timeline, TypeInv, TypeOK
  <2>4. GoodPending(pending', Len(log'))
    <3>1. current # Null => GoodCall(Ask("refresh", current.id), Len(log))
      BY AskGood DEF CallFns, ListCalls, TypeInv, TypeOK, SessionData
    <3> QED
      BY <2>1, <3>1, AddGood DEF TypeInv, timeline, api
  <2>5. Waiting' \subseteq Calls
    BY <2>4 DEF GoodPending, GoodCall, Waiting
  <2> QED
    BY <2>1, <2>2, <2>3, <2>4, <2>5 DEF TypeInv, TypeOK, api, bounds
<1> QED
  BY <1>2, <1>3, <1>4

LEMMA AddedTyped ==
    ASSUME PageAssumption, TypeInv, NEW s, NEW after \in 0..MaxEvents,
           NEW upto \in 0..MaxEvents, upto <= Len(log),
           AddEvents(EventsOf(s, after, upto))
    PROVE  /\ shown' \subseteq 1..MaxEvents
           /\ lastEventId' \in 0..MaxEvents
           /\ lastEventId' <= Len(log)
<1>1. /\ EventsOf(s, after, upto) \subseteq 1..MaxEvents
      /\ \A i \in EventsOf(s, after, upto) : i <= upto
  BY EventIds DEF TypeInv
<1>2. \A i \in EventsOf(s, after, upto) : i <= Len(log)
  BY <1>1 DEF TypeInv, TypeOK
<1> DEFINE ids == EventsOf(s, after, upto)
<1>3. /\ shown' = shown \cup ids
      /\ lastEventId' \in ids \cup {lastEventId}
  BY DEF AddEvents, Latest
<1> HIDE DEF ids
<1>4. ids \subseteq 1..MaxEvents /\ \A i \in ids : i <= Len(log)
  BY <1>1, <1>2 DEF ids
<1> QED
  BY <1>3, <1>4 DEF TypeInv, TypeOK

LEMMA TypeSelect ==
    ASSUME PageAssumption, TypeInv, NEW c \in Returned("select"),
           SelectOutdated(c) \/ SelectLoaded(c)
    PROVE  TypeInv'
<1>1. GoodCall(c, Len(log)) /\ c.fn = "select" /\ c.reply # Null
  BY DEF Returned, TypeInv, GoodPending, Waiting
<1>2. /\ c.asked \in Sessions /\ c.version \in Nat
      /\ c.reply.upto \in 0..MaxEvents /\ c.reply.upto <= Len(log)
      /\ c.reply.status[c.asked] \in Statuses \ {"NONE", "GONE"}
  BY <1>1 DEF GoodCall, Calls, Replies, ListCalls
<1>3. GoodPending(BagRemove(pending, c), Len(log))
  BY RemoveGood DEF TypeInv
<1>4. ASSUME SelectOutdated(c)
      PROVE  TypeInv'
  <2>1. GoodPending(pending', Len(log'))
    BY <1>3, <1>4 DEF SelectOutdated, Resume, api
  <2>2. Waiting' \subseteq Calls
    BY <2>1 DEF GoodPending, GoodCall, Waiting
  <2> QED
    BY <1>4, <2>1, <2>2
       DEF SelectOutdated, Resume, TypeInv, TypeOK, api, page, timeline, connection, bounds
<1>5. ASSUME SelectLoaded(c)
      PROVE  TypeInv'
  <2> DEFINE history == EventsOf(c.asked, 0, c.reply.upto)
  <2>1. UNCHANGED <<api, bounds, selectionVersion>>
    BY <1>5 DEF SelectLoaded, Resume, ResumeAndAsk
  <2>2. /\ history \subseteq 1..MaxEvents
        /\ \A i \in history : i <= Len(log)
    <3>1. history \subseteq 1..MaxEvents /\ \A i \in history : i <= c.reply.upto
      BY <1>2, EventIds DEF TypeInv, PageAssumption
    <3> QED
      BY <1>2, <3>1 DEF TypeInv, TypeOK
  <2>3. /\ shown' \subseteq 1..MaxEvents
        /\ lastEventId' \in 0..MaxEvents
        /\ lastEventId' <= Len(log)
    <3>1. shown' = history /\ lastEventId' \in Latest(history \cup {0})
      BY <1>5 DEF SelectLoaded
    <3> HIDE DEF history
    <3> QED
      BY <2>2, <3>1 DEF Latest, TypeInv, TypeOK, PageAssumption
  <2>4. /\ eventSource' \in [session : Sessions, version : Nat]
        /\ DOMAIN streams' \subseteq [session : Sessions, version : Nat]
        /\ \A j \in DOMAIN streams' :
              streams'[j] \in 0..MaxEvents /\ streams'[j] <= Len(log')
    <3>1. ConnectEventStream(c.asked, c.version, lastEventId')
      BY <1>5 DEF SelectLoaded
    <3>2. log' = log
      BY <2>1 DEF api
    <3> QED
      BY <1>2, <2>3, <3>1, <3>2, ConnectTyped
  <2>5. GoodPending(pending', Len(log'))
    <3>1. GoodCall(Call("vnc", c.asked, c.asked, c.version, 0), Len(log))
      BY <1>2, ZeroTyped, CallGood DEF CallFns, ListCalls
    <3>2. GoodPending(BagAdd(BagRemove(pending, c),
                             Call("vnc", c.asked, c.asked, c.version, 0)), Len(log))
      BY <1>3, <3>1, AddGood
    <3> QED
      BY <1>3, <1>5, <3>2 DEF SelectLoaded, Resume, ResumeAndAsk, api
  <2>6. Waiting' \subseteq Calls
    BY <2>5 DEF GoodPending, GoodCall, Waiting
  <2>7. /\ current' \in SessionData
        /\ messages' \in Sessions
        /\ desktop' \in Sessions \cup {Null}
    BY <1>2, <1>5 DEF SelectLoaded, TypeInv, TypeOK, SessionData
  <2> QED
    BY <2>1, <2>3, <2>4, <2>5, <2>6, <2>7 DEF TypeInv, TypeOK, api, bounds
<1> QED
  BY <1>4, <1>5

LEMMA TypeReload ==
    ASSUME PageAssumption, TypeInv, NEW c \in Returned("reset"), HistoryReloaded(c)
    PROVE  TypeInv'
<1>1. GoodCall(c, Len(log)) /\ c.fn = "reset" /\ c.reply # Null
  BY DEF Returned, TypeInv, GoodPending, Waiting
<1>2. /\ c.target \in Sessions /\ c.version \in Nat /\ c.after \in 0..MaxEvents
      /\ c.reply.upto \in 0..MaxEvents /\ c.reply.upto <= Len(log)
  BY <1>1 DEF GoodCall, Calls, Replies, ListCalls
<1>3. GoodPending(pending', Len(log')) /\ log' = log
  BY RemoveGood DEF TypeInv, HistoryReloaded, Resume, api
<1>4. Waiting' \subseteq Calls
  BY <1>3 DEF GoodPending, GoodCall, Waiting
<1>5. /\ shown' \subseteq 1..MaxEvents
      /\ lastEventId' \in 0..MaxEvents
      /\ lastEventId' <= Len(log)
  BY <1>2, AddedTyped DEF HistoryReloaded
<1>6. /\ eventSource' \in [session : Sessions, version : Nat]
      /\ DOMAIN streams' \subseteq [session : Sessions, version : Nat]
      /\ \A j \in DOMAIN streams' :
            streams'[j] \in 0..MaxEvents /\ streams'[j] <= Len(log')
  <2>1. ConnectEventStream(c.target, c.version, lastEventId')
    BY DEF HistoryReloaded
  <2> QED
    BY <1>2, <1>3, <1>5, <2>1, ConnectTyped
<1> QED
  BY <1>3, <1>4, <1>5, <1>6 DEF HistoryReloaded, Resume, TypeInv, TypeOK, api, bounds

(* The continuations that leave the stream alone. *)
LEMMA TypeQuiet ==
    ASSUME PageAssumption, TypeInv,
           \/ \E c \in Returned("refresh") \cup Returned("submitted") : RefreshLoaded(c)
           \/ \E c \in Returned("vnc") : VncIssued(c)
           \/ \E c \in Returned("create") : Created(c)
           \/ \E c \in Returned("submit") : Submitted(c)
    PROVE  TypeInv'
<1>1. \A c \in Waiting : GoodCall(c, Len(log)) /\ GoodPending(BagRemove(pending, c), Len(log))
  BY RemoveGood DEF TypeInv, GoodPending, Waiting
<1>2. ASSUME NEW c \in Returned("refresh") \cup Returned("submitted"), RefreshLoaded(c)
      PROVE  TypeInv'
  <2>1. GoodPending(pending', Len(log'))
    BY <1>1, <1>2 DEF RefreshLoaded, Resume, Returned, api
  <2>2. Waiting' \subseteq Calls
    BY <2>1 DEF GoodPending, GoodCall, Waiting
  <2>3. c.asked \in Sessions /\ c.reply.status[c.asked] \in Statuses \ {"NONE", "GONE"}
    BY <1>1 DEF GoodCall, Returned, ListCalls
  <2>4. /\ current' \in {Null} \cup SessionData
        /\ messages' \in Sessions \cup {Null}
    BY <1>2, <2>3 DEF RefreshLoaded, IsCurrent, TypeInv, TypeOK, SessionData
  <2> QED
    BY <1>2, <2>1, <2>2, <2>4
       DEF RefreshLoaded, Resume, TypeInv, TypeOK, api, timeline, connection, bounds
<1>3. ASSUME NEW c \in Returned("vnc"), VncIssued(c)
      PROVE  TypeInv'
  <2>1. GoodPending(pending', Len(log'))
    BY <1>1, <1>3 DEF VncIssued, Resume, Returned, api
  <2>2. Waiting' \subseteq Calls
    BY <2>1 DEF GoodPending, GoodCall, Waiting
  <2>3. desktop' \in Sessions \cup {Null}
    BY <1>1, <1>3 DEF VncIssued, GoodCall, Returned, ListCalls, TypeInv, TypeOK
  <2> QED
    BY <1>3, <2>1, <2>2, <2>3
       DEF VncIssued, Resume, TypeInv, TypeOK, api, timeline, connection, bounds
<1>4. ASSUME NEW c \in Returned("create"), Created(c)
      PROVE  TypeInv'
  <2>1. GoodCall(Call("created", Null, c.asked, 0, 0), Len(log))
    BY <1>1, ZeroTyped, CallGood DEF GoodCall, Returned, ListCalls, CallFns
  <2>2. GoodPending(pending', Len(log'))
    BY <1>1, <1>4, <2>1, AddGood DEF Created, ResumeAndAsk, Returned, api
  <2>3. Waiting' \subseteq Calls
    BY <2>2 DEF GoodPending, GoodCall, Waiting
  <2> QED
    BY <1>4, <2>2, <2>3
       DEF Created, ResumeAndAsk, TypeInv, TypeOK, api, page, timeline, connection, bounds
<1>5. ASSUME NEW c \in Returned("submit"), Submitted(c)
      PROVE  TypeInv'
  <2>1. current # Null => GoodCall(Ask("submitted", current.id), Len(log))
    BY AskGood DEF CallFns, ListCalls, TypeInv, TypeOK, SessionData
  <2>2. GoodPending(pending', Len(log'))
    BY <1>1, <1>5, <2>1, AddGood DEF Submitted, Resume, ResumeAndAsk, Returned, api
  <2>3. Waiting' \subseteq Calls
    BY <2>2 DEF GoodPending, GoodCall, Waiting
  <2> QED
    BY <1>5, <2>2, <2>3
       DEF Submitted, Resume, ResumeAndAsk, TypeInv, TypeOK, api, page, timeline,
           connection, bounds
<1> QED
  BY <1>2, <1>3, <1>4, <1>5

(* The continuations that close the stream. *)
LEMMA TypeClosing ==
    ASSUME PageAssumption, TypeInv,
           \/ \E c \in Returned("stop") : Stopped(c)
           \/ \E c \in Returned("delete") : Deleted(c)
    PROVE  TypeInv'
<1>1. \A c \in Waiting : GoodCall(c, Len(log)) /\ GoodPending(BagRemove(pending, c), Len(log))
  BY RemoveGood DEF TypeInv, GoodPending, Waiting
<1>2. \A fn \in {"stopped", "deleted"} : GoodCall(Ask(fn, Null), Len(log))
  BY AskGood DEF CallFns, ListCalls
<1>3. ASSUME NEW c \in Returned("stop"), Stopped(c)
      PROVE  TypeInv'
  <2>1. GoodPending(pending', Len(log')) /\ log' = log
    BY <1>1, <1>2, <1>3, AddGood DEF Stopped, ResumeAndAsk, Returned, api
  <2>2. Waiting' \subseteq Calls
    BY <2>1 DEF GoodPending, GoodCall, Waiting
  <2>3. current' \in SessionData
    BY <1>1, <1>3 DEF Stopped, GoodCall, Returned, ListCalls, SessionData
  <2>4. CloseEventStream
    BY <1>3 DEF Stopped
  <2> QED
    BY <1>3, <2>1, <2>2, <2>3, <2>4, CloseTyped
       DEF Stopped, ResumeAndAsk, TypeInv, TypeOK, api, timeline, bounds
<1>4. ASSUME NEW c \in Returned("delete"), Deleted(c)
      PROVE  TypeInv'
  <2>1. GoodPending(pending', Len(log')) /\ log' = log
    BY <1>1, <1>2, <1>4, AddGood DEF Deleted, ResumeAndAsk, Returned, api
  <2>2. Waiting' \subseteq Calls
    BY <2>1 DEF GoodPending, GoodCall, Waiting
  <2>3. CloseEventStream
    BY <1>4 DEF Deleted
  <2>4. lastEventId' \in 0..MaxEvents /\ lastEventId' <= Len(log')
    BY <1>4, <2>1, ZeroTyped DEF Deleted, TypeInv, TypeOK
  <2> QED
    BY <1>4, <2>1, <2>2, <2>3, <2>4, CloseTyped
       DEF Deleted, ResumeAndAsk, TypeInv, TypeOK, api, bounds
<1> QED
  BY <1>3, <1>4

LEMMA TypeListed ==
    ASSUME PageAssumption, TypeInv, NEW fn \in ListCalls, NEW c \in Returned(fn),
           SessionsLoaded(c)
    PROVE  TypeInv'
<1>1. GoodCall(c, Len(log)) /\ GoodPending(BagRemove(pending, c), Len(log))
  BY RemoveGood DEF TypeInv, GoodPending, Waiting, Returned
<1>2. c.reply.status \in [Sessions -> Statuses]
  BY <1>1 DEF GoodCall, Returned
<1>3. current' \in {Null} \cup SessionData
  BY <1>2 DEF SessionsLoaded, Listed, TypeInv, TypeOK, SessionData
<1>4. UNCHANGED <<api, messages, timeline, resets, errors>> /\ clicks' = clicks
  BY DEF SessionsLoaded, Resume, bounds
<1>5. CASE Choices(c) = {}
  <2>1. GoodPending(pending', Len(log'))
    BY <1>1, <1>4, <1>5 DEF SessionsLoaded, Resume, api
  <2>2. Waiting' \subseteq Calls
    BY <2>1 DEF GoodPending, GoodCall, Waiting
  <2> QED
    BY <1>3, <1>4, <1>5, <2>1, <2>2
       DEF SessionsLoaded, TypeInv, TypeOK, api, timeline, connection
<1>6. CASE Choices(c) # {}
  <2>1. PICK s \in Choices(c) : BeginSelect(s, BagRemove(pending, c))
    BY <1>6 DEF SessionsLoaded
  <2>2. s \in Sessions
    <3>1. c.fn = "created" => c.target \in Sessions
      BY <1>1 DEF GoodCall
    <3> QED
      BY <3>1 DEF Choices, Listed
  <2>3. clicks' \in 0..MaxClicks
    BY <1>4 DEF TypeInv, TypeOK
  <2> QED
    BY <1>1, <1>3, <1>4, <2>1, <2>2, <2>3, SelectTyped
<1> QED
  BY <1>5, <1>6

LEMMA TypeFails ==
    ASSUME PageAssumption, TypeInv, NEW c \in Waiting, SubmitFails(c) \/ CallFails(c)
    PROVE  TypeInv'
<1>1. GoodPending(BagRemove(pending, c), Len(log))
  BY RemoveGood DEF TypeInv
<1>2. current # Null => GoodCall(Ask("refresh", current.id), Len(log))
  BY AskGood DEF CallFns, ListCalls, TypeInv, TypeOK, SessionData
<1>3. GoodPending(pending', Len(log'))
  BY <1>1, <1>2, AddGood DEF SubmitFails, CallFails, api
<1>4. Waiting' \subseteq Calls
  BY <1>3 DEF GoodPending, GoodCall, Waiting
<1>5. errors' \in 0..MaxFaults
  BY DEF SubmitFails, CallFails, CanFail, TypeInv, TypeOK, PageAssumption
<1> QED
  BY <1>3, <1>4, <1>5
     DEF SubmitFails, CallFails, TypeInv, TypeOK, api, page, timeline, connection

LEMMA TypeClicks ==
    ASSUME PageAssumption, TypeInv, UserClicks
    PROVE  TypeInv'
<1>1. clicks' \in 0..MaxClicks /\ UNCHANGED <<api, resets, errors>>
  BY DEF UserClicks, TypeInv, TypeOK, PageAssumption
<1>2. ASSUME NEW call, GoodCall(call, Len(log)), Click(call)
      PROVE  TypeInv'
  <2>1. GoodPending(pending', Len(log'))
    BY <1>1, <1>2, AddGood DEF Click, TypeInv, api
  <2>2. Waiting' \subseteq Calls
    BY <2>1 DEF GoodPending, GoodCall, Waiting
  <2> QED
    BY <1>1, <1>2, <2>1, <2>2 DEF Click, TypeInv, TypeOK, api, page, timeline, connection
<1>3. \A fn \in {"create", "submit", "stop", "delete"}, s \in Sessions :
          GoodCall(Ask(fn, s), Len(log))
  BY AskGood DEF CallFns, ListCalls
<1>4. current # Null => current.id \in Sessions
  BY DEF TypeInv, TypeOK, SessionData
<1>5. ASSUME NEW s \in Sessions, ClickSelect(s)
      PROVE  TypeInv'
  <2>1. /\ GoodPending(pending, Len(log)) /\ BeginSelect(s, pending)
        /\ UNCHANGED <<current, messages, timeline>>
    BY <1>5 DEF ClickSelect, TypeInv
  <2>2. TypeOK
    BY DEF TypeInv
  <2>3. current' \in {Null} \cup SessionData
    BY <2>1, <2>2 DEF TypeOK
  <2> QED
    BY <1>1, <2>1, <2>3, SelectTyped
<1>6. CASE ClickCreate
  BY <1>2, <1>3, <1>6 DEF ClickCreate
<1>7. CASE ClickReloadVnc
  <2>1. current # Null =>
          GoodCall(Call("vnc", current.id, current.id, selectionVersion, 0), Len(log))
    BY <1>4, ZeroTyped, CallGood DEF CallFns, ListCalls, TypeInv, TypeOK
  <2> QED
    BY <1>2, <1>7, <2>1 DEF ClickReloadVnc
<1>8. CASE ClickSubmit \/ ClickStop \/ ClickDelete
  BY <1>2, <1>3, <1>4, <1>8 DEF ClickSubmit, ClickStop, ClickDelete
<1> QED
  BY <1>5, <1>6, <1>7, <1>8 DEF UserClicks

LEMMA TypeNext ==
    ASSUME PageAssumption, TypeInv, [Next]_vars
    PROVE  TypeInv'
<1>1. CASE Continue
  BY <1>1, TypeSelect, TypeReload, TypeQuiet, TypeClosing, TypeListed DEF Continue
<1>2. CASE UNCHANGED vars
  BY <1>2 DEF vars, api, page, timeline, connection, bounds, TypeInv, TypeOK, Waiting
<1> QED
  BY <1>1, <1>2, TypeApi, TypeStream, TypeFails, TypeClicks DEF Next

LEMMA TypeInvariant == Spec => []TypeInv
<1>1. Init => TypeInv
  BY TypeInit, PageAssumption
<1>2. TypeInv /\ [Next]_vars => TypeInv'
  BY TypeNext, PageAssumption
<1> QED
  BY <1>1, <1>2, PTL DEF Spec

(* The page's state keeps its types, and a deleted session never becomes   *)
(* the current one once it is out of the list.                             *)
THEOREM PageTyped == Spec => []TypeOK
<1>1. TypeInv => TypeOK
  BY DEF TypeInv
<1> QED
  BY <1>1, TypeInvariant, PTL

-----------------------------------------------------------------------------
(* One stream. *)

LEMMA StreamsAfter ==
    ASSUME OneStream
    PROVE  /\ \A s, version, cursor :
                 ConnectEventStream(s, version, cursor)
                     => /\ eventSource' = [session |-> s, version |-> version]
                        /\ DOMAIN streams' = {eventSource'}
                        /\ streams'[eventSource'] = cursor
           /\ CloseEventStream => DOMAIN streams' = {}
BY DEF OneStream, ConnectEventStream, CloseEventStream, StillOpen

LEMMA OneStreamNext ==
    ASSUME OneStream, [Next]_vars
    PROVE  OneStream'
<1>1. \A s, version, cursor : ConnectEventStream(s, version, cursor) => OneStream'
  BY StreamsAfter DEF OneStream
<1>2. CloseEventStream => OneStream'
  BY StreamsAfter DEF OneStream
<1>3. UNCHANGED connection => OneStream'
  BY DEF connection, OneStream
<1>4. \A s, calls : BeginSelect(s, calls) => OneStream'
  BY <1>2 DEF BeginSelect
<1>5. ASSUME NEW k \in DOMAIN streams, StreamReset(k)
      PROVE  OneStream'
  <2>1. CASE current = Null
    BY <1>1, <1>5, <2>1 DEF StreamReset
  <2>2. CASE current # Null
    BY <1>5, <2>2 DEF StreamReset, OneStream
  <2> QED
    BY <2>1, <2>2
<1>6. ASSUME NEW k \in DOMAIN streams, NEW refreshes \in BOOLEAN,
             HandleStreamMessage(k, refreshes)
      PROVE  OneStream'
  BY <1>6 DEF HandleStreamMessage, OneStream
<1>7. CASE Continue
  <2>1. ASSUME NEW c, SelectLoaded(c)
        PROVE  OneStream'
    <3>1. ConnectEventStream(c.asked, c.version, lastEventId')
      BY <2>1 DEF SelectLoaded
    <3> QED
      BY <1>1, <3>1
  <2>2. ASSUME NEW c, HistoryReloaded(c)
        PROVE  OneStream'
    <3>1. ConnectEventStream(c.target, c.version, lastEventId')
      BY <2>2 DEF HistoryReloaded
    <3> QED
      BY <1>1, <3>1
  <2>3. ASSUME NEW c,
               SelectOutdated(c) \/ RefreshLoaded(c) \/ VncIssued(c) \/ Created(c)
                   \/ Submitted(c)
        PROVE  OneStream'
    BY <1>3, <2>3
       DEF SelectOutdated, RefreshLoaded, VncIssued, Created, Submitted, page
  <2>4. ASSUME NEW c, Stopped(c) \/ Deleted(c)
        PROVE  OneStream'
    BY <1>2, <2>4 DEF Stopped, Deleted
  <2>5. ASSUME NEW c, SessionsLoaded(c)
        PROVE  OneStream'
    BY <1>3, <1>4, <2>5 DEF SessionsLoaded
  <2> QED
    BY <1>7, <2>1, <2>2, <2>3, <2>4, <2>5 DEF Continue
<1>8. CASE UserClicks
  <2>1. ASSUME NEW s, ClickSelect(s)
        PROVE  OneStream'
    BY <1>4, <2>1 DEF ClickSelect
  <2>2. ASSUME NEW call, Click(call)
        PROVE  OneStream'
    BY <1>3, <2>2 DEF Click, page
  <2> QED
    BY <1>8, <2>1, <2>2
       DEF UserClicks, ClickCreate, ClickReloadVnc, ClickSubmit, ClickStop, ClickDelete
<1>9. ASSUME NEW c, Answer(c) \/ SubmitFails(c) \/ CallFails(c)
      PROVE  OneStream'
  BY <1>3, <1>9 DEF Answer, SubmitFails, CallFails, page
<1>10. ASSUME NEW s, EventAppended(s) \/ RunEnds(s)
       PROVE  OneStream'
  BY <1>3, <1>10 DEF EventAppended, RunEnds, page
<1>11. CASE UNCHANGED vars
  BY <1>3, <1>11 DEF vars, page
<1> QED
  BY <1>5, <1>6, <1>7, <1>8, <1>9, <1>10, <1>11 DEF Next

(* At most one EventSource is open, whatever answers and resets overlap.   *)
THEOREM OnlyOneStream == Spec => []OneStream
<1>1. Init => OneStream
  BY DEF Init, OneStream
<1> QED
  BY <1>1, OneStreamNext, PTL DEF Spec

-----------------------------------------------------------------------------
(* The cursor. *)

(* What a reply brings is made of ids of the log. *)
LEMMA HistoryIds ==
    ASSUME TypeInv, NEW c \in Waiting, c.fn \in {"select", "reset"}, c.reply # Null
    PROVE  /\ c.reply.upto \in 0..MaxEvents
           /\ c.reply.upto <= Len(log)
           /\ c.after \in 0..MaxEvents
           /\ EventsOf(c.asked, c.after, c.reply.upto) \subseteq Nat
           /\ EventsOf(c.asked, 0, c.reply.upto) \subseteq Nat
<1>1. /\ c.reply.upto \in 0..MaxEvents
      /\ c.reply.upto <= Len(log)
      /\ c.after \in 0..MaxEvents
  BY DEF TypeInv, GoodPending, Waiting, GoodCall, Calls, Replies
<1> QED
  BY <1>1, PageAssumption DEF EventsOf, PageAssumption

LEMMA CursorNext ==
    ASSUME TypeInv, CursorIsLastShown, [Next]_vars
    PROVE  CursorIsLastShown'
<1>1. ASSUME NEW ids, ids \subseteq Nat, AddEvents(ids)
      PROVE  CursorIsLastShown'
  <2>1. shown \subseteq Nat /\ lastEventId \in Nat
    BY DEF TypeInv, TypeOK
  <2> QED
    BY <1>1, <2>1 DEF AddEvents, Latest, CursorIsLastShown
<1>2. UNCHANGED timeline => CursorIsLastShown'
  BY DEF timeline, CursorIsLastShown
<1>3. ASSUME NEW k \in DOMAIN streams, StreamReset(k)
      PROVE  CursorIsLastShown'
  BY <1>2, <1>3 DEF StreamReset
<1>4. ASSUME NEW k \in DOMAIN streams, NEW refreshes \in BOOLEAN,
             HandleStreamMessage(k, refreshes)
      PROVE  CursorIsLastShown'
  <2>1. PICK i \in NextOf(k) : AddEvents({i}) \/ UNCHANGED timeline
    BY <1>4 DEF HandleStreamMessage
  <2>2. i \in Nat
    BY PageAssumption DEF NextOf, EventsOf, TypeInv, TypeOK, PageAssumption
  <2> QED
    BY <1>1, <1>2, <2>1, <2>2
<1>5. CASE Continue
  <2>1. ASSUME NEW c \in Returned("select"), SelectLoaded(c)
        PROVE  CursorIsLastShown'
    <3> DEFINE history == EventsOf(c.asked, 0, c.reply.upto)
    <3>1. history \subseteq Nat
      BY HistoryIds DEF Returned
    <3>2. shown' = history /\ lastEventId' \in Latest(history \cup {0})
      BY <2>1 DEF SelectLoaded
    <3> HIDE DEF history
    <3> QED
      BY <3>1, <3>2 DEF Latest, CursorIsLastShown
  <2>2. ASSUME NEW c \in Returned("reset"), HistoryReloaded(c)
        PROVE  CursorIsLastShown'
    BY <1>1, <2>2, HistoryIds DEF HistoryReloaded, Returned
  <2>3. ASSUME NEW c,
               \/ SelectOutdated(c) \/ RefreshLoaded(c) \/ VncIssued(c) \/ Created(c)
               \/ Submitted(c) \/ Stopped(c) \/ SessionsLoaded(c)
        PROVE  CursorIsLastShown'
    BY <1>2, <2>3
       DEF SelectOutdated, RefreshLoaded, VncIssued, Created, Submitted, Stopped,
           SessionsLoaded, page
  <2>4. ASSUME NEW c, Deleted(c)
        PROVE  CursorIsLastShown'
    BY <2>4 DEF Deleted, CursorIsLastShown
  <2> QED
    BY <1>5, <2>1, <2>2, <2>3, <2>4 DEF Continue
<1>6. CASE UserClicks
  BY <1>2, <1>6
     DEF UserClicks, ClickSelect, ClickCreate, ClickReloadVnc, ClickSubmit, ClickStop,
         ClickDelete, Click, page
<1>7. ASSUME NEW c, Answer(c) \/ SubmitFails(c) \/ CallFails(c)
      PROVE  CursorIsLastShown'
  BY <1>2, <1>7 DEF Answer, SubmitFails, CallFails, page
<1>8. ASSUME NEW s, EventAppended(s) \/ RunEnds(s)
      PROVE  CursorIsLastShown'
  BY <1>2, <1>8 DEF EventAppended, RunEnds, page
<1>9. CASE UNCHANGED vars
  BY <1>2, <1>9 DEF vars, page
<1> QED
  BY <1>3, <1>4, <1>5, <1>6, <1>7, <1>8, <1>9 DEF Next

(* A reconnect neither skips an event that is not shown nor starts from    *)
(* the cursor of a session that is gone.                                   *)
THEOREM CursorFitsTimeline == Spec => []CursorIsLastShown
<1>1. Init => CursorIsLastShown
  BY DEF Init, CursorIsLastShown
<1> QED
  BY <1>1, CursorNext, TypeInvariant, PTL DEF Spec

-----------------------------------------------------------------------------
(* Late replies. *)

LEMMA RepliesNext ==
    ASSUME TypeInv, [Next]_vars
    PROVE  /\ messages' \in {messages, Null} \/ IsCurrent(messages)'
           /\ desktop' \in {desktop, Null} \/ IsCurrent(desktop)'
<1> DEFINE Fits == /\ messages' \in {messages, Null} \/ IsCurrent(messages)'
                   /\ desktop' \in {desktop, Null} \/ IsCurrent(desktop)'
<1>1. UNCHANGED <<messages, desktop>> => Fits
  OBVIOUS
<1>2. \A s, calls : BeginSelect(s, calls) /\ UNCHANGED messages => Fits
  BY DEF BeginSelect
<1>3. CASE Continue
  <2>1. ASSUME NEW c \in Returned("select"), SelectLoaded(c)
        PROVE  Fits
    <3>1. GoodCall(c, Len(log)) /\ c.fn = "select" /\ c.reply # Null
      BY DEF Returned, TypeInv, GoodPending, Waiting
    <3>2. /\ current' \in SessionData /\ current'.id = c.asked
          /\ messages' = c.asked
      BY <2>1, <3>1 DEF SelectLoaded, GoodCall, SessionData, ListCalls
    <3>3. IsCurrent(messages)'
      BY <3>2, PageAssumption DEF IsCurrent, PageAssumption
    <3> QED
      BY <2>1, <3>3 DEF SelectLoaded
  <2>2. ASSUME NEW c \in Returned("refresh") \cup Returned("submitted"), RefreshLoaded(c)
        PROVE  Fits
    <3>1. GoodCall(c, Len(log)) /\ c.fn \in {"refresh", "submitted"} /\ c.reply # Null
      BY DEF Returned, TypeInv, GoodPending, Waiting
    <3>2. CASE IsCurrent(c.asked)
      <4>1. current' \in SessionData /\ current'.id = c.asked /\ messages' = c.asked
        BY <2>2, <3>1, <3>2
           DEF RefreshLoaded, IsCurrent, GoodCall, SessionData, TypeInv, TypeOK
      <4> QED
        BY <2>2, <4>1, PageAssumption DEF RefreshLoaded, IsCurrent, PageAssumption
    <3>3. CASE ~IsCurrent(c.asked)
      BY <2>2, <3>3 DEF RefreshLoaded
    <3> QED
      BY <3>2, <3>3
  <2>3. ASSUME NEW c, VncIssued(c)
        PROVE  Fits
    BY <2>3 DEF VncIssued, IsCurrent
  <2>4. ASSUME NEW c, Stopped(c) \/ Deleted(c)
        PROVE  Fits
    BY <2>4 DEF Stopped, Deleted
  <2>5. ASSUME NEW c, SessionsLoaded(c)
        PROVE  Fits
    BY <1>2, <2>5 DEF SessionsLoaded
  <2>6. ASSUME NEW c,
               SelectOutdated(c) \/ HistoryReloaded(c) \/ Created(c) \/ Submitted(c)
        PROVE  Fits
    BY <2>6 DEF SelectOutdated, HistoryReloaded, Created, Submitted, page
  <2> QED
    BY <1>3, <2>1, <2>2, <2>3, <2>4, <2>5, <2>6 DEF Continue
<1>4. ASSUME NEW k,
             StreamReset(k) \/ \E refreshes \in BOOLEAN : HandleStreamMessage(k, refreshes)
      PROVE  Fits
  BY <1>4 DEF StreamReset, HandleStreamMessage
<1>5. CASE UserClicks
  BY <1>2, <1>5
     DEF UserClicks, ClickSelect, ClickCreate, ClickReloadVnc, ClickSubmit, ClickStop,
         ClickDelete, Click, page
<1>6. ASSUME NEW c, Answer(c) \/ SubmitFails(c) \/ CallFails(c)
      PROVE  Fits
  BY <1>6 DEF Answer, SubmitFails, CallFails, page
<1>7. ASSUME NEW s, EventAppended(s) \/ RunEnds(s)
      PROVE  Fits
  BY <1>7 DEF EventAppended, RunEnds, page
<1>8. CASE UNCHANGED vars
  BY <1>8 DEF vars, page
<1> QED
  BY <1>3, <1>4, <1>5, <1>6, <1>7, <1>8 DEF Next

(* No late answer puts another session's messages or desktop on the page.  *)
THEOREM LateRepliesFit == Spec => RepliesFitCurrent
<1>1. TypeInv /\ [Next]_vars =>
        [ /\ messages' \in {messages, Null} \/ IsCurrent(messages)'
          /\ desktop' \in {desktop, Null} \/ IsCurrent(desktop)' ]_vars
  BY RepliesNext
<1> QED
  BY <1>1, TypeInvariant, PTL DEF Spec, RepliesFitCurrent

-----------------------------------------------------------------------------
(* The stream and the rest of the page. *)

(* Only a stream.reset makes a call that reloads the history. *)
NoReload == resets = 0 => \A c \in Waiting : c.fn # "reset"

LEMMA NoReloadNext ==
    ASSUME TypeInv, NoReload, [Next]_vars
    PROVE  NoReload'
<1> SUFFICES ASSUME resets' = 0, NEW d \in Waiting', d.fn = "reset"
             PROVE  FALSE
  BY DEF NoReload
<1>1. resets = 0
  <2>1. resets' = resets \/ resets' = resets + 1
    BY DEF Next, Continue, UserClicks, EventAppended, RunEnds, Answer, SubmitFails,
           CallFails, StreamReset, HandleStreamMessage, SelectOutdated, SelectLoaded,
           HistoryReloaded, RefreshLoaded, VncIssued, Stopped, Deleted, Created,
           Submitted, SessionsLoaded, Resume, ResumeAndAsk, bounds, vars
  <2> QED
    BY <2>1 DEF TypeInv, TypeOK, PageAssumption
<1>2. \A c \in Waiting : c.fn # "reset"
  BY <1>1 DEF NoReload
<1>3. ASSUME DOMAIN pending' \subseteq Waiting
      PROVE  FALSE
  BY <1>2, <1>3 DEF Waiting
<1>4. \A c : DOMAIN BagRemove(pending, c) \subseteq Waiting
  BY DEF BagRemove, Waiting
<1>5. ASSUME NEW calls, DOMAIN calls \subseteq Waiting, NEW x, x.fn # "reset",
             pending' = BagAdd(calls, x)
      PROVE  FALSE
  <2>1. DOMAIN pending' = DOMAIN calls \cup {x}
    BY <1>5 DEF BagAdd
  <2> QED
    BY <1>2, <1>5, <2>1 DEF Waiting
<1>6. \A fn, s : Ask(fn, s).fn = fn
  BY DEF Ask, Call
<1>7. \A fn, s, u, v, a : Call(fn, s, u, v, a).fn = fn
  BY DEF Call
<1>8. \A s, calls : BeginSelect(s, calls) => ~(DOMAIN calls \subseteq Waiting)
  BY <1>5, <1>7 DEF BeginSelect
<1>9. ASSUME NEW c, Resume(c)
      PROVE  FALSE
  BY <1>3, <1>4, <1>9 DEF Resume
<1>10. ASSUME NEW c, NEW x, x.fn # "reset", ResumeAndAsk(c, x)
       PROVE  FALSE
  BY <1>4, <1>5, <1>10 DEF ResumeAndAsk
<1>11. CASE Continue
  <2>1. ASSUME NEW c, SelectLoaded(c)
        PROVE  FALSE
    BY <1>7, <1>9, <1>10, <2>1 DEF SelectLoaded
  <2>2. ASSUME NEW c, Stopped(c) \/ Deleted(c) \/ Created(c) \/ Submitted(c)
        PROVE  FALSE
    BY <1>6, <1>7, <1>9, <1>10, <2>2 DEF Stopped, Deleted, Created, Submitted
  <2>3. ASSUME NEW c,
               SelectOutdated(c) \/ HistoryReloaded(c) \/ RefreshLoaded(c) \/ VncIssued(c)
        PROVE  FALSE
    BY <1>9, <2>3 DEF SelectOutdated, HistoryReloaded, RefreshLoaded, VncIssued
  <2>4. ASSUME NEW c, SessionsLoaded(c)
        PROVE  FALSE
    BY <1>4, <1>8, <1>9, <2>4 DEF SessionsLoaded
  <2> QED
    BY <1>11, <2>1, <2>2, <2>3, <2>4 DEF Continue
<1>12. CASE UserClicks
  <2>1. ASSUME NEW x, x.fn # "reset", Click(x)
        PROVE  FALSE
    BY <1>5, <2>1 DEF Click, Waiting
  <2>2. ASSUME NEW s, ClickSelect(s)
        PROVE  FALSE
    BY <1>8, <2>2 DEF ClickSelect, Waiting
  <2> QED
    BY <1>6, <1>7, <1>12, <2>1, <2>2
       DEF UserClicks, ClickCreate, ClickReloadVnc, ClickSubmit, ClickStop, ClickDelete
<1>13. ASSUME NEW c \in Waiting, Answer(c) \/ SubmitFails(c) \/ CallFails(c)
       PROVE  FALSE
  <2>1. CASE Answer(c)
    <3>1. c \in Calls
      BY DEF TypeInv, TypeOK
    <3>2. [c EXCEPT !.reply = Reply(c)].fn # "reset"
      BY <1>2, <3>1 DEF Calls
    <3> QED
      BY <1>4, <1>5, <2>1, <3>2 DEF Answer
  <2> QED
    BY <1>3, <1>4, <1>5, <1>6, <1>13, <2>1 DEF SubmitFails, CallFails
<1>14. ASSUME NEW k \in DOMAIN streams, NEW refreshes \in BOOLEAN,
              HandleStreamMessage(k, refreshes)
       PROVE  FALSE
  BY <1>3, <1>5, <1>6, <1>14 DEF HandleStreamMessage, Waiting
<1>15. ASSUME NEW k \in DOMAIN streams, StreamReset(k)
       PROVE  FALSE
  BY <1>1, <1>15 DEF StreamReset
<1>16. ASSUME NEW s, EventAppended(s) \/ RunEnds(s)
       PROVE  FALSE
  BY <1>3, <1>16 DEF EventAppended, RunEnds, Waiting
<1>17. CASE UNCHANGED vars
  BY <1>3, <1>17 DEF vars, Waiting
<1> QED
  BY <1>11, <1>12, <1>13, <1>14, <1>15, <1>16, <1>17 DEF Next

(* What a page with an open stream shows. *)
Fits(k) ==
    /\ k.version = selectionVersion
    /\ IsCurrent(k.session)
    /\ messages = k.session
    /\ shown = EventsOf(k.session, 0, streams[k])

LEMMA FitsNext ==
    ASSUME TypeInv, OneStream, NoReload, StreamFitsPage, [Next]_vars
    PROVE  StreamFitsPage'
<1> SUFFICES ASSUME resets' = 0, NEW k \in DOMAIN streams'
             PROVE  Fits(k)'
  BY DEF StreamFitsPage, Fits
<1>1. resets = 0
  <2>1. resets' = resets \/ resets' = resets + 1
    BY DEF Next, Continue, UserClicks, EventAppended, RunEnds, Answer, SubmitFails,
           CallFails, StreamReset, HandleStreamMessage, SelectOutdated, SelectLoaded,
           HistoryReloaded, RefreshLoaded, VncIssued, Stopped, Deleted, Created,
           Submitted, SessionsLoaded, Resume, ResumeAndAsk, bounds, vars
  <2> QED
    BY <2>1 DEF TypeInv, TypeOK, PageAssumption
<1>2. \A j \in DOMAIN streams : Fits(j)
  BY <1>1 DEF StreamFitsPage, Fits
<1>3. ASSUME UNCHANGED <<log, connection, selectionVersion, messages, timeline>>,
             current' = current \/ (current' # Null /\ current'.id = current.id)
      PROVE  Fits(k)'
  <2>1. k \in DOMAIN streams /\ streams'[k] = streams[k]
    BY <1>3 DEF connection
  <2>2. Fits(k)
    BY <1>2, <2>1
  <2> QED
    BY <1>3, <2>1, <2>2 DEF Fits, IsCurrent, EventsOf, timeline
<1>4. ~CloseEventStream
  BY StreamsAfter
<1>5. \A s, calls : ~BeginSelect(s, calls)
  BY <1>4 DEF BeginSelect
<1>6. ASSUME NEW s, EventAppended(s)
      PROVE  Fits(k)'
  <2>1. /\ k \in DOMAIN streams /\ streams' = streams
        /\ UNCHANGED <<selectionVersion, current, messages, shown>>
    BY <1>6 DEF EventAppended, page, connection, timeline
  <2>2. streams[k] \in Nat /\ streams[k] <= Len(log)
    BY <2>1 DEF TypeInv, TypeOK
  <2>3. \A i \in 1..streams[k] : log'[i] = log[i]
    BY <1>6, <2>2 DEF EventAppended, TypeInv, TypeOK
  <2>4. EventsOf(k.session, 0, streams[k])' = EventsOf(k.session, 0, streams[k])
    BY <2>1, <2>2, <2>3 DEF EventsOf
  <2> QED
    BY <1>2, <2>1, <2>4 DEF Fits, IsCurrent
<1>7. ASSUME NEW s, RunEnds(s)
      PROVE  Fits(k)'
  BY <1>3, <1>7 DEF RunEnds, page
<1>8. ASSUME NEW c \in Waiting, Answer(c) \/ SubmitFails(c) \/ CallFails(c)
      PROVE  Fits(k)'
  BY <1>3, <1>8 DEF Answer, SubmitFails, CallFails, page, api
<1>9. ASSUME NEW j \in DOMAIN streams, StreamReset(j)
      PROVE  Fits(k)'
  BY <1>1, <1>9 DEF StreamReset
<1>10. ASSUME NEW j \in DOMAIN streams, NEW refreshes \in BOOLEAN,
              HandleStreamMessage(j, refreshes)
       PROVE  Fits(k)'
  <2>1. j = k /\ Fits(j) /\ j.version = selectionVersion
    BY <1>2, <1>10 DEF HandleStreamMessage, OneStream, Fits
  <2>2. PICK i \in NextOf(j) :
          /\ streams' = [streams EXCEPT ![j] = i]
          /\ AddEvents({i})
          /\ UNCHANGED <<api, current, messages, selectionVersion>>
    BY <1>10, <2>1 DEF HandleStreamMessage
  <2>3. /\ i \in Nat /\ i > streams[j] /\ streams[j] \in Nat
        /\ i <= Len(log) /\ log[i] = j.session
        /\ \A m \in 1..Len(log) : m > streams[j] /\ log[m] = j.session => i <= m
    BY DEF NextOf, EventsOf, TypeInv, TypeOK, PageAssumption
  <2>4. EventsOf(j.session, 0, i) = EventsOf(j.session, 0, streams[j]) \cup {i}
    BY <2>3 DEF EventsOf, TypeInv, TypeOK
  <2>5. EventsOf(j.session, 0, i)' = EventsOf(j.session, 0, i)
    BY <2>2 DEF EventsOf, api
  <2>6. streams'[k] = i
    BY <2>1, <2>2
  <2> QED
    BY <2>1, <2>2, <2>4, <2>5, <2>6 DEF Fits, AddEvents, IsCurrent
<1>11. CASE Continue
  <2>1. ASSUME NEW c \in Returned("select"), SelectLoaded(c)
        PROVE  Fits(k)'
    <3> DEFINE history == EventsOf(c.asked, 0, c.reply.upto)
    <3>1. /\ c \in Waiting /\ c.fn = "select" /\ c.reply # Null
          /\ GoodCall(c, Len(log))
      BY DEF Returned, TypeInv, GoodPending, Waiting
    <3>2. /\ k = [session |-> c.asked, version |-> c.version]
          /\ streams'[k] = lastEventId'
      <4>1. ConnectEventStream(c.asked, c.version, lastEventId')
        BY <2>1 DEF SelectLoaded
      <4> QED
        BY <4>1, StreamsAfter
    <3>3. /\ c.version = selectionVersion /\ selectionVersion' = selectionVersion
          /\ messages' = c.asked /\ shown' = history
          /\ current' = [id |-> c.asked, status |-> c.reply.status[c.asked]]
          /\ lastEventId' \in Latest(history \cup {0})
      BY <2>1 DEF SelectLoaded, Outdated
    <3>4. log' = log
      BY <2>1 DEF SelectLoaded, Resume, ResumeAndAsk, api
    <3>5. IsCurrent(c.asked)'
      <4>1. current' \in SessionData
        BY <3>1, <3>3 DEF GoodCall, SessionData, ListCalls
      <4> QED
        BY <3>3, <4>1, PageAssumption DEF IsCurrent, PageAssumption
    <3>6. EventsOf(c.asked, 0, lastEventId') = history
      <4>1. c.reply.upto \in Nat /\ history \subseteq Nat
        BY <3>1, HistoryIds, PageAssumption DEF PageAssumption
      <4>2. lastEventId' \in history \cup {0} /\ \A i \in history : i <= lastEventId'
        BY <3>3 DEF Latest
      <4>3. lastEventId' \in Nat /\ lastEventId' <= c.reply.upto
        BY <4>1, <4>2 DEF EventsOf
      <4> QED
        BY <4>1, <4>2, <4>3 DEF EventsOf
    <3>7. EventsOf(c.asked, 0, streams[k])' = EventsOf(c.asked, 0, lastEventId')
      BY <3>2, <3>4 DEF EventsOf
    <3> QED
      BY <3>2, <3>3, <3>5, <3>6, <3>7 DEF Fits, IsCurrent
  <2>2. ASSUME NEW c \in Returned("reset"), HistoryReloaded(c)
        PROVE  Fits(k)'
    BY <1>1 DEF NoReload, Returned
  <2>3. ASSUME NEW c \in Returned("refresh") \cup Returned("submitted"), RefreshLoaded(c)
        PROVE  Fits(k)'
    <3>1. GoodCall(c, Len(log)) /\ c.fn \in {"refresh", "submitted"} /\ c.reply # Null
      BY DEF Returned, TypeInv, GoodPending, Waiting
    <3>2. k \in DOMAIN streams /\ Fits(k) /\ UNCHANGED <<connection, selectionVersion, timeline, log>>
      BY <1>2, <2>3 DEF RefreshLoaded, Resume, connection, api
    <3>3. CASE IsCurrent(c.asked)
      <4>1. c.asked = k.session
        BY <3>2, <3>3 DEF Fits, IsCurrent
      <4>2. messages' = messages
        BY <2>3, <3>2, <3>3, <4>1 DEF RefreshLoaded, Fits
      <4>3. current' \in SessionData /\ current'.id = current.id
        BY <2>3, <3>1, <3>3
           DEF RefreshLoaded, IsCurrent, GoodCall, SessionData, TypeInv, TypeOK
      <4>4. current' # Null
        BY <4>3, PageAssumption DEF PageAssumption
      <4> QED
        BY <1>3, <3>2, <4>2, <4>3, <4>4
    <3>4. CASE ~IsCurrent(c.asked)
      BY <1>3, <2>3, <3>2, <3>4 DEF RefreshLoaded
    <3> QED
      BY <3>3, <3>4
  <2>4. ASSUME NEW c, Stopped(c) \/ Deleted(c)
        PROVE  Fits(k)'
    BY <1>4, <2>4 DEF Stopped, Deleted
  <2>5. ASSUME NEW c,
               SelectOutdated(c) \/ VncIssued(c) \/ Created(c) \/ Submitted(c)
        PROVE  Fits(k)'
    BY <1>3, <2>5
       DEF SelectOutdated, VncIssued, Created, Submitted, Resume, ResumeAndAsk, page, api
  <2>6. ASSUME NEW fn \in ListCalls, NEW c \in Returned(fn), SessionsLoaded(c)
        PROVE  Fits(k)'
    <3>1. GoodCall(c, Len(log)) /\ c.fn = fn /\ c.reply # Null
      BY DEF Returned, TypeInv, GoodPending, Waiting
    <3>2. UNCHANGED <<log, connection, selectionVersion, messages, timeline>>
      BY <1>5, <2>6 DEF SessionsLoaded, Resume, api
    <3>3. CASE current # Null /\ current.id \in Listed(c)
      <4>1. current' \in SessionData /\ current'.id = current.id
        BY <2>6, <3>1, <3>3
           DEF SessionsLoaded, Listed, GoodCall, SessionData, TypeInv, TypeOK
      <4> QED
        BY <1>3, <3>2, <4>1, PageAssumption DEF PageAssumption
    <3>4. CASE ~(current # Null /\ current.id \in Listed(c))
      BY <1>3, <2>6, <3>2, <3>4 DEF SessionsLoaded
    <3> QED
      BY <3>3, <3>4
  <2> QED
    BY <1>11, <2>1, <2>2, <2>3, <2>4, <2>5, <2>6 DEF Continue
<1>12. CASE UserClicks
  BY <1>3, <1>5, <1>12
     DEF UserClicks, ClickSelect, ClickCreate, ClickReloadVnc, ClickSubmit, ClickStop,
         ClickDelete, Click, page, api
<1>13. CASE UNCHANGED vars
  BY <1>3, <1>13 DEF vars, page, api
<1> QED
  BY <1>6, <1>7, <1>8, <1>9, <1>10, <1>11, <1>12, <1>13 DEF Next

(* Until a stream.reset is handled, an open stream and everything shown    *)
(* beside it are of one session, and no event up to the cursor is missing. *)
THEOREM PageOfOneSession == Spec => []StreamFitsPage
<1>1. Init => OneStream /\ NoReload /\ StreamFitsPage
  <2>1. ASSUME Init
        PROVE  NoReload
    BY <2>1 DEF Init, NoReload, Waiting, BagAdd, Ask, Call
  <2> QED
    BY <2>1 DEF Init, OneStream, StreamFitsPage
<1>2. OneStream /\ NoReload /\ StreamFitsPage /\ TypeInv /\ [Next]_vars
        => (OneStream /\ NoReload /\ StreamFitsPage)'
  BY OneStreamNext, NoReloadNext, FitsNext
<1> QED
  BY <1>1, <1>2, TypeInvariant, PTL DEF Spec
=============================================================================
