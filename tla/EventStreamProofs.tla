-------------------------- MODULE EventStreamProofs --------------------------
(***************************************************************************)
(* The event path delivers in order and implements the feed, for any       *)
(* number of writers and events, any sizes of pages, queue and wire, and   *)
(* any number of dropped connections and failures of Redis.                *)
(***************************************************************************)
EXTENDS EventStream, DataLemmas, TLAPS

Published(w, e) == writer[w].pc = "publish" /\ writer[w].id = e

(* Who appends: an event is committed before it is published, and an       *)
(* append that has been overtaken by a later one's commit is excused.      *)
WritersInv ==
    /\ events \subseteq 1..(nextId - 1)
    /\ \A w \in Writers : writer[w].pc # "idle" =>
          /\ writer[w].id \in 1..(nextId - 1)
          /\ writer[w].pc = "publish" => writer[w].id \in events
          /\ \A e \in events : writer[w].id < e => writer[w].id \in excused

(* What goes to the reader's view: shown, or on the wire to the page. *)
Sent == shown \cup {wire[i] : i \in DOMAIN wire}

Overran == queue = <<Overflow>>

(* What a connection is made of in each phase of the generator. *)
ConnectionInv ==
    /\ page # "open" => stream.pc = "closed" /\ wire = <<>>
    /\ stream.pc = "closed" => channel = <<>>
    /\ stream.pc # "live" => queue = <<>> /\ pump = "none"
    /\ Overran => pump # "running"
    /\ \A i \in DOMAIN wire : wire[i] = Overflow => i = Len(wire) /\ stream.pc = "closed"

(* The wire ascends from what is shown to the cursor of the generator, and *)
(* nothing up to the cursor has been passed over.                          *)
CursorInv ==
    /\ Sent \subseteq events \cup {Overflow}
    /\ \A i, j \in DOMAIN wire : i < j /\ wire[j] # Overflow => wire[i] < wire[j]
    /\ \A v \in shown, i \in DOMAIN wire : wire[i] # Overflow => v < wire[i]
    /\ \A e \in events \ excused, v \in Sent : e < v => e \in Sent
    /\ stream.pc # "closed" =>
          /\ stream.last \in events \cup {0}
          /\ \A v \in Sent : v <= stream.last
          /\ \A e \in events \ excused : e <= stream.last => e \in Sent

(* A page of the replay is an interval of the log. *)
ReplayInv ==
    /\ stream.pc # "yield" => stream.rows = {}
    /\ stream.pc = "yield" => stream.rows # {}
    /\ stream.rows \subseteq events
    /\ \A x \in stream.rows :
          /\ stream.last < x
          /\ \A e \in events \ excused : stream.last < e /\ e < x => e \in stream.rows

(* From Redis to the queue: what arrives late was overtaken. *)
Pipe == queue \o channel

PipeInv ==
    ~Overran =>
        /\ Pipe \in Seq(events)
        /\ \A j, k \in DOMAIN Pipe : j < k => Pipe[j] <= Pipe[k] \/ Pipe[k] \in excused

(* Once the last page has been read, an event is up to the cursor, in that *)
(* page, on its way through Redis, or about to be published.               *)
Caught(e) ==
    \/ e <= stream.last
    \/ e \in stream.rows
    \/ \E k \in DOMAIN Pipe : Pipe[k] = e
    \/ \E w \in Writers : Published(w, e)

CaughtUp == stream.pc = "live" \/ (stream.pc = "yield" /\ ~stream.full)

CoverInv == CaughtUp /\ ~Overran => \A e \in events \ excused : Caught(e)

StreamInv ==
    /\ TypeOK
    /\ WritersInv
    /\ ConnectionInv
    /\ CursorInv
    /\ ReplayInv
    /\ PipeInv
    /\ CoverInv

-----------------------------------------------------------------------------
(* Cursors and pages. *)

LEMMA Sizes ==
    /\ MaxEvents \in Nat \ {0} /\ PageSize \in Nat \ {0} /\ QueueSize \in Nat \ {0}
    /\ MaxDrops \in Nat /\ MaxLost \in Nat
    /\ Ids = 1..MaxEvents /\ Ids \subseteq Nat \ {0}
    /\ Overflow = 0
BY StreamAssumption DEF Ids, Overflow

LEMMA IdsFinite ==
    ASSUME NEW S \in SUBSET Ids
    PROVE  S \in SUBSET Nat /\ IsFiniteSet(S)
<1>1. MaxEvents \in Nat /\ Ids = 1..MaxEvents
  BY StreamAssumption DEF Ids
<1>2. IsFiniteSet(Ids) /\ Ids \subseteq Nat
  BY <1>1, FS_Interval
<1> QED
  BY <1>2, FS_Subset

LEMMA LastEventIdIsLast ==
    ASSUME shown \subseteq Ids
    PROVE  /\ LastEventId \in shown \cup {0}
           /\ LastEventId \in Nat
           /\ \A v \in shown : v <= LastEventId
<1>1. shown \in SUBSET Nat /\ IsFiniteSet(shown)
  BY IdsFinite
<1>2. CASE shown = {}
  BY <1>2 DEF LastEventId
<1>3. CASE shown # {}
  <2>1. \E e \in shown : \A f \in shown : f <= e
    BY <1>1, <1>3, GreatestElement
  <2>2. Last(shown) \in shown /\ \A f \in shown : f <= Last(shown)
    BY <2>1 DEF Last
  <2> QED
    BY <1>1, <1>3, <2>2 DEF LastEventId
<1> QED
  BY <1>2, <1>3

LEMMA FirstIsFirst ==
    ASSUME NEW rows \in SUBSET Ids, rows # {}
    PROVE  First(rows) \in rows /\ \A f \in rows : First(rows) <= f
<1>1. \E e \in rows : \A f \in rows : e <= f
  BY IdsFinite, LeastElement
<1> QED
  BY <1>1 DEF First

(* A page is an interval of the log, and one that is not full goes to its  *)
(* end.                                                                    *)
LEMMA PageOfLog ==
    ASSUME events \subseteq Ids, NEW c \in Nat
    PROVE  /\ ListAfter(c) \subseteq events
           /\ \A x \in ListAfter(c) :
                 c < x /\ \A e \in events : c < e /\ e < x => e \in ListAfter(c)
           /\ Cardinality(ListAfter(c)) # PageSize
                 => \A e \in events : c < e => e \in ListAfter(c)
           /\ ListAfter(c) = {} => \A e \in events : ~ (c < e)
<1> DEFINE later == {e \in events : e > c}
<1>1. later \in SUBSET Nat /\ IsFiniteSet(later)
  BY IdsFinite
<1>2. PageSize \in Nat \ {0}
  BY StreamAssumption
<1>3. ListAfter(c) = Lowest(later, PageSize)
  BY DEF ListAfter, Lowest, Rank
<1>4. \A e \in later : e \in events /\ c < e /\ e \in Nat
  BY <1>1
<1>5. \A e \in events : c < e => e \in later
  OBVIOUS
<1> HIDE DEF later
<1>6. /\ PageSize <= Cardinality(later) => Cardinality(ListAfter(c)) = PageSize
      /\ Cardinality(later) <= PageSize => ListAfter(c) = later
      /\ Cardinality(later) \in Nat
  BY <1>1, <1>2, <1>3, LowestCardinality, FS_CardinalityType
<1>7. ASSUME NEW x \in ListAfter(c), NEW e \in later, e < x
      PROVE  e \in ListAfter(c)
  <2>1. x \in later /\ Rank(later, x) < PageSize
    BY <1>3 DEF Lowest
  <2>2. Rank(later, e) < Rank(later, x)
    BY <1>1, <1>7, <2>1, RankAscends
  <2>3. Rank(later, e) \in Int /\ Rank(later, x) \in Int
    BY <1>1, <2>1, RankType
  <2> QED
    BY <1>2, <1>3, <2>1, <2>2, <2>3 DEF Lowest
<1>8. ListAfter(c) \subseteq later
  BY <1>3 DEF Lowest
<1>9. Cardinality(ListAfter(c)) # PageSize => ListAfter(c) = later
  BY <1>2, <1>6
<1>10. ListAfter(c) = {} => later = {}
  BY <1>2, <1>9, FS_EmptySet
<1> QED
  BY <1>4, <1>5, <1>7, <1>8, <1>9, <1>10

-----------------------------------------------------------------------------
(* Types. *)

LEMMA InitiallyOK ==
    Init => StreamInv
<1> SUFFICES ASSUME Init PROVE StreamInv
  OBVIOUS
<1> USE DEF Init
<1>1. TypeOK
  BY StreamAssumption DEF TypeOK, NoAppend, ClosedStream
<1>2. WritersInv
  BY DEF WritersInv, NoAppend
<1>3. ConnectionInv
  BY DEF ConnectionInv, ClosedStream, Overran
<1>4. CursorInv
  BY DEF CursorInv, Sent, ClosedStream
<1>5. ReplayInv
  BY DEF ReplayInv, ClosedStream
<1>6. PipeInv
  <2>1. Pipe = <<>>
    BY DEF Pipe
  <2> QED
    BY <2>1 DEF PipeInv
<1>7. CoverInv
  BY DEF CoverInv
<1> QED
  BY <1>1, <1>2, <1>3, <1>4, <1>5, <1>6, <1>7 DEF StreamInv

LEMMA AppendedIds ==
    ASSUME TypeOK, WritersInv, NEW w \in Writers, writer[w].pc # "idle"
    PROVE  writer[w].id \in Ids /\ writer[w].id < nextId
BY Sizes DEF TypeOK, WritersInv

LEMMA TypeStep ==
    ASSUME TypeOK, WritersInv, ReplayInv, [Next]_vars
    PROVE  TypeOK'
<1> USE DEF TypeOK
<1>1. ASSUME NEW w \in Writers, Insert(w)
      PROVE  TypeOK'
  BY <1>1, Sizes DEF Insert, serverVars, clientVars
<1>2. ASSUME NEW w \in Writers, Commit(w)
      PROVE  TypeOK'
  <2>1. writer[w].id \in Ids
    BY <1>2, AppendedIds DEF Commit
  <2>2. OvertakenBy(w) \subseteq Ids
    BY AppendedIds DEF OvertakenBy
  <2> QED
    BY <1>2, <2>1, <2>2, ZenonT(30) DEF Commit, serverVars, clientVars
<1>3. ASSUME NEW w \in Writers, Publish(w)
      PROVE  TypeOK'
  <2>1. writer[w].id \in Ids
    BY <1>3, AppendedIds DEF Publish
  <2> QED
    BY <1>3, <2>1 DEF Publish, clientVars, NoAppend
<1>4. ASSUME NEW w \in Writers, PublishFails(w)
      PROVE  TypeOK'
  <2>1. writer[w].id \in Ids
    BY <1>4, AppendedIds DEF PublishFails
  <2>2. writer' \in [Writers -> [pc : {"idle", "commit", "publish"}, id : Ids \cup {0}]]
    BY <1>4 DEF PublishFails, NoAppend
  <2>3. excused' \subseteq Ids
    BY <1>4, <2>1 DEF PublishFails
  <2>4. lost' \in 0..MaxLost
    <3>1. lost \in 0..MaxLost /\ lost < MaxLost /\ lost' = lost + 1
      BY <1>4 DEF PublishFails
    <3> QED
      BY <3>1, Sizes
  <2> QED
    BY <1>4, <2>2, <2>3, <2>4 DEF PublishFails, serverVars, clientVars
<1>5. ASSUME Subscribe
      PROVE  TypeOK'
  BY <1>5, LastEventIdIsLast DEF Subscribe, writerVars, ClosedStream
<1>6. ASSUME ReplayQuery
      PROVE  TypeOK'
  BY <1>6 DEF ReplayQuery, ListAfter, writerVars, clientVars
<1>7. ASSUME ReplayYield
      PROVE  TypeOK'
  <2>1. First(stream.rows) \in Ids
    BY <1>7, FirstIsFirst DEF ReplayInv, ReplayYield
  <2> QED
    <3> DEFINE id == First(stream.rows)
               to == IF stream.rows = {id} THEN AfterPage(stream.full) ELSE "yield"
    <3>1. to \in {"replay", "live", "yield"}
      BY DEF AfterPage
    <3> HIDE DEF id, to
    <3>2. /\ wire' = Append(wire, id)
          /\ stream' = [stream EXCEPT !.pc = to, !.last = id, !.rows = @ \ {id},
                                      !.full = IF to = "yield" THEN @ ELSE FALSE]
          /\ pump' = IF to = "live" THEN "running" ELSE pump
          /\ id \in Ids
      BY <1>7, <2>1 DEF ReplayYield, id, to
    <3>3. stream' \in [pc : {"closed", "replay", "yield", "live"}, last : Ids \cup {0},
                       rows : SUBSET Ids, full : BOOLEAN]
      BY <3>1, <3>2
    <3>4. wire' \in Seq(Ids \cup {Overflow}) /\ pump' \in {"none", "running", "ended"}
      BY <3>2
    <3> QED
      BY <1>7, <3>3, <3>4 DEF ReplayYield, writerVars
<1>8. ASSUME PumpStep
      PROVE  TypeOK'
  <2>1. channel' \in Seq(Ids)
    BY <1>8 DEF PumpStep
  <2>2. /\ queue' \in Seq(Ids \cup {Overflow}) /\ Len(queue') <= QueueSize
        /\ pump' \in {"none", "running", "ended"}
    <3>1. CASE QueueFull
      <4>1. queue' = <<Overflow>> /\ pump' = "ended"
        BY <1>8, <3>1 DEF PumpStep, Overflowed
      <4> QED
        BY <4>1, Sizes
    <3>2. CASE ~QueueFull
      <4>1. queue' = Append(queue, Head(channel)) /\ pump' = pump /\ Head(channel) \in Ids
        BY <1>8, <3>2 DEF PumpStep
      <4>2. Len(queue') = Len(queue) + 1 /\ queue' \in Seq(Ids \cup {Overflow})
        BY <4>1
      <4> QED
        BY <3>2, <4>1, <4>2, Sizes DEF QueueFull
    <3> QED
      BY <3>1, <3>2
  <2> QED
    BY <1>8, <2>1, <2>2 DEF PumpStep, writerVars, clientVars
<1>9. ASSUME PumpDies \/ PageFails
      PROVE  TypeOK'
  <2>1. CASE PumpDies
    BY <2>1, Sizes DEF PumpDies, writerVars, clientVars
  <2>2. CASE PageFails
    BY <2>2 DEF PageFails, SubscribeRefused, LoadHistoryFails, writerVars, serverVars
  <2> QED
    BY <1>9, <2>1, <2>2
<1>10. ASSUME LiveYield
       PROVE  TypeOK'
  <2>1. CASE Head(queue) = Overflow
    <3>1. Close /\ wire' = Append(wire, Overflow)
      BY <1>10, <2>1 DEF LiveYield
    <3>2. wire' \in Seq(Ids \cup {Overflow})
      <4>1. wire \in Seq(Ids \cup {Overflow}) /\ Overflow \in Ids \cup {Overflow}
        OBVIOUS
      <4> HIDE DEF TypeOK
      <4> QED
        BY <3>1, <4>1, AppendProperties
    <3>3. /\ channel' = <<>> /\ stream' = ClosedStream /\ queue' = <<>> /\ pump' = "none"
          /\ UNCHANGED <<writerVars, page, shown, drops, lost>>
      BY <1>10, <2>1, <3>1 DEF LiveYield, Close
    <3>4. <<>> \in Seq(Ids) /\ <<>> \in Seq(Ids \cup {Overflow}) /\ Len(<<>>) <= QueueSize
      BY Sizes
    <3> QED
      BY <3>2, <3>3, <3>4 DEF ClosedStream, writerVars
  <2>2. CASE Head(queue) # Overflow
    <3>1. Head(queue) \in Ids /\ Tail(queue) \in Seq(Ids \cup {Overflow})
                             /\ Len(Tail(queue)) = Len(queue) - 1
      BY <1>10, <2>2 DEF LiveYield
    <3>2. /\ queue' = Tail(queue) /\ UNCHANGED <<channel, pump>>
          /\ \/ UNCHANGED <<stream, wire>>
             \/ /\ stream' = [stream EXCEPT !.last = Head(queue)]
                /\ wire' = Append(wire, Head(queue))
      BY <1>10, <2>2 DEF LiveYield
    <3>3. queue' \in Seq(Ids \cup {Overflow}) /\ Len(queue') <= QueueSize
      BY <3>1, <3>2, Sizes
    <3>4. stream' \in [pc : {"closed", "replay", "yield", "live"}, last : Ids \cup {0},
                       rows : SUBSET Ids, full : BOOLEAN]
      BY <3>1, <3>2
    <3>5. wire' \in Seq(Ids \cup {Overflow})
      <4>1. wire' = wire \/ wire' = Append(wire, Head(queue))
        BY <3>2
      <4>2. wire \in Seq(Ids \cup {Overflow}) /\ Head(queue) \in Ids \cup {Overflow}
        BY <3>1
      <4>3. Append(wire, Head(queue)) \in Seq(Ids \cup {Overflow})
        BY <4>2, AppendProperties
      <4> HIDE DEF TypeOK
      <4> QED
        BY <4>1, <4>2, <4>3, Zenon
    <3> QED
      BY <1>10, <3>2, <3>3, <3>4, <3>5 DEF LiveYield, writerVars
  <2> QED
    BY <2>1, <2>2
<1>11. ASSUME Receive
       PROVE  TypeOK'
  BY <1>11 DEF Receive, writerVars, serverVars
<1>12. ASSUME Reset
       PROVE  TypeOK'
  BY <1>12 DEF Reset, writerVars, serverVars
<1>13. ASSUME LoadHistory
       PROVE  TypeOK'
  BY <1>13 DEF LoadHistory, ListAfter, writerVars, serverVars
<1>14. ASSUME Disconnect
       PROVE  TypeOK'
  BY <1>14, Sizes DEF Disconnect, Close, ClosedStream, writerVars
<1>15. ASSUME UNCHANGED vars
       PROVE  TypeOK'
  BY <1>15 DEF vars, writerVars, serverVars, clientVars
<1> QED
  BY <1>1, <1>2, <1>3, <1>4, <1>5, <1>6, <1>7, <1>8, <1>9, <1>10, <1>11, <1>12,
     <1>13, <1>14, <1>15 DEF Next, WriterStep, StreamStep, PageStep

-----------------------------------------------------------------------------
(* Each part of the invariant, step by step. *)

LEMMA WritersStep ==
    ASSUME StreamInv, [Next]_vars
    PROVE  WritersInv'
<1> USE DEF WritersInv
<1>1. TypeOK /\ WritersInv
  BY DEF StreamInv
<1>2. ASSUME NEW w \in Writers, Insert(w)
      PROVE  WritersInv'
  <2>1. nextId \in Nat /\ nextId' = nextId + 1 /\ UNCHANGED <<events, excused>>
    BY <1>1, <1>2, Sizes DEF TypeOK, Insert
  <2>2. \A v \in Writers : writer'[v] = IF v = w THEN [pc |-> "commit", id |-> nextId] ELSE writer[v]
    BY <1>1, <1>2 DEF TypeOK, Insert
  <2>3. events' \subseteq 1..(nextId' - 1)
    BY <1>1, <2>1
  <2>4. ASSUME NEW v \in Writers, writer'[v].pc # "idle"
        PROVE  /\ writer'[v].id \in 1..(nextId' - 1)
               /\ writer'[v].pc = "publish" => writer'[v].id \in events'
               /\ \A e \in events' : writer'[v].id < e => writer'[v].id \in excused'
    <3>1. CASE v = w
      <4>1. writer'[v].id = nextId /\ writer'[v].pc = "commit"
        BY <2>2, <3>1
      <4>2. \A e \in events' : ~ (nextId < e)
        BY <1>1, <2>1
      <4>3. nextId \in 1..(nextId' - 1)
        BY <1>1, <2>1, Sizes DEF TypeOK
      <4> QED
        BY <4>1, <4>2, <4>3
    <3>2. CASE v # w
      <4>1. writer'[v] = writer[v]
        BY <2>2, <3>2
      <4>2. writer[v].id \in 1..(nextId' - 1)
        BY <1>1, <2>1, <2>4, <4>1
      <4> QED
        BY <1>1, <2>1, <2>4, <4>1, <4>2
    <3> QED
      BY <3>1, <3>2
  <2> QED
    BY <2>3, <2>4
<1>3. ASSUME NEW w \in Writers, Commit(w)
      PROVE  WritersInv'
  <2>1. /\ nextId' = nextId /\ nextId \in Nat
        /\ events' = events \cup {writer[w].id}
        /\ excused' = excused \cup OvertakenBy(w)
        /\ writer[w].pc = "commit"
    BY <1>1, <1>3, Sizes DEF TypeOK, Commit
  <2>2. \A v \in Writers : /\ v # w => writer'[v] = writer[v]
                           /\ writer'[v].id = writer[v].id
                           /\ writer'[w].pc = "publish"
    BY <1>1, <1>3 DEF TypeOK, Commit
  <2>3. events' \subseteq 1..(nextId' - 1)
    BY <1>1, <2>1
  <2>4. ASSUME NEW v \in Writers, writer'[v].pc # "idle"
        PROVE  /\ writer'[v].id \in 1..(nextId' - 1)
               /\ writer'[v].pc = "publish" => writer'[v].id \in events'
               /\ \A e \in events' : writer'[v].id < e => writer'[v].id \in excused'
    <3>1. writer[v].pc # "idle"
      BY <2>1, <2>2, <2>4
    <3>2. /\ writer'[v].id \in 1..(nextId' - 1)
          /\ writer'[v].pc = "publish" => writer'[v].id \in events'
      BY <1>1, <2>1, <2>2, <3>1
    <3>3. ASSUME NEW e \in events', writer'[v].id < e
          PROVE  writer'[v].id \in excused'
      <4>1. CASE e \in events
        BY <1>1, <2>1, <2>2, <3>1, <3>3, <4>1
      <4>2. CASE e = writer[w].id
        <5>1. writer[v].id \in OvertakenBy(w)
          BY <2>2, <3>1, <3>3, <4>2 DEF OvertakenBy
        <5> QED
          BY <2>1, <2>2, <5>1
      <4> QED
        BY <2>1, <4>1, <4>2
    <3> QED
      BY <3>2, <3>3
  <2> QED
    BY <2>3, <2>4
<1>4. ASSUME NEW w \in Writers, Publish(w) \/ PublishFails(w)
      PROVE  WritersInv'
  <2>1. UNCHANGED <<events, nextId>> /\ excused \subseteq excused'
    BY <1>4 DEF Publish, PublishFails
  <2>2. \A v \in Writers : writer'[v] = IF v = w THEN NoAppend ELSE writer[v]
    BY <1>1, <1>4 DEF TypeOK, Publish, PublishFails
  <2> QED
    BY <1>1, <2>1, <2>2 DEF NoAppend
<1>5. ASSUME UNCHANGED writerVars
      PROVE  WritersInv'
  BY <1>1, <1>5 DEF writerVars
<1>6. ASSUME StreamStep \/ PageStep \/ PumpDies \/ PageFails \/ Disconnect \/ UNCHANGED vars
      PROVE  UNCHANGED writerVars
  BY <1>6 DEF StreamStep, PageStep, PumpDies, PageFails, SubscribeRefused, LoadHistoryFails,
     Disconnect, Subscribe, ReplayQuery, ReplayYield,
     PumpStep, LiveYield, Receive, Reset, LoadHistory, vars
<1> QED
  BY <1>2, <1>3, <1>4, <1>5, <1>6 DEF Next, WriterStep

LEMMA PipeType ==
    ASSUME TypeOK
    PROVE  /\ queue \in Seq(Ids \cup {Overflow}) /\ channel \in Seq(Ids \cup {Overflow})
           /\ Pipe \in Seq(Ids \cup {Overflow})
<1>1. queue \in Seq(Ids \cup {Overflow}) /\ channel \in Seq(Ids \cup {Overflow})
  BY DEF TypeOK
<1> QED
  BY <1>1, ConcatProperties DEF Pipe

(* Unless the queue overran, its head is a committed event and the rest is *)
(* the rest of the pipe.                                                   *)
LEMMA HeadOfQueue ==
    ASSUME StreamInv, queue # <<>>, Head(queue) # Overflow
    PROVE  /\ ~Overran
           /\ Pipe # <<>> /\ Pipe \in Seq(events)
           /\ Head(queue) = Head(Pipe)
           /\ Head(queue) \in events
           /\ Tail(queue) \o channel = Tail(Pipe)
           /\ Tail(queue) # <<Overflow>>
<1>1. TypeOK /\ PipeInv
  BY DEF StreamInv
<1>2. ~Overran
  BY DEF Overran
<1>3. Pipe \in Seq(events)
  BY <1>1, <1>2 DEF PipeInv
<1>4. Pipe # <<>> /\ Head(Pipe) = Head(queue) /\ Tail(queue) \o channel = Tail(Pipe)
  BY <1>1, PipeType, HeadOfConcat DEF Pipe
<1>5. Head(Pipe) \in events /\ Tail(Pipe) \in Seq(events)
  BY <1>3, <1>4, HeadTailProperties
<1>6. ASSUME Tail(queue) = <<Overflow>>
      PROVE  FALSE
  <2>1. Tail(Pipe) # <<>> /\ Head(Tail(Pipe)) = Overflow
    <3>1. /\ Tail(queue) \in Seq(Ids \cup {Overflow}) /\ Tail(queue) # <<>>
          /\ Head(Tail(queue)) = Overflow
      <4>1. Tail(queue) \in Seq(Ids \cup {Overflow})
        BY <1>1, PipeType, HeadTailProperties
      <4>2. <<Overflow>> # <<>> /\ Head(<<Overflow>>) = Overflow
        OBVIOUS
      <4> QED
        BY <1>6, <4>1, <4>2
    <3>2. channel \in Seq(Ids \cup {Overflow})
      BY <1>1, PipeType
    <3>3. /\ Tail(queue) \o channel # <<>>
          /\ Head(Tail(queue) \o channel) = Head(Tail(queue))
      BY <3>1, <3>2, HeadOfConcat
    <3> QED
      BY <1>4, <3>1, <3>3
  <2>2. Overflow \in events
    BY <1>5, <2>1, HeadTailProperties
  <2> QED
    BY <1>1, <2>2, Sizes DEF TypeOK
<1> QED
  BY <1>2, <1>3, <1>4, <1>5, <1>6

LEMMA ConnectionStep ==
    ASSUME StreamInv, [Next]_vars
    PROVE  ConnectionInv'
<1> USE DEF ConnectionInv, Overran
<1>1. TypeOK /\ ReplayInv /\ ConnectionInv
  BY DEF StreamInv
<1>2. ASSUME NEW w \in Writers, Insert(w) \/ Commit(w) \/ PublishFails(w)
      PROVE  ConnectionInv'
  BY <1>1, <1>2 DEF Insert, Commit, PublishFails, serverVars, clientVars
<1>3. ASSUME NEW w \in Writers, Publish(w)
      PROVE  ConnectionInv'
  BY <1>1, <1>3 DEF Publish, clientVars
<1>4. ASSUME Subscribe
      PROVE  ConnectionInv'
  BY <1>1, <1>4 DEF Subscribe, ClosedStream
<1>5. ASSUME ReplayQuery
      PROVE  ConnectionInv'
  <2>1. stream.pc = "replay" /\ stream'.pc \in {"live", "yield"} /\ page = "open"
    BY <1>1, <1>5 DEF ReplayQuery, TypeOK
  <2>2. /\ UNCHANGED <<page, wire, channel, queue>>
        /\ stream'.pc = "yield" => pump' = pump
    BY <1>1, <1>5 DEF ReplayQuery, TypeOK, clientVars
  <2> QED
    BY <1>1, <2>1, <2>2
<1>6. ASSUME ReplayYield
      PROVE  ConnectionInv'
  <2> DEFINE id == First(stream.rows)
  <2>1. id \in Ids
    BY <1>1, <1>6, FirstIsFirst DEF TypeOK, ReplayInv, ReplayYield
  <2>2. /\ stream.pc = "yield" /\ stream'.pc \in {"live", "replay", "yield"}
        /\ stream'.pc # "live" => pump' = pump
    BY <1>1, <1>6 DEF ReplayYield, TypeOK, AfterPage
  <2>3. wire' = Append(wire, id) /\ UNCHANGED <<page, channel, queue>>
    BY <1>6 DEF ReplayYield
  <2>4. id # Overflow /\ wire \in Seq(Ids \cup {Overflow})
    BY <1>1, <2>1, Sizes DEF TypeOK
  <2> HIDE DEF id
  <2>5. \A i \in DOMAIN wire' : wire'[i] # Overflow
    BY <1>1, <2>1, <2>2, <2>3, <2>4
  <2> QED
    BY <1>1, <2>2, <2>3, <2>5
<1>7. ASSUME PumpStep
      PROVE  ConnectionInv'
  <2>1. UNCHANGED <<page, wire, stream>> /\ stream.pc = "live" /\ pump' \in {pump, "ended"}
    BY <1>1, <1>7 DEF PumpStep, clientVars
  <2>2. queue' = <<Overflow>> => pump' # "running"
    <3>1. CASE QueueFull
      BY <1>7, <3>1 DEF PumpStep
    <3>2. CASE ~QueueFull
      <4>1. queue' = Append(queue, Head(channel)) /\ Head(channel) \in Ids
        BY <1>1, <1>7, <3>2 DEF PumpStep, TypeOK
      <4>2. queue'[Len(queue')] = Head(channel) /\ Head(channel) # Overflow
        BY <1>1, <4>1, Sizes DEF TypeOK
      <4> QED
        BY <4>2
    <3> QED
      BY <3>1, <3>2
  <2> QED
    BY <1>1, <2>1, <2>2
<1>8. ASSUME PumpDies \/ PageFails
      PROVE  ConnectionInv'
  <2>1. CASE PumpDies
    BY <1>1, <2>1 DEF PumpDies, clientVars
  <2>2. CASE PageFails
    <3>1. page # "open" /\ UNCHANGED <<stream, channel, queue, pump, wire>>
      BY <2>2 DEF PageFails, SubscribeRefused, LoadHistoryFails, serverVars
    <3>2. page' # "open"
      BY <2>2 DEF PageFails, SubscribeRefused, LoadHistoryFails
    <3> QED
      BY <1>1, <3>1, <3>2
  <2> QED
    BY <1>8, <2>1, <2>2
<1>9. ASSUME LiveYield
      PROVE  ConnectionInv'
  <2>1. /\ stream.pc = "live" /\ page = "open" /\ page' = page
        /\ wire \in Seq(Ids \cup {Overflow}) /\ \A i \in DOMAIN wire : wire[i] # Overflow
    BY <1>1, <1>9 DEF LiveYield, TypeOK
  <2>2. CASE Head(queue) = Overflow
    <3>1. Close /\ wire' = Append(wire, Overflow)
      BY <1>9, <2>2 DEF LiveYield
    <3>2. \A i \in DOMAIN wire' : wire'[i] = Overflow => i = Len(wire')
      BY <2>1, <3>1
    <3> QED
      BY <2>1, <3>1, <3>2 DEF Close, ClosedStream
  <2>3. CASE Head(queue) # Overflow
    <3>1. Head(queue) \in Ids \cup {Overflow} /\ queue' # <<Overflow>>
      BY <1>1, <1>9, <2>3, HeadOfQueue DEF LiveYield, TypeOK
    <3>2. stream'.pc = "live" /\ wire' \in {wire, Append(wire, Head(queue))}
      BY <1>1, <1>9, <2>3 DEF LiveYield, TypeOK
    <3>3. \A i \in DOMAIN wire' : wire'[i] # Overflow
      BY <2>1, <2>3, <3>1, <3>2
    <3> QED
      BY <2>1, <3>1, <3>2, <3>3
  <2> QED
    BY <2>2, <2>3
<1>10. ASSUME Receive
       PROVE  ConnectionInv'
  <2>1. wire # <<>> /\ wire' = Tail(wire) /\ wire \in Seq(Ids \cup {Overflow})
    BY <1>1, <1>10 DEF Receive, TypeOK
  <2>2. \A i \in DOMAIN wire' : wire'[i] = wire[i + 1] /\ i + 1 \in DOMAIN wire
    BY <2>1
  <2>3. Len(wire') = Len(wire) - 1 /\ Len(wire) \in Nat /\ DOMAIN wire' \subseteq Nat
    BY <2>1
  <2>4. \A i \in DOMAIN wire' : wire'[i] = Overflow => i = Len(wire') /\ stream.pc = "closed"
    BY <1>1, <2>2, <2>3
  <2>5. page = "open" /\ UNCHANGED <<page, stream, channel, queue, pump>>
    BY <1>1, <1>10, <2>1 DEF Receive, serverVars
  <2> QED
    BY <1>1, <2>4, <2>5
<1>11. ASSUME Reset
       PROVE  ConnectionInv'
  <2>1. stream.pc = "closed"
    BY <1>1, <1>11 DEF Reset, TypeOK
  <2> QED
    BY <1>1, <1>11, <2>1 DEF Reset, serverVars
<1>12. ASSUME LoadHistory
       PROVE  ConnectionInv'
  BY <1>1, <1>12 DEF LoadHistory, serverVars
<1>13. ASSUME Disconnect
       PROVE  ConnectionInv'
  BY <1>1, <1>13 DEF Disconnect, Close, ClosedStream
<1>14. ASSUME UNCHANGED vars
       PROVE  ConnectionInv'
  BY <1>1, <1>14 DEF vars, serverVars, clientVars
<1> QED
  BY <1>2, <1>3, <1>4, <1>5, <1>6, <1>7, <1>8, <1>9, <1>10, <1>11, <1>12,
     <1>13, <1>14 DEF Next, WriterStep, StreamStep, PageStep

(* A commit between the cursor and the end of a page was overtaken. *)
LEMMA LateCommit ==
    ASSUME StreamInv, NEW w \in Writers, Commit(w), NEW v \in events, writer[w].id < v
    PROVE  writer[w].id \in excused
BY DEF StreamInv, WritersInv, Commit

LEMMA ReplayStep ==
    ASSUME StreamInv, [Next]_vars
    PROVE  ReplayInv'
<1> USE DEF ReplayInv
<1>1. TypeOK /\ ReplayInv
  BY DEF StreamInv
<1>2. ASSUME UNCHANGED <<stream, events>>, excused \subseteq excused'
      PROVE  ReplayInv'
  BY <1>1, <1>2
<1>3. ASSUME NEW w \in Writers, Commit(w)
      PROVE  ReplayInv'
  <2>1. /\ UNCHANGED stream
        /\ events' = events \cup {writer[w].id}
        /\ excused \subseteq excused'
    BY <1>3 DEF Commit, serverVars
  <2> QED
    BY <1>1, <1>3, <2>1, LateCommit
<1>4. ASSUME Subscribe \/ Disconnect
      PROVE  ReplayInv'
  <2>1. CASE Subscribe
    <3>1. stream' = [ClosedStream EXCEPT !.pc = "replay", !.last = LastEventId]
      BY <2>1 DEF Subscribe
    <3>2. stream'.rows = {} /\ stream'.pc = "replay"
      BY <3>1 DEF ClosedStream
    <3> QED
      BY <3>2
  <2>2. CASE Disconnect
    BY <2>2 DEF Disconnect, Close, ClosedStream
  <2> QED
    BY <1>4, <2>1, <2>2
<1>5. ASSUME ReplayQuery
      PROVE  ReplayInv'
  <2>1. /\ stream'.rows = ListAfter(stream.last) /\ stream'.last = stream.last
        /\ stream'.pc = IF ListAfter(stream.last) = {} THEN "live" ELSE "yield"
        /\ UNCHANGED <<events, excused>>
    BY <1>1, <1>5 DEF ReplayQuery, TypeOK, writerVars
  <2>2. stream.last \in Nat /\ events \subseteq Ids
    BY <1>1, Sizes DEF TypeOK
  <2> QED
    BY <2>1, <2>2, PageOfLog
<1>6. ASSUME ReplayYield
      PROVE  ReplayInv'
  <2> DEFINE id == First(stream.rows)
  <2>1. id \in stream.rows /\ \A f \in stream.rows : id <= f
    BY <1>1, <1>6, FirstIsFirst DEF TypeOK, ReplayYield
  <2>2. /\ stream'.rows = stream.rows \ {id} /\ stream'.last = id
        /\ stream'.pc = "yield" <=> stream.rows # {id}
        /\ UNCHANGED <<events, excused>>
    BY <1>1, <1>6 DEF ReplayYield, TypeOK, AfterPage, writerVars
  <2> HIDE DEF id
  <2>3. events \subseteq Nat /\ stream.last \in Nat
    BY <1>1, Sizes DEF TypeOK
  <2>4. ASSUME NEW x \in stream'.rows
        PROVE  x \in stream.rows /\ id < x
    <3>1. x \in stream.rows /\ x # id /\ id <= x /\ x \in Nat /\ id \in Nat
      BY <1>1, <2>1, <2>2, <2>3
    <3> QED
      BY <3>1
  <2>5. ASSUME NEW x \in stream'.rows, NEW e \in events \ excused, id < e, e < x
        PROVE  e \in stream'.rows
    <3>1. stream.last < e
      <4>1. stream.last < id /\ id < e /\ {stream.last, id, e} \subseteq Nat
        BY <1>1, <2>1, <2>3, <2>5
      <4> QED
        BY <4>1
    <3> QED
      BY <1>1, <2>1, <2>2, <2>3, <2>4, <2>5, <3>1
  <2> QED
    BY <1>1, <2>1, <2>2, <2>4, <2>5
<1>7. ASSUME LiveYield
      PROVE  ReplayInv'
  <2>1. stream.rows = {} /\ stream.pc = "live"
    BY <1>1, <1>7 DEF LiveYield
  <2>2. \/ stream' = ClosedStream \/ UNCHANGED stream
        \/ stream' = [stream EXCEPT !.last = Head(queue)]
    BY <1>7 DEF LiveYield, Close
  <2>3. stream'.rows = {} /\ stream'.pc # "yield"
    BY <1>1, <2>1, <2>2 DEF TypeOK, ClosedStream
  <2> QED
    BY <2>3
<1>8. ASSUME NEW w \in Writers, Insert(w) \/ Publish(w) \/ PublishFails(w)
      PROVE  ReplayInv'
  BY <1>2, <1>8 DEF Insert, Publish, PublishFails, serverVars
<1>9. ASSUME PumpStep \/ PageStep \/ PumpDies \/ PageFails \/ UNCHANGED vars
      PROVE  ReplayInv'
  BY <1>2, <1>9 DEF PumpStep, PageStep, Receive, Reset, LoadHistory, PumpDies, PageFails,
     SubscribeRefused, LoadHistoryFails, vars,
     writerVars, serverVars
<1> QED
  BY <1>3, <1>4, <1>5, <1>6, <1>7, <1>8, <1>9 DEF Next, WriterStep, StreamStep

LEMMA SentWhenAppended ==
    ASSUME TypeOK, NEW m \in Ids \cup {Overflow}, wire' = Append(wire, m), UNCHANGED shown
    PROVE  /\ Sent' = Sent \cup {m}
           /\ Len(wire') = Len(wire) + 1 /\ Len(wire) \in Nat
           /\ DOMAIN wire = 1..Len(wire) /\ DOMAIN wire' = 1..Len(wire')
           /\ \A i \in 1..Len(wire) : wire'[i] = wire[i]
           /\ wire'[Len(wire')] = m
<1>1. wire \in Seq(Ids \cup {Overflow})
  BY DEF TypeOK
<1>2. /\ Len(wire') = Len(wire) + 1 /\ Len(wire) \in Nat
      /\ DOMAIN wire = 1..Len(wire) /\ DOMAIN wire' = 1..Len(wire')
      /\ \A i \in 1..Len(wire) : wire'[i] = wire[i]
      /\ wire'[Len(wire')] = m
  BY <1>1
<1>3. {wire'[i] : i \in DOMAIN wire'} = {wire[i] : i \in DOMAIN wire} \cup {m}
  BY <1>2
<1> QED
  BY <1>2, <1>3 DEF Sent

(* The generator sends the next event: nothing but excused events lies     *)
(* between its cursor and the one it sends.                                *)
LEMMA Sends ==
    ASSUME StreamInv, NEW id \in events, stream.pc # "closed", stream.last < id,
           \A e \in events \ excused : e < id => e <= stream.last,
           wire' = Append(wire, id), stream'.last = id,
           UNCHANGED <<shown, events, excused>>
    PROVE  CursorInv'
<1> USE DEF CursorInv
<1>1. TypeOK /\ CursorInv
  BY DEF StreamInv
<1>2. id \in Ids /\ id # Overflow /\ events \subseteq Nat /\ id \in Nat /\ stream.last \in Nat
  BY <1>1, Sizes DEF TypeOK
<1>3. /\ Sent' = Sent \cup {id}
      /\ Len(wire') = Len(wire) + 1 /\ Len(wire) \in Nat
      /\ DOMAIN wire = 1..Len(wire) /\ DOMAIN wire' = 1..Len(wire')
      /\ \A i \in 1..Len(wire) : wire'[i] = wire[i]
      /\ wire'[Len(wire')] = id
  BY <1>1, <1>2, SentWhenAppended
<1>4. Sent \subseteq Nat /\ shown \subseteq Sent /\ \A i \in 1..Len(wire) : wire[i] \in Sent
  <2>1. Sent \subseteq Nat
    BY <1>1, <1>2, Sizes
  <2>2. shown \subseteq Sent /\ \A i \in 1..Len(wire) : wire[i] \in Sent
    BY <1>3 DEF Sent
  <2> QED
    BY <2>1, <2>2
<1>5. \A v \in Sent : v < id
  <2>1. ASSUME NEW v \in Sent
        PROVE  v < id
    <3>1. v <= stream.last /\ v \in Nat
      BY <1>1, <1>4
    <3> QED
      BY <1>2, <3>1
  <2> QED
    BY <2>1
<1>6. Sent' \subseteq events' \cup {Overflow}
  BY <1>1, <1>3
<1>7. ASSUME NEW i \in DOMAIN wire', NEW j \in DOMAIN wire', i < j, wire'[j] # Overflow
      PROVE  wire'[i] < wire'[j]
  <2>1. i \in 1..Len(wire)
    BY <1>3, <1>7
  <2>2. CASE j = Len(wire')
    BY <1>3, <1>4, <1>5, <2>1, <2>2
  <2>3. CASE j # Len(wire')
    <3>1. j \in 1..Len(wire)
      BY <1>3, <2>3
    <3> QED
      BY <1>1, <1>3, <1>7, <2>1, <3>1
  <2> QED
    BY <2>2, <2>3
<1>8. ASSUME NEW v \in shown', NEW i \in DOMAIN wire', wire'[i] # Overflow
      PROVE  v < wire'[i]
  <2>1. CASE i = Len(wire')
    BY <1>3, <1>4, <1>5, <2>1
  <2>2. CASE i # Len(wire')
    <3>1. i \in 1..Len(wire)
      BY <1>3, <2>2
    <3> QED
      BY <1>1, <1>3, <1>8, <3>1
  <2> QED
    BY <2>1, <2>2
<1>9. ASSUME NEW e \in events' \ excused', e <= id
      PROVE  e \in Sent'
  <2>1. e \in events \ excused /\ e \in Nat
    BY <1>2, <1>9
  <2>2. CASE e = id
    BY <1>3, <2>2
  <2>3. CASE e < id
    BY <1>1, <1>3, <2>1, <2>3
  <2> QED
    BY <1>2, <1>9, <2>1, <2>2, <2>3
<1>10. ASSUME NEW e \in events' \ excused', NEW v \in Sent', e < v
       PROVE  e \in Sent'
  BY <1>1, <1>3, <1>9, <1>10
<1>11. ASSUME NEW v \in Sent'
       PROVE  v <= id
  BY <1>2, <1>3, <1>4, <1>5
<1> QED
  BY <1>6, <1>7, <1>8, <1>9, <1>10, <1>11

(* At the head of the queue of a live stream: whatever is before it and    *)
(* after the cursor has been excused.                                      *)
LEMMA NothingBeforeHead ==
    ASSUME StreamInv, stream.pc = "live", queue # <<>>, Head(queue) # Overflow,
           NEW e \in events \ excused, e < Head(queue)
    PROVE  e <= stream.last
<1>1. TypeOK /\ WritersInv /\ ReplayInv /\ PipeInv /\ CoverInv
  BY DEF StreamInv
<1>2. /\ ~Overran /\ Pipe # <<>> /\ Pipe \in Seq(events)
      /\ Head(queue) = Pipe[1] /\ Head(queue) \in events
      /\ 1 \in DOMAIN Pipe /\ \A k \in DOMAIN Pipe : k \in Nat /\ (k = 1 \/ 1 < k)
  BY HeadOfQueue, EmptySeq
<1>3. Caught(e) /\ stream.rows = {}
  BY <1>1, <1>2 DEF CoverInv, CaughtUp, ReplayInv
<1>4. events \subseteq Nat
  BY <1>1, Sizes DEF TypeOK
<1>5. ASSUME NEW k \in DOMAIN Pipe, Pipe[k] = e
      PROVE  FALSE
  <2>1. CASE k = 1
    BY <1>2, <1>4, <1>5, <2>1
  <2>2. CASE 1 < k
    <3>1. Pipe[1] <= e
      BY <1>1, <1>2, <1>5, <2>2 DEF PipeInv
    <3>2. Pipe[1] \in Nat /\ e \in Nat /\ e < Pipe[1]
      BY <1>2, <1>4
    <3> QED
      BY <3>1, <3>2
  <2> QED
    BY <1>2, <2>1, <2>2
<1>6. ASSUME NEW w \in Writers, Published(w, e)
      PROVE  FALSE
  BY <1>1, <1>2, <1>6 DEF WritersInv, Published
<1> QED
  BY <1>3, <1>5, <1>6 DEF Caught

(* The connection goes, and with it what was on the wire. *)
LEMMA WireDropped ==
    ASSUME StreamInv, wire' = <<>>, UNCHANGED <<shown, events, excused>>, stream'.pc = "closed"
    PROVE  CursorInv'
<1>1. TypeOK /\ CursorInv
  BY DEF StreamInv
<1>2. Sent' = shown /\ shown \subseteq Sent
  BY DEF Sent
<1>3. ASSUME NEW e \in events \ excused, NEW v \in shown, e < v
      PROVE  e \in shown
  <2>1. e \in Sent
    BY <1>1, <1>2, <1>3 DEF CursorInv
  <2>2. ASSUME NEW i \in DOMAIN wire, wire[i] = e
        PROVE  FALSE
    <3>1. e # Overflow /\ e \in Nat /\ v \in Nat
      BY <1>1, Sizes DEF TypeOK
    <3>2. v < e
      BY <1>1, <2>2, <3>1 DEF CursorInv
    <3> QED
      BY <1>3, <3>1, <3>2
  <2> QED
    BY <2>1, <2>2 DEF Sent
<1> QED
  BY <1>1, <1>2, <1>3 DEF CursorInv

LEMMA CursorStep ==
    ASSUME StreamInv, [Next]_vars
    PROVE  CursorInv'
<1>1. TypeOK /\ ConnectionInv /\ CursorInv /\ ReplayInv
  BY DEF StreamInv
<1>2. events \subseteq Nat \ {0} /\ shown \subseteq Nat /\ stream.last \in Nat
  BY <1>1, Sizes DEF TypeOK
<1>3. ASSUME UNCHANGED <<shown, wire, events>>, excused \subseteq excused',
             stream'.pc # "closed" => stream.pc # "closed" /\ stream'.last = stream.last
      PROVE  CursorInv'
  <2>1. Sent' = Sent
    BY <1>3 DEF Sent
  <2> QED
    BY <1>1, <1>3, <2>1 DEF CursorInv
<1>4. ASSUME NEW w \in Writers, Commit(w)
      PROVE  CursorInv'
  <2>1. /\ UNCHANGED <<shown, wire, stream>>
        /\ events' = events \cup {writer[w].id}
        /\ excused \subseteq excused'
    BY <1>4 DEF Commit, serverVars, clientVars
  <2>2. Sent' = Sent /\ writer[w].id \in Nat \ {0}
    BY <1>1, <1>4, <2>1, AppendedIds, Sizes DEF Sent, StreamInv, Commit
  <2>3. ASSUME NEW v \in Sent, writer[w].id < v
        PROVE  writer[w].id \in excused
    <3>1. v \in events
      BY <1>1, <2>2, <2>3 DEF CursorInv, Overflow
    <3> QED
      BY <1>4, <2>3, <3>1, LateCommit
  <2>4. ASSUME stream.pc # "closed", writer[w].id <= stream.last
        PROVE  writer[w].id \in excused \cup Sent
    <3>1. stream.last \in events
      BY <1>1, <2>2, <2>4 DEF CursorInv
    <3>2. CASE writer[w].id < stream.last
      BY <1>4, <3>1, <3>2, LateCommit
    <3>3. CASE writer[w].id = stream.last
      BY <1>1, <1>2, <2>4, <3>1, <3>3 DEF CursorInv
    <3> QED
      BY <1>2, <2>2, <2>4, <3>2, <3>3
  <2> QED
    BY <1>1, <2>1, <2>2, <2>3, <2>4 DEF CursorInv
<1>5. ASSUME Subscribe
      PROVE  CursorInv'
  <2>1. wire = <<>> /\ Sent = shown
    BY <1>1, <1>5 DEF Subscribe, ConnectionInv, Sent
  <2>2. UNCHANGED <<shown, wire, events, excused>> /\ stream'.last = LastEventId /\ Sent' = Sent
    BY <1>5 DEF Subscribe, writerVars, ClosedStream, Sent
  <2>3. LastEventId \in shown \cup {0} /\ \A v \in shown : v <= LastEventId
    BY <1>1, LastEventIdIsLast DEF TypeOK
  <2>4. ASSUME NEW e \in events \ excused, e <= LastEventId
        PROVE  e \in Sent
    <3>1. LastEventId \in shown
      BY <1>2, <2>3, <2>4
    <3>2. CASE e = LastEventId
      BY <2>1, <3>1, <3>2
    <3>3. CASE e < LastEventId
      BY <1>1, <2>1, <3>1, <3>3 DEF CursorInv
    <3> QED
      BY <1>2, <2>4, <3>1, <3>2, <3>3
  <2>5. shown \subseteq events
    BY <1>1, <2>1, Sizes DEF CursorInv, TypeOK
  <2> QED
    BY <1>1, <2>1, <2>2, <2>3, <2>4, <2>5 DEF CursorInv
<1>6. ASSUME ReplayYield
      PROVE  CursorInv'
  <2> DEFINE id == First(stream.rows)
  <2>1. id \in stream.rows /\ \A f \in stream.rows : id <= f
    BY <1>1, <1>6, FirstIsFirst DEF TypeOK, ReplayInv, ReplayYield
  <2>2. /\ wire' = Append(wire, id) /\ stream'.last = id
        /\ UNCHANGED <<shown, events, excused>> /\ stream.pc = "yield"
    BY <1>1, <1>6 DEF ReplayYield, TypeOK, writerVars
  <2> HIDE DEF id
  <2>3. id \in events /\ stream.last < id
    BY <1>1, <2>1 DEF ReplayInv
  <2>4. ASSUME NEW e \in events \ excused, e < id
        PROVE  e <= stream.last
    <3>1. ASSUME stream.last < e
          PROVE  FALSE
      <4>1. e \in stream.rows
        BY <1>1, <2>1, <2>4, <3>1 DEF ReplayInv
      <4>2. id <= e /\ e \in Nat /\ id \in Nat
        BY <1>2, <2>1, <2>3, <4>1
      <4> QED
        BY <2>4, <4>2
    <3> QED
      BY <1>2, <3>1
  <2> QED
    BY <2>2, <2>3, <2>4, Sends
<1>7. ASSUME LiveYield
      PROVE  CursorInv'
  <2>1. stream.pc = "live" /\ queue # <<>> /\ UNCHANGED <<shown, events, excused>>
    BY <1>7 DEF LiveYield, writerVars
  <2>2. CASE Head(queue) = Overflow
    <3>1. stream'.pc = "closed" /\ wire' = Append(wire, Overflow)
      BY <1>7, <2>2 DEF LiveYield, Close, ClosedStream
    <3>2. /\ Sent' = Sent \cup {Overflow}
          /\ Len(wire') = Len(wire) + 1 /\ Len(wire) \in Nat
          /\ DOMAIN wire = 1..Len(wire) /\ DOMAIN wire' = 1..Len(wire')
          /\ \A i \in 1..Len(wire) : wire'[i] = wire[i]
          /\ wire'[Len(wire')] = Overflow
      BY <1>1, <2>1, <3>1, SentWhenAppended
    <3>3. \A i \in DOMAIN wire' : wire'[i] # Overflow => i \in DOMAIN wire /\ wire'[i] = wire[i]
      BY <3>2
    <3>4. \A i, j \in DOMAIN wire' : i < j /\ wire'[j] # Overflow => i \in DOMAIN wire /\ j \in DOMAIN wire
      BY <3>2
    <3>5. \A e \in events : ~ (e < Overflow)
      BY <1>2, Sizes
    <3> QED
      BY <1>1, <2>1, <3>1, <3>2, <3>3, <3>4, <3>5 DEF CursorInv
  <2>3. CASE Head(queue) # Overflow /\ AlreadySent(Head(queue))
    BY <1>3, <1>7, <2>1, <2>3 DEF LiveYield
  <2>4. CASE Head(queue) # Overflow /\ ~AlreadySent(Head(queue))
    <3>1. stream'.last = Head(queue) /\ wire' = Append(wire, Head(queue))
      BY <1>1, <1>7, <2>4 DEF LiveYield, TypeOK
    <3>2. Head(queue) \in events
      BY <2>1, <2>4, HeadOfQueue
    <3>3. stream.last < Head(queue)
      <4>1. ~ (Head(queue) <= stream.last) /\ Head(queue) \in Nat /\ stream.last \in Nat
        BY <1>2, <2>4, <3>2 DEF AlreadySent
      <4> QED
        BY <4>1
    <3>4. \A e \in events \ excused : e < Head(queue) => e <= stream.last
      BY <2>1, <2>4, NothingBeforeHead
    <3> QED
      BY <2>1, <3>1, <3>2, <3>3, <3>4, Sends
  <2> QED
    BY <2>2, <2>3, <2>4
<1>8. ASSUME Receive
      PROVE  CursorInv'
  <2>1. /\ wire # <<>> /\ Head(wire) # Overflow /\ wire' = Tail(wire)
        /\ shown' = shown \cup {Head(wire)}
        /\ UNCHANGED <<events, excused, stream>>
    BY <1>8 DEF Receive, writerVars, serverVars
  <2>2. wire \in Seq(Ids \cup {Overflow})
    BY <1>1 DEF TypeOK
  <2>3. /\ Len(wire) \in Nat \ {0} /\ DOMAIN wire = 1..Len(wire) /\ Head(wire) = wire[1]
        /\ Len(wire') = Len(wire) - 1 /\ DOMAIN wire' = 1..Len(wire')
        /\ \A i \in 1..Len(wire') : wire'[i] = wire[i + 1]
    BY <2>1, <2>2
  <2>4. \A i \in DOMAIN wire' : i + 1 \in DOMAIN wire /\ wire'[i] = wire[i + 1] /\ 1 < i + 1
    BY <2>3
  <2>5. \A i \in DOMAIN wire : i = 1 \/ (i - 1 \in DOMAIN wire' /\ wire'[i - 1] = wire[i])
    <3>1. ASSUME NEW i \in DOMAIN wire, i # 1
          PROVE  i - 1 \in DOMAIN wire' /\ wire'[i - 1] = wire[i]
      <4>1. i - 1 \in 1..Len(wire') /\ i = (i - 1) + 1
        BY <2>3, <3>1
      <4> QED
        BY <2>3, <4>1
    <3> QED
      BY <3>1
  <2>6. Sent' = Sent
    <3>1. {wire[i] : i \in DOMAIN wire} = {wire'[i] : i \in DOMAIN wire'} \cup {Head(wire)}
      BY <2>3, <2>4, <2>5
    <3> QED
      BY <2>1, <3>1 DEF Sent
  <2>7. 1 \in DOMAIN wire /\ \A i \in DOMAIN wire' : i \in Nat
    BY <2>3
  <2>8. ASSUME NEW i \in DOMAIN wire', NEW j \in DOMAIN wire', i < j, wire'[j] # Overflow
        PROVE  wire'[i] < wire'[j]
    <3>1. i + 1 < j + 1
      BY <2>7, <2>8
    <3> QED
      BY <1>1, <2>4, <2>8, <3>1 DEF CursorInv
  <2>9. ASSUME NEW v \in shown', NEW i \in DOMAIN wire', wire'[i] # Overflow
        PROVE  v < wire'[i]
    BY <1>1, <2>1, <2>3, <2>4, <2>7, <2>9 DEF CursorInv
  <2> QED
    BY <1>1, <2>1, <2>6, <2>8, <2>9 DEF CursorInv
<1>9. ASSUME Reset
      PROVE  CursorInv'
  <2>1. stream.pc = "closed"
    BY <1>1, <1>9 DEF Reset, ConnectionInv, TypeOK
  <2> QED
    BY <1>9, <2>1, WireDropped DEF Reset, writerVars, serverVars
<1>10. ASSUME LoadHistory
       PROVE  CursorInv'
  <2>1. /\ wire = <<>> /\ Sent = shown /\ stream.pc = "closed"
        /\ shown' = shown \cup ListAfter(LastEventId)
        /\ UNCHANGED <<wire, events, excused, stream>>
    BY <1>1, <1>10 DEF LoadHistory, ConnectionInv, Sent, writerVars, serverVars
  <2>2. /\ LastEventId \in shown \cup {0} /\ LastEventId \in Nat
        /\ \A v \in shown : v <= LastEventId
    BY <1>1, LastEventIdIsLast DEF TypeOK
  <2>3. /\ ListAfter(LastEventId) \subseteq events
        /\ \A x \in ListAfter(LastEventId), e \in events :
              LastEventId < e /\ e < x => e \in ListAfter(LastEventId)
    BY <1>1, <2>2, PageOfLog DEF TypeOK
  <2>4. Sent' = shown'
    BY <2>1 DEF Sent
  <2>5. ASSUME NEW e \in events \ excused, e <= LastEventId
        PROVE  e \in shown
    <3>1. LastEventId \in shown
      BY <1>2, <2>2, <2>5
    <3> QED
      BY <1>1, <1>2, <2>1, <2>5, <3>1 DEF CursorInv
  <2>6. ASSUME NEW e \in events \ excused, NEW v \in shown', e < v
        PROVE  e \in shown'
    <3>1. CASE v \in shown
      BY <1>1, <2>1, <2>6, <3>1 DEF CursorInv
    <3>2. CASE v \in ListAfter(LastEventId)
      <4>1. CASE e <= LastEventId
        BY <2>1, <2>5, <4>1
      <4>2. CASE LastEventId < e
        BY <2>1, <2>3, <2>6, <3>2, <4>2
      <4> QED
        BY <1>2, <2>2, <4>1, <4>2
    <3> QED
      BY <2>1, <3>1, <3>2
  <2> QED
    BY <1>1, <2>1, <2>3, <2>4, <2>6 DEF CursorInv
<1>11. ASSUME Disconnect
       PROVE  CursorInv'
  BY <1>11, WireDropped DEF Disconnect, Close, ClosedStream, writerVars
<1>12. ASSUME NEW w \in Writers, Insert(w) \/ Publish(w) \/ PublishFails(w)
       PROVE  CursorInv'
  BY <1>3, <1>12 DEF Insert, Publish, PublishFails, serverVars, clientVars
<1>13. ASSUME ReplayQuery
       PROVE  CursorInv'
  BY <1>1, <1>3, <1>13 DEF ReplayQuery, TypeOK, writerVars, clientVars
<1>14. ASSUME PumpStep \/ PumpDies \/ PageFails \/ UNCHANGED vars
       PROVE  CursorInv'
  BY <1>3, <1>14 DEF PumpStep, PumpDies, PageFails, SubscribeRefused, LoadHistoryFails, vars,
     writerVars, serverVars, clientVars
<1> QED
  BY <1>4, <1>5, <1>6, <1>7, <1>8, <1>9, <1>10, <1>11, <1>12, <1>13, <1>14
     DEF Next, WriterStep, StreamStep, PageStep

LEMMA PublishedIntoPipe ==
    ASSUME StreamInv, NEW w \in Writers, Publish(w), stream.pc # "closed"
    PROVE  /\ Pipe' = Append(Pipe, writer[w].id)
           /\ writer[w].id \in events
           /\ \A v \in Writers \ {w} : writer'[v] = writer[v]
           /\ UNCHANGED <<queue, stream, events, excused>>
<1>1. TypeOK /\ WritersInv
  BY DEF StreamInv
<1>2. channel' = Append(channel, writer[w].id) /\ UNCHANGED <<queue, stream, events, excused>>
  BY DEF Publish
<1>3. writer[w].id \in events
  BY <1>1 DEF Publish, WritersInv
<1>4. writer[w].id \in Ids \cup {Overflow}
  BY <1>1, <1>3 DEF TypeOK
<1>5. Pipe' = Append(Pipe, writer[w].id)
  BY <1>1, <1>2, <1>4, PipeType, ConcatAppend DEF Pipe
<1>6. \A v \in Writers \ {w} : writer'[v] = writer[v]
  BY <1>1 DEF Publish, TypeOK
<1> QED
  BY <1>2, <1>3, <1>5, <1>6

LEMMA PumpKeepsPipe ==
    ASSUME StreamInv, PumpStep
    PROVE  ~Overran /\ (Overran' \/ Pipe' = Pipe)
<1>1. TypeOK /\ ConnectionInv
  BY DEF StreamInv
<1>2. ~Overran
  BY <1>1 DEF PumpStep, ConnectionInv
<1>3. CASE QueueFull
  BY <1>2, <1>3 DEF PumpStep, Overran, Overflowed
<1>4. CASE ~QueueFull
  <2>1. queue' = Append(queue, Head(channel)) /\ channel' = Tail(channel) /\ channel # <<>>
    BY <1>4 DEF PumpStep
  <2>2. Pipe' = Pipe
    BY <1>1, <2>1, PipeType, HeadMoves DEF Pipe
  <2> QED
    BY <1>2, <2>2
<1> QED
  BY <1>3, <1>4

(* The live loop takes the head of the pipe, or ends the stream. *)
LEMMA LiveShortensPipe ==
    ASSUME StreamInv, LiveYield, stream'.pc # "closed"
    PROVE  /\ Head(queue) # Overflow
           /\ ~Overran /\ ~Overran'
           /\ Pipe # <<>> /\ Pipe \in Seq(events)
           /\ Pipe' = Tail(Pipe)
           /\ stream'.last = IF Head(Pipe) <= stream.last THEN stream.last ELSE Head(Pipe)
           /\ stream'.rows = stream.rows
           /\ UNCHANGED <<events, excused, writer>>
<1>1. TypeOK /\ queue # <<>> /\ stream.pc = "live"
  BY DEF StreamInv, LiveYield
<1>2. Head(queue) # Overflow
  BY DEF LiveYield, Close, ClosedStream
<1>3. queue' = Tail(queue) /\ UNCHANGED <<channel, events, excused, writer>>
  BY <1>2 DEF LiveYield, writerVars
<1>4. /\ stream'.last = IF Head(queue) <= stream.last THEN stream.last ELSE Head(queue)
      /\ stream'.rows = stream.rows
  BY <1>1, <1>2 DEF LiveYield, AlreadySent, TypeOK
<1>5. /\ ~Overran
      /\ Pipe # <<>> /\ Pipe \in Seq(events)
      /\ Head(queue) = Head(Pipe)
      /\ Tail(queue) \o channel = Tail(Pipe)
      /\ Tail(queue) # <<Overflow>>
  BY <1>1, <1>2, HeadOfQueue
<1>6. Pipe' = Tail(Pipe) /\ ~Overran'
  BY <1>3, <1>5 DEF Pipe, Overran
<1> QED
  BY <1>2, <1>3, <1>4, <1>5, <1>6

LEMMA PipeStep ==
    ASSUME StreamInv, [Next]_vars
    PROVE  PipeInv'
<1>1. TypeOK /\ WritersInv /\ PipeInv
  BY DEF StreamInv
<1>2. events \subseteq Nat
  BY <1>1, Sizes DEF TypeOK
<1>3. ASSUME Overran' \/ (~Overran /\ Pipe' = Pipe), events \subseteq events', excused \subseteq excused'
      PROVE  PipeInv'
  <2> SUFFICES ASSUME ~Overran'
               PROVE  /\ Pipe' \in Seq(events')
                      /\ \A j, k \in DOMAIN Pipe' : j < k =>
                            Pipe'[j] <= Pipe'[k] \/ Pipe'[k] \in excused'
    BY DEF PipeInv
  <2>1. /\ Pipe \in Seq(events) /\ Pipe' = Pipe
        /\ \A j, k \in DOMAIN Pipe : j < k => Pipe[j] <= Pipe[k] \/ Pipe[k] \in excused
    BY <1>1, <1>3 DEF PipeInv
  <2>2. Pipe \in Seq(events')
    BY <1>3, <2>1
  <2> QED
    BY <1>3, <2>1, <2>2
<1>4. ASSUME UNCHANGED <<queue, channel>>, events \subseteq events', excused \subseteq excused'
      PROVE  PipeInv'
  <2>1. Pipe' = Pipe /\ (Overran' <=> Overran)
    BY <1>4 DEF Pipe, Overran
  <2> QED
    BY <1>3, <1>4, <2>1
<1>5. ASSUME queue' = <<>>, channel' = <<>>
      PROVE  PipeInv'
  <2>1. Pipe' = <<>>
    BY <1>5 DEF Pipe
  <2> QED
    BY <2>1 DEF PipeInv
<1>6. ASSUME NEW w \in Writers, Publish(w)
      PROVE  PipeInv'
  <2>1. CASE stream.pc = "closed"
    BY <1>4, <1>6, <2>1 DEF Publish
  <2>2. CASE stream.pc # "closed"
    <3> SUFFICES ASSUME ~Overran'
                 PROVE  /\ Pipe' \in Seq(events')
                        /\ \A j, k \in DOMAIN Pipe' : j < k =>
                              Pipe'[j] <= Pipe'[k] \/ Pipe'[k] \in excused'
      BY DEF PipeInv
    <3> DEFINE id == writer[w].id
    <3>1. Pipe' = Append(Pipe, id) /\ id \in events /\ UNCHANGED <<queue, events, excused>>
      BY <1>6, <2>2, PublishedIntoPipe
    <3>2. /\ Pipe \in Seq(events)
          /\ \A j, k \in DOMAIN Pipe : j < k => Pipe[j] <= Pipe[k] \/ Pipe[k] \in excused
      BY <1>1, <3>1 DEF PipeInv, Overran
    <3>3. \A e \in events : id < e => id \in excused
      BY <1>1, <1>6 DEF WritersInv, Publish
    <3> HIDE DEF id
    <3>4. /\ Pipe' \in Seq(events') /\ Len(Pipe) \in Nat /\ Len(Pipe') = Len(Pipe) + 1
          /\ DOMAIN Pipe = 1..Len(Pipe) /\ DOMAIN Pipe' = 1..Len(Pipe')
          /\ \A j \in 1..Len(Pipe) : Pipe'[j] = Pipe[j] /\ Pipe[j] \in events
          /\ Pipe'[Len(Pipe')] = id
      BY <3>1, <3>2
    <3>5. ASSUME NEW j \in DOMAIN Pipe', NEW k \in DOMAIN Pipe', j < k
          PROVE  Pipe'[j] <= Pipe'[k] \/ Pipe'[k] \in excused'
      <4>1. j \in 1..Len(Pipe)
        BY <3>4, <3>5
      <4>2. CASE k = Len(Pipe')
        <5>1. Pipe'[j] \in events /\ Pipe'[k] = id
          BY <3>4, <4>1, <4>2
        <5>2. Pipe'[j] \in Nat /\ id \in Nat
          BY <1>2, <3>1, <5>1
        <5> QED
          BY <3>1, <3>3, <5>1, <5>2
      <4>3. CASE k # Len(Pipe')
        <5>1. k \in 1..Len(Pipe)
          BY <3>4, <4>3
        <5> QED
          BY <3>1, <3>2, <3>4, <3>5, <4>1, <5>1
      <4> QED
        BY <4>2, <4>3
    <3> QED
      BY <3>4, <3>5
  <2> QED
    BY <2>1, <2>2
<1>7. ASSUME LiveYield
      PROVE  PipeInv'
  <2>1. CASE stream'.pc = "closed"
    <3>1. Head(queue) = Overflow
      BY <1>1, <1>7, <2>1 DEF LiveYield, TypeOK
    <3> QED
      BY <1>5, <1>7, <3>1 DEF LiveYield, Close
  <2>2. CASE stream'.pc # "closed"
    <3>1. /\ ~Overran
          /\ Pipe # <<>> /\ Pipe \in Seq(events)
          /\ Pipe' = Tail(Pipe)
          /\ UNCHANGED <<events, excused>>
      BY <1>7, <2>2, LiveShortensPipe
    <3>2. /\ Pipe' \in Seq(events)
          /\ Len(Pipe') = Len(Pipe) - 1 /\ Len(Pipe) \in Nat
          /\ DOMAIN Pipe = 1..Len(Pipe) /\ DOMAIN Pipe' = 1..Len(Pipe')
          /\ \A j \in 1..Len(Pipe') : Pipe'[j] = Pipe[j + 1]
      BY <3>1, HeadTailProperties
    <3>3. \A j, k \in DOMAIN Pipe : j < k => Pipe[j] <= Pipe[k] \/ Pipe[k] \in excused
      BY <1>1, <3>1 DEF PipeInv
    <3>4. ASSUME NEW j \in DOMAIN Pipe', NEW k \in DOMAIN Pipe', j < k
          PROVE  Pipe'[j] <= Pipe'[k] \/ Pipe'[k] \in excused'
      <4>1. /\ j + 1 \in DOMAIN Pipe /\ k + 1 \in DOMAIN Pipe /\ j + 1 < k + 1
            /\ Pipe'[j] = Pipe[j + 1] /\ Pipe'[k] = Pipe[k + 1]
        BY <3>2, <3>4
      <4> QED
        BY <3>1, <3>3, <4>1
    <3> QED
      BY <3>1, <3>2, <3>4 DEF PipeInv
  <2> QED
    BY <2>1, <2>2
<1>8. ASSUME PumpStep
      PROVE  PipeInv'
  BY <1>3, <1>8, PumpKeepsPipe DEF PumpStep, writerVars
<1>9. ASSUME Disconnect
      PROVE  PipeInv'
  BY <1>5, <1>9 DEF Disconnect, Close
<1>10. ASSUME NEW w \in Writers, Insert(w) \/ Commit(w) \/ PublishFails(w)
       PROVE  PipeInv'
  BY <1>4, <1>10 DEF Insert, Commit, PublishFails, serverVars
<1>11. ASSUME Subscribe \/ ReplayQuery \/ ReplayYield \/ PageStep \/ PumpDies \/ PageFails \/ UNCHANGED vars
       PROVE  PipeInv'
  BY <1>4, <1>11 DEF Subscribe, ReplayQuery, ReplayYield, PageStep, Receive, Reset, LoadHistory,
     PumpDies, PageFails, SubscribeRefused, LoadHistoryFails, vars, writerVars, serverVars
<1> QED
  BY <1>6, <1>7, <1>8, <1>9, <1>10, <1>11 DEF Next, WriterStep, StreamStep

LEMMA CoverStep ==
    ASSUME StreamInv, [Next]_vars
    PROVE  CoverInv'
<1>1. TypeOK /\ WritersInv /\ ConnectionInv /\ ReplayInv /\ CoverInv
  BY DEF StreamInv
<1>2. events \subseteq Nat /\ stream.last \in Nat
  BY <1>1, Sizes DEF TypeOK
<1>3. ASSUME Overran' \/ (~Overran /\ Pipe' = Pipe),
             events' = events, excused \subseteq excused', stream' = stream,
             \A w \in Writers, e \in events \ excused' : Published(w, e) => Published(w, e)'
      PROVE  CoverInv'
  BY <1>1, <1>3 DEF CoverInv, CaughtUp, Caught
<1>4. ASSUME UNCHANGED <<queue, channel>>
      PROVE  Pipe' = Pipe /\ (Overran' <=> Overran)
  BY <1>4 DEF Pipe, Overran
<1>5. ASSUME UNCHANGED <<queue, channel, stream, events, excused, writer>>
      PROVE  CoverInv'
  BY <1>3, <1>4, <1>5 DEF Published, CoverInv, Overran
<1>6. ASSUME stream'.pc \in {"closed", "replay"}
      PROVE  CoverInv'
  BY <1>6 DEF CoverInv, CaughtUp
<1>7. ASSUME NEW w \in Writers, Insert(w)
      PROVE  CoverInv'
  <2>1. UNCHANGED <<events, excused, stream, queue, channel>>
    BY <1>7 DEF Insert, serverVars
  <2>2. \A v \in Writers : Published(v, writer[v].id) => v # w /\ writer'[v] = writer[v]
    BY <1>1, <1>7 DEF TypeOK, Insert, Published
  <2>3. \A v \in Writers, e \in events : Published(v, e) => Published(v, e)'
    BY <2>2 DEF Published
  <2> QED
    BY <1>3, <1>4, <2>1, <2>3 DEF CoverInv, Overran
<1>8. ASSUME NEW w \in Writers, Commit(w)
      PROVE  CoverInv'
  <2>1. /\ events' = events \cup {writer[w].id} /\ excused \subseteq excused'
        /\ UNCHANGED <<stream, queue, channel>>
    BY <1>8 DEF Commit, serverVars
  <2>2. Pipe' = Pipe /\ (Overran' <=> Overran)
    BY <1>4, <2>1
  <2>3. \A v \in Writers : \A e : Published(v, e) => Published(v, e)'
    BY <1>1, <1>8 DEF TypeOK, Commit, Published
  <2>4. writer'[w].pc = "publish" /\ writer'[w].id = writer[w].id
    BY <1>1, <1>8 DEF TypeOK, Commit
  <2>5. ASSUME CaughtUp, ~Overran, NEW e \in events' \ excused'
        PROVE  Caught(e)'
    <3>1. CASE e \in events
      <4>1. Caught(e)
        BY <1>1, <2>1, <2>5, <3>1 DEF CoverInv
      <4> QED
        BY <2>1, <2>2, <2>3, <4>1 DEF Caught
    <3>2. CASE e = writer[w].id
      BY <2>4, <3>2 DEF Caught, Published
    <3> QED
      BY <2>1, <3>1, <3>2
  <2> QED
    BY <2>1, <2>2, <2>5 DEF CoverInv, CaughtUp
<1>9. ASSUME NEW w \in Writers, Publish(w)
      PROVE  CoverInv'
  <2>1. CASE stream.pc = "closed"
    BY <1>6, <1>9, <2>1 DEF Publish
  <2>2. CASE stream.pc # "closed"
    <3>1. /\ Pipe' = Append(Pipe, writer[w].id) /\ writer[w].id \in events
          /\ \A v \in Writers \ {w} : writer'[v] = writer[v]
          /\ UNCHANGED <<queue, stream, events, excused>>
      BY <1>9, <2>2, PublishedIntoPipe
    <3>2. Pipe \in Seq(Ids \cup {Overflow}) /\ writer[w].id \in Ids \cup {Overflow}
      BY <1>1, <3>1, PipeType DEF TypeOK
    <3>3. /\ \A k \in DOMAIN Pipe : k \in DOMAIN Pipe' /\ Pipe'[k] = Pipe[k]
          /\ Len(Pipe) + 1 \in DOMAIN Pipe' /\ Pipe'[Len(Pipe) + 1] = writer[w].id
      BY <3>1, <3>2
    <3>4. ASSUME CaughtUp, ~Overran, NEW e \in events \ excused
          PROVE  Caught(e)'
      <4>1. Caught(e)
        BY <1>1, <3>4 DEF CoverInv
      <4>2. CASE \E v \in Writers : Published(v, e)
        <5>1. PICK v \in Writers : Published(v, e)
          BY <4>2
        <5>2. CASE v = w
          BY <3>3, <5>1, <5>2 DEF Published, Caught
        <5>3. CASE v # w
          BY <3>1, <5>1, <5>3 DEF Published, Caught
        <5> QED
          BY <5>2, <5>3
      <4>3. CASE e <= stream.last \/ e \in stream.rows \/ \E k \in DOMAIN Pipe : Pipe[k] = e
        BY <3>1, <3>3, <4>3 DEF Caught
      <4> QED
        BY <4>1, <4>2, <4>3 DEF Caught
    <3> QED
      BY <3>1, <3>4 DEF CoverInv, CaughtUp, Overran
  <2> QED
    BY <2>1, <2>2
<1>10. ASSUME NEW w \in Writers, PublishFails(w)
       PROVE  CoverInv'
  <2>1. /\ UNCHANGED <<stream, queue, channel, events>>
        /\ excused' = excused \cup {writer[w].id}
    BY <1>10 DEF PublishFails, serverVars
  <2>2. \A v \in Writers \ {w} : writer'[v] = writer[v]
    BY <1>1, <1>10 DEF TypeOK, PublishFails
  <2>3. \A v \in Writers, e \in events \ excused' : Published(v, e) => Published(v, e)'
    BY <2>1, <2>2 DEF Published
  <2> QED
    BY <1>3, <1>4, <2>1, <2>3 DEF CoverInv, Overran
<1>11. ASSUME Subscribe
       PROVE  CoverInv'
  BY <1>6, <1>11 DEF Subscribe, ClosedStream
<1>12. ASSUME ReplayQuery
       PROVE  CoverInv'
  <2>1. /\ stream'.rows = ListAfter(stream.last) /\ stream'.last = stream.last
        /\ stream'.pc = IF ListAfter(stream.last) = {} THEN "live" ELSE "yield"
        /\ stream'.full = (Cardinality(ListAfter(stream.last)) = PageSize)
        /\ UNCHANGED <<events, excused>>
    BY <1>1, <1>12 DEF ReplayQuery, TypeOK, writerVars
  <2>2. /\ Cardinality(ListAfter(stream.last)) # PageSize
                 => \A e \in events : stream.last < e => e \in ListAfter(stream.last)
        /\ ListAfter(stream.last) = {} => \A e \in events : ~ (stream.last < e)
    BY <1>1, <1>2, PageOfLog DEF TypeOK
  <2>3. ASSUME CaughtUp', NEW e \in events \ excused
        PROVE  Caught(e)'
    <3>1. stream.last < e => e \in ListAfter(stream.last)
      BY <2>1, <2>2, <2>3 DEF CaughtUp
    <3>2. stream.last < e \/ e <= stream.last
      BY <1>2
    <3> QED
      BY <2>1, <3>1, <3>2 DEF Caught
  <2> QED
    BY <2>1, <2>3 DEF CoverInv
<1>13. ASSUME ReplayYield
       PROVE  CoverInv'
  <2> DEFINE id == First(stream.rows)
  <2>1. id \in stream.rows
    BY <1>1, <1>13, FirstIsFirst DEF TypeOK, ReplayInv, ReplayYield
  <2>2. /\ stream'.rows = stream.rows \ {id} /\ stream'.last = id
        /\ UNCHANGED <<queue, channel, writer, events, excused>>
    BY <1>1, <1>13 DEF ReplayYield, TypeOK, writerVars
  <2>3. ASSUME CaughtUp'
        PROVE  CaughtUp
    <3>1. /\ stream.pc = "yield"
          /\ stream'.pc = IF stream.rows = {id} THEN AfterPage(stream.full) ELSE "yield"
          /\ stream'.pc = "yield" => stream'.full = stream.full
      BY <1>1, <1>13 DEF ReplayYield, TypeOK
    <3> QED
      BY <1>1, <2>3, <3>1 DEF CaughtUp, AfterPage, TypeOK
  <2> HIDE DEF id
  <2>4. ASSUME CaughtUp', ~Overran', NEW e \in events \ excused
        PROVE  Caught(e)'
    <3>1. Pipe' = Pipe /\ ~Overran
      BY <1>4, <2>2, <2>4
    <3>2. Caught(e)
      BY <1>1, <2>3, <2>4, <3>1 DEF CoverInv
    <3>3. stream.last < id /\ {stream.last, id, e} \subseteq Nat
      BY <1>1, <1>2, <2>1 DEF ReplayInv
    <3>4. CASE e <= stream.last
      <4>1. e <= id
        BY <3>3, <3>4
      <4> QED
        BY <2>2, <4>1 DEF Caught
    <3>5. CASE e \in stream.rows
      <4>1. e = id => e <= id
        BY <3>3
      <4> QED
        BY <2>2, <3>5, <4>1 DEF Caught
    <3>6. CASE \/ \E k \in DOMAIN Pipe : Pipe[k] = e
               \/ \E w \in Writers : Published(w, e)
      BY <2>2, <3>1, <3>6 DEF Caught, Published
    <3> QED
      BY <3>2, <3>4, <3>5, <3>6 DEF Caught
  <2> QED
    BY <2>2, <2>4 DEF CoverInv
<1>14. ASSUME PumpStep
       PROVE  CoverInv'
  BY <1>3, <1>14, PumpKeepsPipe DEF PumpStep, writerVars, Published
<1>15. ASSUME LiveYield
       PROVE  CoverInv'
  <2>1. CASE stream'.pc = "closed"
    BY <1>6, <2>1
  <2>2. CASE stream'.pc # "closed"
    <3>1. /\ ~Overran
          /\ Pipe # <<>> /\ Pipe \in Seq(events)
          /\ Pipe' = Tail(Pipe)
          /\ stream'.last = IF Head(Pipe) <= stream.last THEN stream.last ELSE Head(Pipe)
          /\ stream'.rows = stream.rows
          /\ UNCHANGED <<events, excused, writer>>
      BY <1>15, <2>2, LiveShortensPipe
    <3>2. /\ Head(Pipe) \in Nat /\ Head(Pipe) = Pipe[1]
          /\ \A k \in DOMAIN Pipe : k = 1 \/ (k - 1 \in DOMAIN Pipe' /\ Pipe'[k - 1] = Pipe[k])
      <4>1. /\ Head(Pipe) \in events /\ Head(Pipe) = Pipe[1]
            /\ Len(Pipe') = Len(Pipe) - 1 /\ Len(Pipe) \in Nat /\ DOMAIN Pipe = 1..Len(Pipe)
            /\ Pipe' \in Seq(events) /\ DOMAIN Pipe' = 1..Len(Pipe')
            /\ \A i \in 1..Len(Pipe') : Pipe'[i] = Pipe[i + 1]
        BY <3>1, HeadTailProperties
      <4>2. ASSUME NEW k \in DOMAIN Pipe, k # 1
            PROVE  k - 1 \in DOMAIN Pipe' /\ Pipe'[k - 1] = Pipe[k]
        <5>1. k - 1 \in 1..Len(Pipe') /\ (k - 1) + 1 = k
          BY <4>1, <4>2
        <5>2. Pipe'[k - 1] = Pipe[(k - 1) + 1]
          BY <4>1, <5>1
        <5> QED
          BY <4>1, <5>1, <5>2
      <4> QED
        BY <1>2, <4>1, <4>2
    <3>3. CaughtUp
      BY <1>15 DEF LiveYield, CaughtUp
    <3>4. ASSUME NEW e \in events \ excused
          PROVE  Caught(e)'
      <4>1. Caught(e)
        BY <1>1, <3>1, <3>3 DEF CoverInv
      <4>2. stream.last <= stream'.last /\ Head(Pipe) <= stream'.last /\ stream'.last \in Nat
        BY <1>2, <3>1, <3>2
      <4>3. CASE e <= stream.last
        <5>1. e <= stream'.last
          BY <1>2, <4>2, <4>3
        <5> QED
          BY <5>1 DEF Caught
      <4>4. CASE \E k \in DOMAIN Pipe : Pipe[k] = e
        BY <3>2, <4>2, <4>4 DEF Caught
      <4>5. CASE e \in stream.rows \/ \E w \in Writers : Published(w, e)
        BY <3>1, <4>5 DEF Caught, Published
      <4> QED
        BY <4>1, <4>3, <4>4, <4>5 DEF Caught
    <3> QED
      BY <3>1, <3>4 DEF CoverInv
  <2> QED
    BY <2>1, <2>2
<1>16. ASSUME Disconnect
       PROVE  CoverInv'
  BY <1>6, <1>16 DEF Disconnect, Close, ClosedStream
<1>17. ASSUME PageStep \/ PumpDies \/ PageFails \/ UNCHANGED vars
       PROVE  CoverInv'
  BY <1>5, <1>17 DEF PageStep, Receive, Reset, LoadHistory, PumpDies, PageFails,
     SubscribeRefused, LoadHistoryFails, vars, writerVars, serverVars
<1> QED
  BY <1>7, <1>8, <1>9, <1>10, <1>11, <1>12, <1>13, <1>14, <1>15, <1>16, <1>17
     DEF Next, WriterStep, StreamStep

-----------------------------------------------------------------------------
(* Theorems. *)

LEMMA StreamInvariant == Spec => []StreamInv
<1>1. StreamInv /\ [Next]_vars => StreamInv'
  <2> SUFFICES ASSUME StreamInv, [Next]_vars PROVE StreamInv'
    OBVIOUS
  <2>1. TypeOK'
    BY TypeStep DEF StreamInv
  <2> QED
    BY <2>1, WritersStep, ConnectionStep, CursorStep, ReplayStep, PipeStep, CoverStep DEF StreamInv
<1> QED
  BY <1>1, InitiallyOK, PTL DEF Spec

(* The event path keeps its types: ids are those of the sequence, the live *)
(* queue never exceeds its size, and what is published is an event's id.   *)
THEOREM StreamTyped == Spec => []TypeOK
<1>1. StreamInv => TypeOK
  BY DEF StreamInv
<1> QED
  BY <1>1, StreamInvariant, PTL

(* Whatever order Redis delivers in, and across replay, live delivery,     *)
(* overflow and reconnect, the ids on the wire ascend and lie after        *)
(* everything the page has.                                                *)
THEOREM NothingTwice == Spec => []DeliveredInOrder
<1>1. StreamInv => DeliveredInOrder
  <2> SUFFICES ASSUME StreamInv PROVE DeliveredInOrder
    OBVIOUS
  <2>1. TypeOK /\ CursorInv
    BY DEF StreamInv
  <2>2. LastEventId \in shown \cup {0}
    BY <2>1, LastEventIdIsLast DEF TypeOK
  <2>3. ASSUME NEW i \in DOMAIN wire, wire[i] # Overflow
        PROVE  LastEventId < wire[i]
    <3>1. wire[i] \in Ids
      BY <2>1, <2>3 DEF TypeOK
    <3> QED
      BY <2>1, <2>2, <2>3, <3>1, Sizes DEF CursorInv
  <2> QED
    BY <2>1, <2>3 DEF CursorInv, DeliveredInOrder
<1> QED
  BY <1>1, StreamInvariant, PTL

LEMMA NothingPassedOver == StreamInv => Feed!Gapless
<1> SUFFICES ASSUME StreamInv, NEW e \in events \ excused, NEW v \in shown, e < v
             PROVE  e \in shown
  BY DEF Feed!Gapless
<1>1. TypeOK /\ CursorInv
  BY DEF StreamInv
<1>2. e \in Sent
  BY <1>1 DEF CursorInv, Sent
<1>3. ASSUME NEW i \in DOMAIN wire, wire[i] = e
      PROVE  FALSE
  <2>1. e # Overflow /\ e \in Nat /\ v \in Nat
    BY <1>1, Sizes DEF TypeOK
  <2>2. v < e
    BY <1>1, <1>3, <2>1 DEF CursorInv
  <2> QED
    BY <2>1, <2>2
<1> QED
  BY <1>2, <1>3 DEF Sent

LEMMA FeedStep ==
    ASSUME StreamInv, Feed!Gapless', [Next]_vars
    PROVE  [Feed!Next]_(Feed!feedVars)
<1> USE DEF Feed!Next, Feed!feedVars
<1>1. TypeOK /\ ConnectionInv /\ CursorInv /\ Feed!Gapless'
  BY DEF StreamInv
<1>2. ASSUME UNCHANGED <<events, shown, excused>>
      PROVE  UNCHANGED Feed!feedVars
  BY <1>2
<1>3. ASSUME NEW w \in Writers, Commit(w)
      PROVE  Feed!Next
  <2>1. /\ events' = events \cup {writer[w].id}
        /\ excused \subseteq excused' /\ UNCHANGED shown
    BY <1>3 DEF Commit, clientVars
  <2>2. CASE writer[w].id \in events
    BY <1>1, <2>1, <2>2 DEF Feed!Lose
  <2>3. CASE writer[w].id \notin events
    BY <1>1, <2>1, <2>3 DEF Feed!Commit
  <2> QED
    BY <2>2, <2>3
<1>4. ASSUME NEW w \in Writers, PublishFails(w)
      PROVE  Feed!Next
  BY <1>1, <1>4 DEF PublishFails, clientVars, Feed!Lose
<1>5. ASSUME Receive
      PROVE  Feed!Next
  <2>1. /\ shown' = shown \cup {Head(wire)} /\ wire # <<>> /\ Head(wire) # Overflow
        /\ UNCHANGED <<events, excused>>
    BY <1>5 DEF Receive, writerVars
  <2>2. Head(wire) \in Sent /\ shown \subseteq Sent
    BY <1>1, <2>1 DEF TypeOK, Sent
  <2>3. shown' \subseteq events
    BY <1>1, <2>1, <2>2, Sizes DEF CursorInv, TypeOK
  <2> QED
    BY <1>1, <2>1, <2>3 DEF Feed!Deliver
<1>6. ASSUME LoadHistory
      PROVE  Feed!Next
  <2>1. shown' = shown \cup ListAfter(LastEventId) /\ UNCHANGED <<events, excused>>
    BY <1>6 DEF LoadHistory, writerVars
  <2>2. shown \subseteq events
    BY <1>1, Sizes DEF CursorInv, Sent, TypeOK
  <2> QED
    BY <1>1, <2>1, <2>2 DEF Feed!Deliver, ListAfter
<1>7. ASSUME NEW w \in Writers, Insert(w) \/ Publish(w)
      PROVE  UNCHANGED Feed!feedVars
  BY <1>2, <1>7 DEF Insert, Publish, clientVars
<1>8. ASSUME StreamStep \/ Reset \/ PumpDies \/ PageFails \/ Disconnect \/ UNCHANGED vars
      PROVE  UNCHANGED Feed!feedVars
  BY <1>2, <1>8 DEF StreamStep, Subscribe, ReplayQuery, ReplayYield, PumpStep, LiveYield, Reset,
     PumpDies, PageFails, SubscribeRefused, LoadHistoryFails, Disconnect, vars, writerVars,
     clientVars
<1> QED
  BY <1>3, <1>4, <1>5, <1>6, <1>7, <1>8 DEF Next, WriterStep, PageStep

(* Replay, live delivery, overflow, reconnects and failures of Redis       *)
(* together implement the feed: an event is passed over only if its own    *)
(* publication failed or a later append was committed before it.           *)
THEOREM StreamImplementsFeed == Spec => FeedSpec
<1>1. Init => Feed!Init
  BY DEF Init, Feed!Init
<1>2. StreamInv /\ Feed!Gapless' /\ [Next]_vars => [Feed!Next]_(Feed!feedVars)
  BY FeedStep
<1> QED
  BY <1>1, <1>2, NothingPassedOver, StreamInvariant, PTL DEF Spec, FeedSpec, Feed!Spec
=============================================================================
