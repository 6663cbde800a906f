--------------------------- MODULE DemoChatProofs ---------------------------
(***************************************************************************)
(* The demo's conversation is one the API accepts, the page shows what the *)
(* model was told, and images and cache breakpoints stay bounded, for any  *)
(* providers, limits and bounds and wherever a run is interrupted.         *)
(***************************************************************************)
EXTENDS DemoChat, DataLemmas, TLAPS

(* Calls are numbered by turns, so those of a new turn are new.  A result  *)
(* is of a call before the last turn's.                                    *)
CallsInv ==
    \A i \in DOMAIN messages :
        /\ \A k \in DOMAIN messages[i].uses :
              messages[i].uses[k] <= MaxUses * Len(messages)
        /\ \A k \in DOMAIN messages[i].results :
              /\ messages[i].results[k] <= MaxUses * Len(messages)
              /\ \A m \in DOMAIN LastUses : messages[i].results[k] < LastUses[m]

(* Where the loop is in the last turn's calls.  Only a run that is cut off *)
(* leaves calls without results, and then the mark stays.                  *)
LoopInv ==
    /\ loop.pc = "blocks" => messages # <<>> /\ inLoop /\ loop.done \o loop.todo = LastUses
    /\ loop.pc # "blocks" => loop.todo = <<>> /\ loop.done = <<>> /\ loop.shots = {}
    /\ loop.pc \in {"sent", "request"} => LastUses = <<>>
    /\ loop.pc = "request" => inLoop
    /\ ~inLoop => LastUses = <<>>

(* The calls of the results to come have run. *)
DoneInv == \A k \in DOMAIN loop.done : tools[loop.done[k]] = "ran"

ChatInv ==
    /\ TypeOK
    /\ CallsInv
    /\ LoopInv
    /\ DoneInv
    /\ ShownAsTold

(* What the last caching request marked, if none was missed since. *)
Seen == {i \in UserTurns(messages) : \E j \in marked : i <= j}

MarkedInv == ~skipped => marked = Newest(Seen, 3)

-----------------------------------------------------------------------------
(* Types. *)

TurnType == [by : {"person", "tools", "assistant"}, uses : Seq(Calls), results : Seq(Calls)]

LoopType == [pc : {"idle", "sent", "request", "blocks"},
             todo : Seq(Calls), done : Seq(Calls), shots : SUBSET Calls]

(* The loop begins idle and goes on from a fresh record. *)
LEMMA LoopStates ==
    /\ Idle \in LoopType
    /\ \A pc \in {"sent", "request", "blocks"} :
          /\ [Idle EXCEPT !.pc = pc] \in LoopType
          /\ [Idle EXCEPT !.pc = pc] = [pc |-> pc, todo |-> <<>>, done |-> <<>>, shots |-> {}]
    /\ \A calls \in Seq(Calls) :
          /\ [Idle EXCEPT !.pc = "blocks", !.todo = calls] \in LoopType
          /\ [Idle EXCEPT !.pc = "blocks", !.todo = calls]
                 = [pc |-> "blocks", todo |-> calls, done |-> <<>>, shots |-> {}]
<1>1. Idle = [pc |-> "idle", todo |-> <<>>, done |-> <<>>, shots |-> {}]
  BY DEF Idle
<1>2. \A pc \in {"idle", "sent", "request", "blocks"}, calls \in Seq(Calls) :
         [pc |-> pc, todo |-> calls, done |-> <<>>, shots |-> {}] \in LoopType
  BY DEF LoopType
<1>3. <<>> \in Seq(Calls)
  OBVIOUS
<1>4. ASSUME NEW pc \in {"sent", "request", "blocks"}
      PROVE  [Idle EXCEPT !.pc = pc] = [pc |-> pc, todo |-> <<>>, done |-> <<>>, shots |-> {}]
  <2> DEFINE next == [Idle EXCEPT !.pc = pc]
  <2>1. next = [Idle EXCEPT !.pc = pc]
    OBVIOUS
  <2> HIDE DEF next
  <2>2. next = [pc |-> pc, todo |-> <<>>, done |-> <<>>, shots |-> {}]
    BY <2>1 DEF Idle
  <2> QED
    BY <2>1, <2>2
<1>5. ASSUME NEW calls \in Seq(Calls)
      PROVE  [Idle EXCEPT !.pc = "blocks", !.todo = calls]
                 = [pc |-> "blocks", todo |-> calls, done |-> <<>>, shots |-> {}]
  <2> DEFINE next == [Idle EXCEPT !.pc = "blocks", !.todo = calls]
  <2>1. next = [Idle EXCEPT !.pc = "blocks", !.todo = calls]
    OBVIOUS
  <2> HIDE DEF next
  <2>2. next = [pc |-> "blocks", todo |-> calls, done |-> <<>>, shots |-> {}]
    BY <2>1 DEF Idle
  <2> QED
    BY <2>1, <2>2
<1>6. Idle \in LoopType
  BY <1>1, <1>2, <1>3
<1>7. \A pc \in {"sent", "request", "blocks"} : [Idle EXCEPT !.pc = pc] \in LoopType
  <2> SUFFICES ASSUME NEW pc \in {"sent", "request", "blocks"}
               PROVE  [Idle EXCEPT !.pc = pc] \in LoopType
    OBVIOUS
  <2>1. [pc |-> pc, todo |-> <<>>, done |-> <<>>, shots |-> {}] \in LoopType
    BY <1>2, <1>3
  <2> QED
    BY <1>4, <2>1, Zenon
<1>8. \A calls \in Seq(Calls) : [Idle EXCEPT !.pc = "blocks", !.todo = calls] \in LoopType
  BY <1>2, <1>5
<1> QED
  BY <1>4, <1>5, <1>6, <1>7, <1>8, Zenon

LEMMA Products ==
    /\ \A m, a, b \in Nat : a <= b => m * a <= m * b
    /\ \A m, a \in Nat : m * (a + 1) = m * a + m /\ m * a \in Nat
OBVIOUS

LEMMA TurnAdded ==
    ASSUME messages \in Seq(TurnType), NEW turn \in TurnType, messages' = Append(messages, turn)
    PROVE  /\ messages' \in Seq(TurnType) /\ messages' # <<>>
           /\ Len(messages) \in Nat /\ Len(messages') = Len(messages) + 1
           /\ DOMAIN messages = 1..Len(messages) /\ DOMAIN messages' = 1..Len(messages')
           /\ \A i \in DOMAIN messages : i \in DOMAIN messages' /\ messages'[i] = messages[i]
           /\ messages'[Len(messages')] = turn /\ Len(messages') \in DOMAIN messages'
           /\ LastUses' = turn.uses
<1>1. /\ messages' \in Seq(TurnType) /\ messages' # <<>>
      /\ Len(messages) \in Nat /\ Len(messages') = Len(messages) + 1
      /\ DOMAIN messages = 1..Len(messages) /\ DOMAIN messages' = 1..Len(messages')
      /\ \A i \in 1..Len(messages) : messages'[i] = messages[i]
      /\ messages'[Len(messages')] = turn
  BY AppendProperties
<1>2. \A i \in 1..Len(messages) : i \in 1..Len(messages')
  BY <1>1
<1>3. Len(messages') \in 1..Len(messages')
  BY <1>1
<1> QED
  BY <1>1, <1>2, <1>3 DEF LastUses

LEMMA LastUsesType ==
    ASSUME messages \in Seq(TurnType)
    PROVE  LastUses \in Seq(Calls)
<1>1. CASE messages = <<>>
  BY <1>1 DEF LastUses
<1>2. CASE messages # <<>>
  <2>1. messages[Len(messages)] \in TurnType
    BY <1>2
  <2> QED
    BY <1>2, <2>1 DEF LastUses, TurnType
<1> QED
  BY <1>1, <1>2

(* The calls of a response, for which there is room. *)
LEMMA NewCallsType ==
    ASSUME Len(messages) \in Nat, Len(messages) < MaxTurns, NEW n \in 0..MaxUses
    PROVE  /\ NewCalls(n) \in Seq(Calls)
           /\ DOMAIN NewCalls(n) = 1..n
           /\ \A k \in 1..n : /\ NewCalls(n)[k] = MaxUses * Len(messages) + k
                              /\ MaxUses * Len(messages) < NewCalls(n)[k]
                              /\ NewCalls(n)[k] <= MaxUses * (Len(messages) + 1)
<1>1. MaxUses \in Nat /\ MaxTurns \in Nat /\ n \in Nat
  BY LoopAssumption
<1> DEFINE b == MaxUses * Len(messages)
<1>2. /\ b \in Nat /\ MaxUses * (Len(messages) + 1) = b + MaxUses
      /\ MaxUses * (MaxTurns + 1) \in Nat
      /\ MaxUses * (Len(messages) + 1) <= MaxUses * (MaxTurns + 1)
  <2>1. Len(messages) + 1 <= MaxTurns + 1 /\ Len(messages) + 1 \in Nat /\ MaxTurns + 1 \in Nat
    BY <1>1
  <2> QED
    BY <1>1, <2>1, Products
<1>3. NewCalls(n) = [k \in 1..n |-> b + k]
  BY DEF NewCalls
<1>4. Calls = 1..(MaxUses * (MaxTurns + 1))
  BY DEF Calls
<1> HIDE DEF b
<1>5. \A k \in 1..n : b < b + k /\ b + k <= b + MaxUses /\ b + k \in Calls
  BY <1>1, <1>2, <1>4
<1>6. NewCalls(n) \in Seq(Calls) /\ DOMAIN NewCalls(n) = 1..n
  BY <1>1, <1>3, <1>5
<1> QED
  BY <1>2, <1>3, <1>5, <1>6 DEF b

LEMMA FilteredType ==
    ASSUME NEW shots \in SUBSET Calls
    PROVE  Filtered(shots) \subseteq shots
BY DEF Filtered, Newest

LEMMA IterateType ==
    ASSUME TypeOK, NEW turns \in Seq(TurnType), NEW shots \in SUBSET Calls,
           Iterate(turns, shots),
           \A i \in DOMAIN messages : i \in DOMAIN turns /\ turns[i] = messages[i]
    PROVE  /\ messages' \in Seq(TurnType)
           /\ images' \subseteq Calls
           /\ (\A i \in marked : i \in DOMAIN messages /\ messages[i].by # "assistant")'
           /\ loop' \in LoopType
           /\ skipped' \in BOOLEAN
<1>1. messages' = turns /\ loop' = [Idle EXCEPT !.pc = "request"]
  BY DEF Iterate
<1>2. loop' \in LoopType
  BY <1>1, LoopStates
<1>3. CASE provider \in Caching
  <2>1. /\ images' = shots /\ marked' \subseteq marked \cup UserTurns(turns)
        /\ skipped' = (skipped \/ Cardinality(NewTurns(turns)) > 1)
    BY <1>3 DEF Iterate, Breakpoints, Newest
  <2>2. \A i \in marked' : i \in DOMAIN turns /\ turns[i].by # "assistant"
    BY <2>1 DEF TypeOK, UserTurns
  <2>3. skipped' \in BOOLEAN
    BY <2>1
  <2> QED
    BY <1>1, <1>2, <2>1, <2>2, <2>3
<1>4. CASE provider \notin Caching
  <2>1. images' = Filtered(shots) /\ UNCHANGED <<marked, skipped>>
    BY <1>4 DEF Iterate
  <2>2. \A i \in marked' : i \in DOMAIN turns /\ turns[i].by # "assistant"
    BY <2>1 DEF TypeOK
  <2> QED
    BY <1>1, <1>2, <2>1, <2>2, FilteredType DEF TypeOK
<1> QED
  BY <1>3, <1>4

LEMMA InitiallyChat == Init => ChatInv
<1> SUFFICES ASSUME Init PROVE ChatInv
  OBVIOUS
<1>1. messages = <<>> /\ loop = Idle /\ inLoop = FALSE
  BY DEF Init, LoopInit
<1>2. TypeOK
  <2>1. loop \in LoopType /\ Unknown \in [Calls -> {"unknown", "ran", "stopped"}]
    BY <1>1, LoopStates DEF Unknown
  <2>2. /\ messages = <<>> /\ images = {} /\ marked = {} /\ skipped = FALSE /\ tools = Unknown
        /\ provider \in Caching \cup Filtering /\ limit \in Limits
    BY DEF Init, LoopInit
  <2> QED
    <3>1. messages \in Seq([by : {"person", "tools", "assistant"},
                             uses : Seq(Calls), results : Seq(Calls)])
      BY <2>2
    <3>2. inLoop \in BOOLEAN /\ skipped \in BOOLEAN /\ images \subseteq Calls
      BY <1>1, <2>2
    <3>3. loop \in [pc : {"idle", "sent", "request", "blocks"},
                    todo : Seq(Calls), done : Seq(Calls), shots : SUBSET Calls]
      BY <2>1 DEF LoopType
    <3> QED
      BY <2>1, <2>2, <3>1, <3>2, <3>3, Zenon DEF TypeOK
<1>3. CallsInv /\ ShownAsTold
  BY <1>1 DEF CallsInv, ShownAsTold
<1>4. LoopInv /\ DoneInv
  BY <1>1 DEF LoopInv, DoneInv, LastUses, Idle
<1> QED
  BY <1>2, <1>3, <1>4 DEF ChatInv

LEMMA ChatTypeStep ==
    ASSUME TypeOK, [Next]_vars
    PROVE  TypeOK'
<1>1. /\ messages \in Seq(TurnType) /\ loop \in LoopType
      /\ \A i \in marked : i \in DOMAIN messages /\ messages[i].by # "assistant"
      /\ provider \in Caching \cup Filtering /\ limit \in Limits
      /\ images \subseteq Calls /\ tools \in [Calls -> {"unknown", "ran", "stopped"}]
      /\ inLoop \in BOOLEAN /\ skipped \in BOOLEAN
  BY DEF TypeOK, TurnType, LoopType
<1>2. ASSUME /\ provider' \in Caching \cup Filtering
             /\ limit' \in Limits
             /\ messages' \in Seq(TurnType)
             /\ images' \subseteq Calls
             /\ (\A i \in marked : i \in DOMAIN messages /\ messages[i].by # "assistant")'
             /\ loop' \in LoopType
             /\ tools' \in [Calls -> {"unknown", "ran", "stopped"}]
             /\ inLoop' \in BOOLEAN
             /\ skipped' \in BOOLEAN
      PROVE  TypeOK'
  BY <1>2 DEF TypeOK, TurnType, LoopType
<1>3. ASSUME SendMessage
      PROVE  TypeOK'
  <2>1. Interrupted \in Seq(Calls)
    BY <1>1, LastUsesType DEF Interrupted
  <2>2. Turn("person", <<>>, Interrupted) \in TurnType
    BY <2>1 DEF Turn, TurnType
  <2>3. /\ messages' = Append(messages, Turn("person", <<>>, Interrupted))
        /\ tools' = Stopped(Interrupted) /\ loop' = [Idle EXCEPT !.pc = "sent"]
        /\ UNCHANGED <<provider, limit, images, marked, skipped, inLoop>>
    BY <1>3 DEF SendMessage
  <2>4. /\ messages' \in Seq(TurnType)
        /\ \A i \in DOMAIN messages : i \in DOMAIN messages' /\ messages'[i] = messages[i]
    BY <1>1, <2>2, <2>3, TurnAdded
  <2>5. loop' \in LoopType
    BY <2>3, LoopStates
  <2>6. tools' \in [Calls -> {"unknown", "ran", "stopped"}]
    BY <1>1, <2>3 DEF Stopped
  <2>7. (\A i \in marked : i \in DOMAIN messages /\ messages[i].by # "assistant")'
    BY <1>1, <2>3, <2>4
  <2> QED
    BY <1>1, <1>2, <2>3, <2>4, <2>5, <2>6, <2>7
<1>4. ASSUME StartLoop
      PROVE  TypeOK'
  <2>1. inLoop' \in BOOLEAN /\ UNCHANGED <<provider, limit, tools>> /\ Iterate(messages, images)
    BY <1>4 DEF StartLoop
  <2>2. /\ messages' \in Seq(TurnType)
        /\ images' \subseteq Calls
        /\ (\A i \in marked : i \in DOMAIN messages /\ messages[i].by # "assistant")'
        /\ loop' \in LoopType
        /\ skipped' \in BOOLEAN
    BY <1>1, <2>1, IterateType
  <2> QED
    BY <1>1, <1>2, <2>1, <2>2
<1>5. ASSUME LoopReturns
      PROVE  TypeOK'
  <2>1. /\ loop' = Idle /\ inLoop' = FALSE
        /\ UNCHANGED <<messages, images, marked, skipped, provider, limit, tools>>
    BY <1>5 DEF LoopReturns, RequestFails, Return
  <2>2. loop' \in LoopType
    BY <2>1, LoopStates
  <2> QED
    BY <1>1, <1>2, <2>1, <2>2
<1>6. ASSUME LoopGoesOn, Respond
      PROVE  TypeOK'
  <2>1. PICK n \in 0..MaxUses :
          /\ messages' = Append(messages, Turn("assistant", NewCalls(n), <<>>))
          /\ loop' = [Idle EXCEPT !.pc = "blocks", !.todo = NewCalls(n)]
    BY <1>6 DEF Respond
  <2>2. /\ UNCHANGED <<images, marked, skipped, provider, limit, tools, inLoop>>
        /\ Len(messages) < MaxTurns /\ Len(messages) \in Nat
    <3>1. Len(messages) \in Nat
      BY <1>1
    <3> QED
      BY <1>6, <3>1 DEF Respond, LoopGoesOn
  <2>3. NewCalls(n) \in Seq(Calls)
    BY <2>2, NewCallsType
  <2>4. Turn("assistant", NewCalls(n), <<>>) \in TurnType
    BY <2>3 DEF Turn, TurnType
  <2>5. /\ messages' \in Seq(TurnType)
        /\ \A i \in DOMAIN messages : i \in DOMAIN messages' /\ messages'[i] = messages[i]
    BY <1>1, <2>1, <2>4, TurnAdded
  <2>6. loop' \in LoopType
    BY <2>1, <2>3, LoopStates
  <2>7. (\A i \in marked : i \in DOMAIN messages /\ messages[i].by # "assistant")'
    BY <1>1, <2>2, <2>5
  <2> QED
    BY <1>1, <1>2, <2>2, <2>5, <2>6, <2>7
<1>7. ASSUME LoopGoesOn, SendResults
      PROVE  TypeOK'
  <2> DEFINE turns == Append(messages, Turn("tools", <<>>, loop.done))
  <2>1. Turn("tools", <<>>, loop.done) \in TurnType
    BY <1>1 DEF Turn, TurnType, LoopType
  <2>2. /\ turns \in Seq(TurnType)
        /\ \A i \in DOMAIN messages : i \in DOMAIN turns /\ turns[i] = messages[i]
    BY <1>1, <2>1
  <2>3. images \cup loop.shots \subseteq Calls
    BY <1>1 DEF LoopType
  <2>4. Iterate(turns, images \cup loop.shots) /\ UNCHANGED <<provider, limit, tools, inLoop>>
    BY <1>7 DEF LoopGoesOn, SendResults
  <2> HIDE DEF turns
  <2>5. /\ messages' \in Seq(TurnType)
        /\ images' \subseteq Calls
        /\ (\A i \in marked : i \in DOMAIN messages /\ messages[i].by # "assistant")'
        /\ loop' \in LoopType
        /\ skipped' \in BOOLEAN
    BY <2>2, <2>3, <2>4, IterateType
  <2> QED
    BY <1>1, <1>2, <2>4, <2>5
<1>8. ASSUME ToolRuns
      PROVE  TypeOK'
  <2>1. PICK shot \in SUBSET {Head(loop.todo)} :
          loop' = [loop EXCEPT !.todo = Tail(@), !.done = Append(@, Head(loop.todo)),
                               !.shots = @ \cup shot]
    BY <1>8 DEF ToolRuns, RunTool, ImagesOf
  <2>2. loop.todo \in Seq(Calls) /\ loop.todo # <<>> /\ loop.done \in Seq(Calls)
    BY <1>1, <1>8 DEF ToolRuns, RunTool, LoopType
  <2>3. Head(loop.todo) \in Calls /\ Tail(loop.todo) \in Seq(Calls)
    BY <2>2, HeadTailProperties
  <2>4. Append(loop.done, Head(loop.todo)) \in Seq(Calls)
    BY <2>2, <2>3, AppendProperties
  <2>5. loop' \in LoopType
    <3> DEFINE todo == Tail(loop.todo)
               done == Append(loop.done, Head(loop.todo))
    <3>1. loop.shots \cup shot \in SUBSET Calls /\ loop.pc \in {"idle", "sent", "request", "blocks"}
      BY <1>1, <2>3 DEF LoopType
    <3>2. loop' = [pc |-> loop.pc, todo |-> todo, done |-> done, shots |-> loop.shots \cup shot]
      BY <1>1, <2>1 DEF LoopType
    <3>3. todo \in Seq(Calls) /\ done \in Seq(Calls)
      BY <2>3, <2>4
    <3> HIDE DEF todo, done
    <3> QED
      BY <3>1, <3>2, <3>3 DEF LoopType
  <2>6. /\ tools' = [tools EXCEPT ![Head(loop.todo)] = "ran"]
        /\ UNCHANGED <<messages, images, marked, skipped, provider, limit, inLoop>>
    BY <1>8 DEF ToolRuns, RunTool
  <2>7. tools' \in [Calls -> {"unknown", "ran", "stopped"}]
    BY <1>1, <2>3, <2>6
  <2> QED
    BY <1>1, <1>2, <2>5, <2>6, <2>7
<1>9. ASSUME Rerun
      PROVE  TypeOK'
  <2>1. /\ loop' = Idle /\ UNCHANGED <<messages, images, marked, skipped, tools, inLoop>>
        /\ provider' \in Caching \cup Filtering /\ limit' \in Limits
    BY <1>1, <1>9 DEF Rerun, Abandon
  <2>2. loop' \in LoopType
    BY <2>1, LoopStates
  <2> QED
    BY <1>1, <1>2, <2>1, <2>2
<1>10. ASSUME Reset
       PROVE  TypeOK'
  <2>1. /\ messages' = <<>> /\ images' = {} /\ marked' = {} /\ skipped' = FALSE /\ loop' = Idle
        /\ tools' = Unknown /\ inLoop' = FALSE
        /\ provider' \in Caching \cup Filtering /\ limit' \in Limits
    BY <1>10 DEF Reset
  <2>2. loop' \in LoopType
    BY <2>1, LoopStates
  <2>3. messages' \in Seq(TurnType)
    BY <2>1
  <2> QED
    BY <1>2, <2>1, <2>2, <2>3 DEF Unknown
<1>11. ASSUME UNCHANGED vars
       PROVE  TypeOK'
  BY <1>1, <1>2, <1>11 DEF vars, loopVars
<1> QED
  BY <1>3, <1>4, <1>5, <1>6, <1>7, <1>8, <1>9, <1>10, <1>11 DEF Next, LoopGoesOn

-----------------------------------------------------------------------------
(* The conversation. *)

LEMMA CallsAreNumbers == Calls \subseteq Nat /\ MaxUses \in Nat /\ MaxTurns \in Nat
BY LoopAssumption, Products DEF Calls

LEMMA ChatFacts ==
    ASSUME TypeOK
    PROVE  /\ messages \in Seq(TurnType) /\ loop \in LoopType
           /\ Len(messages) \in Nat /\ DOMAIN messages = 1..Len(messages)
           /\ \A i \in DOMAIN messages :
                 /\ messages[i].uses \in Seq(Calls) /\ messages[i].results \in Seq(Calls)
           /\ LastUses \in Seq(Calls)
<1>1. messages \in Seq(TurnType) /\ loop \in LoopType
  BY DEF TypeOK, TurnType, LoopType
<1>2. \A i \in DOMAIN messages :
         /\ messages[i].uses \in Seq(Calls) /\ messages[i].results \in Seq(Calls)
  <2>1. \A i \in DOMAIN messages : messages[i] \in TurnType
    BY <1>1
  <2> QED
    BY <2>1 DEF TurnType
<1> QED
  BY <1>1, <1>2, LastUsesType

LEMMA LastUsesBounded ==
    ASSUME TypeOK, CallsInv
    PROVE  \A m \in DOMAIN LastUses : LastUses[m] <= MaxUses * Len(messages)
<1>1. CASE messages = <<>>
  BY <1>1 DEF LastUses
<1>2. CASE messages # <<>>
  <2>1. Len(messages) \in DOMAIN messages /\ LastUses = messages[Len(messages)].uses
    BY <1>2, ChatFacts, EmptySeq DEF LastUses
  <2> QED
    BY <2>1 DEF CallsInv
<1> QED
  BY <1>1, <1>2

(* A turn that is added has the results of the last calls, or new calls.   *)
LEMMA CallsExtend ==
    ASSUME TypeOK, CallsInv, NEW turn \in TurnType, messages' = Append(messages, turn),
           \/ turn.uses = <<>> /\ turn.results = LastUses
           \/ /\ turn.results = <<>>
              /\ \A k \in DOMAIN turn.uses : /\ MaxUses * Len(messages) < turn.uses[k]
                                             /\ turn.uses[k] <= MaxUses * (Len(messages) + 1)
    PROVE  CallsInv'
<1> DEFINE b == MaxUses * Len(messages)
           bb == MaxUses * (Len(messages) + 1)
<1>1. /\ messages \in Seq(TurnType) /\ Len(messages) \in Nat /\ LastUses \in Seq(Calls)
      /\ \A i \in DOMAIN messages :
            /\ messages[i].uses \in Seq(Calls) /\ messages[i].results \in Seq(Calls)
  BY ChatFacts
<1>2. b \in Nat /\ bb \in Nat /\ b <= bb
  BY <1>1, CallsAreNumbers, Products
<1>3. /\ Len(messages') = Len(messages) + 1
      /\ DOMAIN messages = 1..Len(messages) /\ DOMAIN messages' = 1..Len(messages')
      /\ \A i \in DOMAIN messages : messages'[i] = messages[i]
      /\ messages'[Len(messages')] = turn
      /\ LastUses' = turn.uses
  BY <1>1, TurnAdded
<1>4. /\ turn.uses = <<>> /\ turn.results = LastUses
      \/ /\ turn.results = <<>>
         /\ \A k \in DOMAIN turn.uses : b < turn.uses[k] /\ turn.uses[k] <= bb
  OBVIOUS
<1>5. /\ MaxUses * Len(messages') = bb
      /\ \A m \in DOMAIN LastUses : LastUses[m] <= b
      /\ \A i \in DOMAIN messages :
            /\ \A k \in DOMAIN messages[i].uses : messages[i].uses[k] <= b
            /\ \A k \in DOMAIN messages[i].results : messages[i].results[k] <= b
  BY <1>3, LastUsesBounded DEF CallsInv
<1>6. turn.uses \in Seq(Calls) /\ turn.results \in Seq(Calls)
  BY DEF TurnType
<1> HIDE DEF b, bb
<1>7. ASSUME NEW c \in Calls, c <= b
      PROVE  c <= bb /\ \A m \in DOMAIN turn.uses : c < turn.uses[m]
  <2>1. c \in Nat
    BY CallsAreNumbers
  <2>2. ASSUME NEW m \in DOMAIN turn.uses
        PROVE  c < turn.uses[m]
    <3>1. b < turn.uses[m]
      BY <1>4
    <3>2. turn.uses[m] \in Nat
      <4>1. turn.uses[m] \in Calls
        BY <1>6
      <4> QED
        BY <4>1, CallsAreNumbers
    <3> QED
      BY <1>2, <1>7, <2>1, <3>1, <3>2
  <2> QED
    BY <1>2, <1>7, <2>1, <2>2
<1>8. ASSUME NEW i \in DOMAIN messages'
      PROVE  /\ \A k \in DOMAIN messages'[i].uses : messages'[i].uses[k] <= bb
             /\ \A k \in DOMAIN messages'[i].results :
                   /\ messages'[i].results[k] <= bb
                   /\ \A m \in DOMAIN turn.uses : messages'[i].results[k] < turn.uses[m]
  <2>1. CASE i \in DOMAIN messages
    <3>1. messages'[i] = messages[i]
      BY <1>3, <2>1
    <3>2. \A k \in DOMAIN messages[i].uses : messages[i].uses[k] \in Calls /\ messages[i].uses[k] <= b
      BY <1>1, <1>5, <2>1
    <3>3. \A k \in DOMAIN messages[i].results :
             messages[i].results[k] \in Calls /\ messages[i].results[k] <= b
      BY <1>1, <1>5, <2>1
    <3> QED
      BY <1>7, <3>1, <3>2, <3>3
  <2>2. CASE i = Len(messages')
    <3>1. messages'[i] = turn
      BY <1>3, <2>2
    <3>2. CASE turn.uses = <<>> /\ turn.results = LastUses
      <4>1. \A k \in DOMAIN turn.results : turn.results[k] \in Calls /\ turn.results[k] <= b
        BY <1>1, <1>5, <3>2
      <4>2. DOMAIN turn.uses = {}
        BY <3>2
      <4> QED
        BY <1>7, <3>1, <4>1, <4>2
    <3>3. CASE turn.results = <<>> /\ \A k \in DOMAIN turn.uses : turn.uses[k] <= bb
      <4>1. DOMAIN turn.results = {}
        BY <3>3
      <4> QED
        BY <3>1, <3>3, <4>1
    <3> QED
      BY <1>4, <3>2, <3>3
  <2> QED
    BY <1>1, <1>3, <2>1, <2>2
<1> QED
  BY <1>3, <1>5, <1>8 DEF CallsInv

(* Every turn that the page or the loop adds answers the turn before it    *)
(* and makes new calls.                                                    *)
TurnFits(turn) ==
    /\ turn \in TurnType
    /\ turn.results = LastUses
    /\ turn.uses # <<>> => LastUses = <<>>
    /\ \A k \in DOMAIN turn.uses : /\ MaxUses * Len(messages) < turn.uses[k]
                                   /\ turn.uses[k] <= MaxUses * (Len(messages) + 1)

LEMMA SendMessageFits ==
    ASSUME TypeOK, LoopInv, SendMessage
    PROVE  /\ Interrupted = LastUses
           /\ TurnFits(Turn("person", <<>>, LastUses))
<1>1. Interrupted = LastUses
  BY DEF Interrupted, LoopInv
<1>2. Turn("person", <<>>, LastUses) \in TurnType
  BY ChatFacts DEF Turn, TurnType
<1> QED
  BY <1>1, <1>2 DEF TurnFits, Turn

LEMMA RespondFits ==
    ASSUME TypeOK, LoopInv, Respond
    PROVE  \E n \in 0..MaxUses :
              /\ TurnFits(Turn("assistant", NewCalls(n), <<>>))
              /\ messages' = Append(messages, Turn("assistant", NewCalls(n), <<>>))
              /\ loop' = [pc |-> "blocks", todo |-> NewCalls(n), done |-> <<>>, shots |-> {}]
<1>1. PICK n \in 0..MaxUses :
        /\ messages' = Append(messages, Turn("assistant", NewCalls(n), <<>>))
        /\ loop' = [Idle EXCEPT !.pc = "blocks", !.todo = NewCalls(n)]
  BY DEF Respond
<1>2. Len(messages) \in Nat /\ Len(messages) < MaxTurns
  BY ChatFacts DEF Respond
<1>3. /\ NewCalls(n) \in Seq(Calls)
      /\ DOMAIN NewCalls(n) = 1..n
      /\ \A k \in 1..n : /\ MaxUses * Len(messages) < NewCalls(n)[k]
                         /\ NewCalls(n)[k] <= MaxUses * (Len(messages) + 1)
  BY <1>2, NewCallsType
<1>4. LastUses = <<>>
  BY DEF Respond, LoopInv
<1>5. Turn("assistant", NewCalls(n), <<>>) \in TurnType
  BY <1>3 DEF Turn, TurnType
<1>6. TurnFits(Turn("assistant", NewCalls(n), <<>>))
  BY <1>3, <1>4, <1>5 DEF TurnFits, Turn
<1> QED
  BY <1>1, <1>3, <1>6, LoopStates

LEMMA SendResultsFits ==
    ASSUME TypeOK, LoopInv, SendResults
    PROVE  /\ loop.done = LastUses
           /\ TurnFits(Turn("tools", <<>>, loop.done))
           /\ messages' = Append(messages, Turn("tools", <<>>, loop.done))
           /\ loop' = [pc |-> "request", todo |-> <<>>, done |-> <<>>, shots |-> {}]
           /\ inLoop
<1>1. loop \in LoopType /\ loop.pc = "blocks" /\ loop.todo = <<>>
  BY ChatFacts DEF SendResults
<1>2. loop.done \in Seq(Calls)
  BY <1>1 DEF LoopType
<1>3. loop.done \o <<>> = loop.done
  BY <1>2, ConcatEmptySeq
<1>4. loop.done = LastUses /\ inLoop
  BY <1>1, <1>3 DEF LoopInv
<1>5. Turn("tools", <<>>, loop.done) \in TurnType
  BY <1>2 DEF Turn, TurnType
<1>6. TurnFits(Turn("tools", <<>>, loop.done))
  BY <1>4, <1>5 DEF TurnFits, Turn
<1> QED
  BY <1>4, <1>6, LoopStates DEF SendResults, Iterate

LEMMA TurnFitsCalls ==
    ASSUME TypeOK, CallsInv, NEW turn, TurnFits(turn), messages' = Append(messages, turn)
    PROVE  CallsInv'
<1>1. turn.uses = <<>> \/ turn.results = <<>>
  BY DEF TurnFits
<1> QED
  BY <1>1, CallsExtend DEF TurnFits

LEMMA CallsStep ==
    ASSUME TypeOK, CallsInv, LoopInv, [Next]_vars
    PROVE  CallsInv'
<1>1. ASSUME UNCHANGED messages
      PROVE  CallsInv'
  BY <1>1 DEF CallsInv, LastUses
<1>2. ASSUME SendMessage
      PROVE  CallsInv'
  BY <1>2, SendMessageFits, TurnFitsCalls DEF SendMessage
<1>3. ASSUME Respond
      PROVE  CallsInv'
  BY <1>3, RespondFits, TurnFitsCalls
<1>4. ASSUME SendResults
      PROVE  CallsInv'
  BY <1>4, SendResultsFits, TurnFitsCalls
<1>5. ASSUME Reset
      PROVE  CallsInv'
  BY <1>5 DEF Reset, CallsInv
<1>6. ASSUME StartLoop \/ LoopReturns \/ ToolRuns \/ Rerun \/ UNCHANGED vars
      PROVE  UNCHANGED messages
  BY <1>6 DEF StartLoop, Iterate, LoopReturns, RequestFails, Return, ToolRuns, RunTool, Rerun,
     Abandon, vars, loopVars
<1> QED
  BY <1>1, <1>2, <1>3, <1>4, <1>5, <1>6 DEF Next, LoopGoesOn

(* RunTool moves the first call to do behind those done. *)
LEMMA ToolRunsFacts ==
    ASSUME TypeOK, LoopInv, ToolRuns
    PROVE  /\ loop.pc = "blocks" /\ loop'.pc = "blocks"
           /\ UNCHANGED <<messages, images, marked, skipped, provider, limit, inLoop>>
           /\ loop.done \in Seq(Calls) /\ Head(loop.todo) \in Calls
           /\ loop'.done = Append(loop.done, Head(loop.todo))
           /\ loop'.done \o loop'.todo = LastUses
           /\ tools' = [tools EXCEPT ![Head(loop.todo)] = "ran"]
           /\ \E m \in DOMAIN LastUses : Head(loop.todo) = LastUses[m]
<1>1. loop \in LoopType /\ loop.pc = "blocks" /\ loop.todo # <<>>
  BY ChatFacts DEF ToolRuns, RunTool
<1>2. loop.todo \in Seq(Calls) /\ loop.done \in Seq(Calls)
  BY <1>1 DEF LoopType
<1>3. PICK shot \in SUBSET {Head(loop.todo)} :
        loop' = [loop EXCEPT !.todo = Tail(@), !.done = Append(@, Head(loop.todo)),
                             !.shots = @ \cup shot]
  BY DEF ToolRuns, RunTool, ImagesOf
<1>4. /\ loop'.pc = loop.pc /\ loop'.todo = Tail(loop.todo)
      /\ loop'.done = Append(loop.done, Head(loop.todo))
  BY <1>1, <1>3 DEF LoopType
<1>5. loop.done \o loop.todo = LastUses
  BY <1>1 DEF LoopInv
<1>6. loop'.done \o loop'.todo = LastUses
  BY <1>1, <1>2, <1>4, <1>5, HeadMoves
<1>7. Head(loop.todo) \in Calls
  BY <1>1, <1>2, HeadTailProperties
<1>8. \E m \in DOMAIN LastUses : Head(loop.todo) = LastUses[m]
  <2>1. Len(loop.done) \in Nat /\ Len(loop.todo) \in Nat \ {0} /\ Head(loop.todo) = loop.todo[1]
    BY <1>1, <1>2, HeadTailProperties, EmptySeq
  <2>2. PICK m \in Nat : m = Len(loop.done) + 1
    BY <2>1
  <2>3. m \in 1..(Len(loop.done) + Len(loop.todo)) /\ ~ (m <= Len(loop.done)) /\ m - Len(loop.done) = 1
    <3>1. \A a \in Nat, b \in Nat \ {0} : a + 1 \in 1..(a + b) /\ ~ (a + 1 <= a) /\ (a + 1) - a = 1
      OBVIOUS
    <3> QED
      BY <2>1, <2>2, <3>1, Zenon
  <2>4. /\ Len(LastUses) = Len(loop.done) + Len(loop.todo)
        /\ LastUses \in Seq(Calls)
        /\ LastUses[m] = loop.todo[m - Len(loop.done)]
    BY <1>2, <1>5, <2>3, ConcatProperties
  <2>5. LastUses[m] = Head(loop.todo)
    BY <2>1, <2>3, <2>4
  <2>6. m \in DOMAIN LastUses
    <3>1. DOMAIN LastUses = 1..Len(LastUses)
      BY <2>4
    <3> QED
      BY <2>3, <2>4, <3>1, Zenon
  <2> QED
    BY <2>5, <2>6
<1> QED
  BY <1>1, <1>2, <1>4, <1>6, <1>7, <1>8 DEF ToolRuns, RunTool

LEMMA LoopStep ==
    ASSUME TypeOK, LoopInv, [Next]_vars
    PROVE  LoopInv'
<1> USE DEF LoopInv
<1>1. /\ Idle = [pc |-> "idle", todo |-> <<>>, done |-> <<>>, shots |-> {}]
      /\ LastUses \in Seq(Calls)
      /\ messages \in Seq(TurnType)
  BY ChatFacts DEF Idle
<1>2. ASSUME SendMessage
      PROVE  LoopInv'
  <2>1. /\ messages' = Append(messages, Turn("person", <<>>, LastUses))
        /\ TurnFits(Turn("person", <<>>, LastUses))
        /\ loop' = [pc |-> "sent", todo |-> <<>>, done |-> <<>>, shots |-> {}]
    BY <1>2, SendMessageFits, LoopStates DEF SendMessage
  <2>2. LastUses' = <<>>
    BY <1>1, <2>1, TurnAdded DEF TurnFits, Turn
  <2> QED
    BY <2>1, <2>2
<1>3. ASSUME StartLoop
      PROVE  LoopInv'
  <2>1. /\ UNCHANGED messages /\ inLoop' = TRUE /\ loop.pc = "sent"
        /\ loop' = [pc |-> "request", todo |-> <<>>, done |-> <<>>, shots |-> {}]
    BY <1>3, LoopStates DEF StartLoop, Iterate
  <2>2. LastUses' = <<>>
    BY <2>1 DEF LastUses
  <2> QED
    BY <2>1, <2>2
<1>4. ASSUME LoopReturns
      PROVE  LoopInv'
  <2>1. loop' = Idle /\ inLoop' = FALSE /\ UNCHANGED messages
    BY <1>4 DEF LoopReturns, RequestFails, Return
  <2>2. LastUses = <<>>
    <3>1. CASE RequestFails
      BY <3>1 DEF RequestFails
    <3>2. CASE Return
      <4>1. loop.done = <<>> /\ loop.todo = <<>> /\ loop.done \o loop.todo = LastUses
        BY <3>2 DEF Return
      <4> QED
        BY <4>1
    <3> QED
      BY <1>4, <3>1, <3>2 DEF LoopReturns
  <2>3. LastUses' = <<>>
    BY <2>1, <2>2 DEF LastUses
  <2> QED
    BY <1>1, <2>1, <2>3
<1>5. ASSUME LoopGoesOn, Respond
      PROVE  LoopInv'
  <2>1. PICK n \in 0..MaxUses :
          /\ TurnFits(Turn("assistant", NewCalls(n), <<>>))
          /\ messages' = Append(messages, Turn("assistant", NewCalls(n), <<>>))
          /\ loop' = [pc |-> "blocks", todo |-> NewCalls(n), done |-> <<>>, shots |-> {}]
    BY <1>5, RespondFits
  <2>2. LastUses' = NewCalls(n) /\ NewCalls(n) \in Seq(Calls) /\ messages' # <<>>
    BY <1>1, <2>1, TurnAdded DEF TurnFits, Turn, TurnType
  <2>3. <<>> \o NewCalls(n) = NewCalls(n)
    BY <2>2, ConcatEmptySeq
  <2>4. inLoop' = inLoop /\ inLoop
    BY <1>5 DEF LoopGoesOn, Respond
  <2> QED
    BY <2>1, <2>2, <2>3, <2>4
<1>6. ASSUME LoopGoesOn, SendResults
      PROVE  LoopInv'
  <2>1. /\ TurnFits(Turn("tools", <<>>, loop.done))
        /\ messages' = Append(messages, Turn("tools", <<>>, loop.done))
        /\ loop' = [pc |-> "request", todo |-> <<>>, done |-> <<>>, shots |-> {}]
        /\ inLoop /\ inLoop' = inLoop
    BY <1>6, SendResultsFits DEF LoopGoesOn
  <2>2. LastUses' = <<>>
    BY <1>1, <2>1, TurnAdded DEF TurnFits, Turn
  <2> QED
    BY <2>1, <2>2
<1>7. ASSUME ToolRuns
      PROVE  LoopInv'
  <2>1. /\ loop.pc = "blocks" /\ loop'.pc = "blocks" /\ UNCHANGED <<messages, inLoop>>
        /\ loop'.done \o loop'.todo = LastUses
    BY <1>7, ToolRunsFacts
  <2>2. LastUses' = LastUses
    BY <2>1 DEF LastUses
  <2> QED
    BY <2>1, <2>2
<1>8. ASSUME Rerun
      PROVE  LoopInv'
  <2>1. loop' = Idle /\ UNCHANGED <<messages, inLoop>> /\ LastUses' = LastUses
    BY <1>8 DEF Rerun, Abandon, LastUses
  <2> QED
    BY <1>1, <2>1
<1>9. ASSUME Reset
      PROVE  LoopInv'
  <2>1. loop' = Idle /\ LastUses' = <<>>
    BY <1>9 DEF Reset, LastUses
  <2> QED
    BY <1>1, <2>1
<1>10. ASSUME UNCHANGED vars
       PROVE  LoopInv'
  BY <1>10 DEF vars, loopVars, LastUses
<1> QED
  BY <1>2, <1>3, <1>4, <1>5, <1>6, <1>7, <1>8, <1>9, <1>10 DEF Next, LoopGoesOn

LEMMA DoneStep ==
    ASSUME TypeOK, LoopInv, DoneInv, [Next]_vars
    PROVE  DoneInv'
<1> USE DEF DoneInv
<1>1. ASSUME loop'.done = <<>>
      PROVE  DoneInv'
  BY <1>1
<1>2. ASSUME ToolRuns
      PROVE  DoneInv'
  <2>1. /\ loop.done \in Seq(Calls) /\ Head(loop.todo) \in Calls
        /\ loop'.done = Append(loop.done, Head(loop.todo))
        /\ tools' = [tools EXCEPT ![Head(loop.todo)] = "ran"]
        /\ tools \in [Calls -> {"unknown", "ran", "stopped"}]
    BY <1>2, ToolRunsFacts DEF TypeOK
  <2>2. ASSUME NEW k \in DOMAIN loop'.done
        PROVE  tools'[loop'.done[k]] = "ran"
    <3>1. CASE k \in DOMAIN loop.done
      <4>1. loop'.done[k] = loop.done[k] /\ loop.done[k] \in Calls
        BY <2>1, <3>1
      <4> QED
        BY <2>1, <3>1, <4>1
    <3>2. CASE k \notin DOMAIN loop.done
      <4>1. loop'.done[k] = Head(loop.todo)
        BY <2>1, <2>2, <3>2
      <4> QED
        BY <2>1, <4>1
    <3> QED
      BY <3>1, <3>2
  <2> QED
    BY <2>2
<1>3. Idle.done = <<>> /\ \A pc \in {"sent", "request"} : [Idle EXCEPT !.pc = pc].done = <<>>
  BY LoopStates DEF Idle
<1>4. ASSUME SendMessage \/ StartLoop \/ LoopReturns \/ SendResults \/ Rerun \/ Reset
      PROVE  loop'.done = <<>>
  BY <1>3, <1>4 DEF SendMessage, StartLoop, LoopReturns, RequestFails, Return, SendResults, Iterate,
     Rerun, Abandon, Reset
<1>5. ASSUME Respond
      PROVE  loop'.done = <<>>
  BY <1>5, RespondFits
<1>6. ASSUME UNCHANGED vars
      PROVE  DoneInv'
  BY <1>6 DEF vars, loopVars
<1> QED
  BY <1>1, <1>2, <1>4, <1>5, <1>6 DEF Next, LoopGoesOn

(* A turn that answers the last calls is shown as told if the page has of  *)
(* each of them what the turn says, and nothing else changes.              *)
LEMMA ShownExtends ==
    ASSUME TypeOK, CallsInv, ShownAsTold, NEW turn, TurnFits(turn),
           messages' = Append(messages, turn),
           \A k \in DOMAIN turn.results :
              tools'[turn.results[k]] = IF turn.by = "person" THEN "stopped" ELSE "ran",
           \A c \in Calls : tools'[c] = tools[c] \/ \E m \in DOMAIN LastUses : LastUses[m] = c
    PROVE  ShownAsTold'
<1>1. /\ Len(messages') = Len(messages) + 1 /\ Len(messages) \in Nat
      /\ DOMAIN messages = 1..Len(messages) /\ DOMAIN messages' = 1..Len(messages')
      /\ \A i \in DOMAIN messages : messages'[i] = messages[i]
      /\ messages'[Len(messages')] = turn
  BY ChatFacts, TurnAdded DEF TurnFits
<1>2. ASSUME NEW i \in DOMAIN messages, NEW k \in DOMAIN messages[i].results
      PROVE  tools'[messages[i].results[k]] = tools[messages[i].results[k]]
  <2>1. messages[i].results[k] \in Calls /\ messages[i].results[k] \in Nat
    BY ChatFacts, CallsAreNumbers
  <2>2. \A m \in DOMAIN LastUses : messages[i].results[k] < LastUses[m]
    BY DEF CallsInv
  <2> QED
    BY <2>1, <2>2
<1>3. \A i \in DOMAIN messages' : i \in DOMAIN messages \/ i = Len(messages')
  BY <1>1
<1> QED
  BY <1>1, <1>2, <1>3 DEF ShownAsTold

LEMMA ShownStep ==
    ASSUME TypeOK, CallsInv, LoopInv, DoneInv, ShownAsTold, [Next]_vars
    PROVE  ShownAsTold'
<1>1. LastUses \in Seq(Calls) /\ tools \in [Calls -> {"unknown", "ran", "stopped"}]
  BY ChatFacts DEF TypeOK
<1>2. ASSUME SendMessage
      PROVE  ShownAsTold'
  <2> DEFINE turn == Turn("person", <<>>, LastUses)
  <2>1. /\ TurnFits(turn) /\ messages' = Append(messages, turn)
        /\ tools' = Stopped(LastUses)
    BY <1>2, SendMessageFits DEF SendMessage
  <2>2. turn.results = LastUses /\ turn.by = "person"
    BY DEF Turn
  <2> HIDE DEF turn
  <2>3. \A k \in DOMAIN LastUses : tools'[LastUses[k]] = "stopped"
    BY <1>1, <2>1 DEF Stopped
  <2>4. \A c \in Calls : tools'[c] = tools[c] \/ \E m \in DOMAIN LastUses : LastUses[m] = c
    BY <2>1 DEF Stopped
  <2> QED
    BY <2>1, <2>2, <2>3, <2>4, ShownExtends
<1>3. ASSUME LoopGoesOn, Respond
      PROVE  ShownAsTold'
  <2>1. PICK n \in 0..MaxUses :
          /\ TurnFits(Turn("assistant", NewCalls(n), <<>>))
          /\ messages' = Append(messages, Turn("assistant", NewCalls(n), <<>>))
    BY <1>3, RespondFits
  <2> DEFINE turn == Turn("assistant", NewCalls(n), <<>>)
  <2>2. turn.results = <<>> /\ tools' = tools
    BY <1>3 DEF Turn, LoopGoesOn
  <2>3. TurnFits(turn) /\ messages' = Append(messages, turn)
    BY <2>1
  <2> HIDE DEF turn
  <2>4. \A k \in DOMAIN turn.results : FALSE
    BY <2>2
  <2> QED
    BY <2>2, <2>3, <2>4, ShownExtends
<1>4. ASSUME LoopGoesOn, SendResults
      PROVE  ShownAsTold'
  <2> DEFINE turn == Turn("tools", <<>>, loop.done)
  <2>1. TurnFits(turn) /\ messages' = Append(messages, turn) /\ tools' = tools
    BY <1>4, SendResultsFits DEF LoopGoesOn
  <2>2. turn.results = loop.done /\ turn.by = "tools"
    BY DEF Turn
  <2> HIDE DEF turn
  <2> QED
    BY <2>1, <2>2, ShownExtends DEF DoneInv
<1>5. ASSUME ToolRuns
      PROVE  ShownAsTold'
  <2>1. /\ UNCHANGED messages /\ tools' = [tools EXCEPT ![Head(loop.todo)] = "ran"]
        /\ \E m \in DOMAIN LastUses : Head(loop.todo) = LastUses[m]
    BY <1>5, ToolRunsFacts
  <2>2. ASSUME NEW i \in DOMAIN messages, NEW k \in DOMAIN messages[i].results
        PROVE  tools'[messages[i].results[k]] = tools[messages[i].results[k]]
    <3>1. messages[i].results[k] \in Calls /\ messages[i].results[k] \in Nat
      <4>1. messages[i].results \in Seq(Calls)
        BY ChatFacts
      <4>2. messages[i].results[k] \in Calls
        BY <4>1
      <4> QED
        BY <4>2, CallsAreNumbers
    <3>2. messages[i].results[k] # Head(loop.todo)
      BY <2>1, <3>1 DEF CallsInv
    <3> QED
      BY <1>1, <2>1, <3>1, <3>2
  <2> QED
    BY <2>1, <2>2 DEF ShownAsTold
<1>6. ASSUME Reset
      PROVE  ShownAsTold'
  BY <1>6 DEF Reset, ShownAsTold
<1>7. ASSUME StartLoop \/ LoopReturns \/ Rerun \/ UNCHANGED vars
      PROVE  ShownAsTold'
  <2>1. UNCHANGED <<messages, tools>>
    BY <1>7 DEF StartLoop, Iterate, LoopReturns, RequestFails, Return, Rerun, Abandon, vars, loopVars
  <2> QED
    BY <2>1 DEF ShownAsTold
<1> QED
  BY <1>2, <1>3, <1>4, <1>5, <1>6, <1>7 DEF Next, LoopGoesOn

LEMMA ChatInvariant == Spec => []ChatInv
<1>1. ChatInv /\ [Next]_vars => ChatInv'
  BY ChatTypeStep, CallsStep, LoopStep, DoneStep, ShownStep DEF ChatInv
<1> QED
  BY <1>1, InitiallyChat, PTL DEF Spec

(* The conversation and the loop keep their types: a breakpoint is set on  *)
(* a user turn that exists.                                                *)
THEOREM ChatTyped == Spec => []TypeOK
<1>1. ChatInv => TypeOK
  BY DEF ChatInv
<1> QED
  BY <1>1, ChatInvariant, PTL

(* What maybe_add_interruption_blocks told the model of a call is what the *)
(* page draws of it, wherever the run before was stopped.                  *)
THEOREM PageTellsTheSame == Spec => []ShownAsTold
<1>1. ChatInv => ShownAsTold
  BY DEF ChatInv
<1> QED
  BY <1>1, ChatInvariant, PTL

-----------------------------------------------------------------------------
(* The refinement. *)

Told == [i \in DOMAIN messages |-> [asks |-> messages[i].uses, answers |-> messages[i].results]]

LEMMA ToldAdded ==
    ASSUME TypeOK, NEW turn \in TurnType, messages' = Append(messages, turn)
    PROVE  /\ Told' = Append(Told, [asks |-> turn.uses, answers |-> turn.results])
           /\ Told' # <<>>
           /\ Told'[Len(Told')] = [asks |-> turn.uses, answers |-> turn.results]
<1> DEFINE PairType == [asks : Seq(Calls), answers : Seq(Calls)]
           pair == [asks |-> turn.uses, answers |-> turn.results]
           pairs == Append(Told, pair)
<1>1. /\ Len(messages) \in Nat /\ Len(messages') = Len(messages) + 1
      /\ DOMAIN messages = 1..Len(messages) /\ DOMAIN messages' = 1..Len(messages')
      /\ \A i \in DOMAIN messages : messages'[i] = messages[i]
      /\ messages'[Len(messages')] = turn
      /\ \A i \in DOMAIN messages' : messages'[i] \in TurnType
  BY ChatFacts, TurnAdded
<1>2. \A i \in DOMAIN messages : messages[i].uses \in Seq(Calls) /\ messages[i].results \in Seq(Calls)
  BY ChatFacts
<1>3. turn.uses \in Seq(Calls) /\ turn.results \in Seq(Calls)
  BY DEF TurnType
<1>4. Told \in Seq(PairType) /\ Len(Told) = Len(messages) /\ pair \in PairType
  <2>1. \A i \in 1..Len(messages) :
           [asks |-> messages[i].uses, answers |-> messages[i].results] \in PairType
    BY <1>1, <1>2
  <2>2. pair \in PairType
    BY <1>3
  <2> HIDE DEF PairType, pair
  <2>3. Told = [i \in 1..Len(messages) |-> [asks |-> messages[i].uses, answers |-> messages[i].results]]
    BY <1>1 DEF Told
  <2> QED
    BY <1>1, <2>1, <2>2, <2>3
<1>5. /\ Told' \in Seq(PairType) /\ Len(Told') = Len(messages')
      /\ \A i \in 1..Len(messages') :
            Told'[i] = [asks |-> messages'[i].uses, answers |-> messages'[i].results]
  <2>1. \A i \in 1..Len(messages') :
           [asks |-> messages'[i].uses, answers |-> messages'[i].results] \in PairType
    BY <1>1 DEF TurnType
  <2> HIDE DEF PairType
  <2>2. Told' = [i \in 1..Len(messages') |-> [asks |-> messages'[i].uses, answers |-> messages'[i].results]]
    BY <1>1 DEF Told
  <2>3. Len(messages') \in Nat
    BY <1>1
  <2>4. Told' \in Seq(PairType) /\ Len(Told') = Len(messages')
    BY <2>1, <2>2, <2>3
  <2> QED
    BY <2>2, <2>4, Zenon
<1> HIDE DEF PairType
<1>6. /\ pairs \in Seq(PairType) /\ Len(pairs) = Len(messages')
      /\ \A i \in 1..Len(messages) : pairs[i] = Told[i]
      /\ pairs[Len(messages')] = pair
  BY <1>1, <1>4, AppendProperties
<1>7. ASSUME NEW i \in 1..Len(messages')
      PROVE  Told'[i] = pairs[i]
  <2>1. CASE i \in 1..Len(messages)
    <3>1. messages'[i] = messages[i]
      BY <1>1, <2>1
    <3>2. Told[i] = [asks |-> messages[i].uses, answers |-> messages[i].results]
      BY <1>1, <2>1 DEF Told
    <3> QED
      BY <1>5, <1>6, <1>7, <2>1, <3>1, <3>2
  <2>2. CASE i = Len(messages')
    BY <1>1, <1>5, <1>6, <2>2
  <2>3. \A n \in Nat : \A j \in 1..(n + 1) : j \in 1..n \/ j = n + 1
    OBVIOUS
  <2>4. i \in 1..Len(messages) \/ i = Len(messages')
    BY <1>1, <2>3, Zenon
  <2> QED
    BY <2>1, <2>2, <2>4
<1> HIDE DEF pairs, pair
<1>8. Told' = pairs
  BY <1>5, <1>6, <1>7, SeqEqual
<1>9. Len(Told') \in Nat \ {0} /\ Told'[Len(Told')] = pair
  BY <1>1, <1>5, <1>6, <1>8
<1>10. Told' # <<>>
  BY <1>5, <1>9, EmptySeq
<1> QED
  BY <1>8, <1>9, <1>10 DEF pairs, pair

LEMMA DueAreLastUses ==
    ASSUME TypeOK
    PROVE  /\ messages = <<>> => Told = <<>>
           /\ Conversation!Due = LastUses
<1>1. Len(messages) \in Nat /\ DOMAIN messages = 1..Len(messages) /\ messages \in Seq(TurnType)
  BY ChatFacts
<1>2. DOMAIN Told = 1..Len(messages)
  BY <1>1 DEF Told
<1>3. CASE messages = <<>>
  <2>1. Told = <<>>
    BY <1>3 DEF Told
  <2>2. Conversation!Due = <<>>
    BY <2>1 DEF Conversation!Due, Told
  <2> QED
    BY <1>3, <2>1, <2>2 DEF LastUses
<1>4. CASE messages # <<>>
  <2>1. Len(messages) \in DOMAIN messages
    BY <1>1, <1>4, EmptySeq
  <2>2. Told # <<>> /\ Len(Told) = Len(messages)
    <3>1. Told = [i \in 1..Len(messages) |->
                    [asks |-> messages[i].uses, answers |-> messages[i].results]]
      BY <1>1 DEF Told
    <3> QED
      BY <1>1, <2>1, <3>1
  <2>3. Told[Len(Told)].asks = messages[Len(messages)].uses
    BY <2>1, <2>2 DEF Told
  <2>4. Conversation!Due = Told[Len(Told)].asks
    BY <2>2 DEF Conversation!Due, Told
  <2> QED
    BY <1>4, <2>3, <2>4 DEF LastUses
<1> QED
  BY <1>3, <1>4

LEMMA TurnFitsConversation ==
    ASSUME TypeOK, CallsInv, NEW turn, TurnFits(turn), messages' = Append(messages, turn)
    PROVE  Conversation!Next
<1> DEFINE pair == [asks |-> turn.uses, answers |-> turn.results]
<1>1. Told' = Append(Told, pair) /\ Told' # <<>> /\ Told'[Len(Told')] = pair
  BY ToldAdded DEF TurnFits
<1>2. pair.answers = Conversation!Due
  BY DueAreLastUses DEF TurnFits
<1>3. ASSUME NEW i \in DOMAIN turn.uses, NEW j \in DOMAIN messages, NEW k \in DOMAIN messages[j].uses
      PROVE  turn.uses[i] # messages[j].uses[k]
  <2>1. turn.uses \in Seq(Calls) /\ messages[j].uses \in Seq(Calls)
    BY ChatFacts DEF TurnFits, TurnType
  <2>2. turn.uses[i] \in Nat /\ messages[j].uses[k] \in Nat
    <3>1. turn.uses[i] \in Calls /\ messages[j].uses[k] \in Calls
      BY <2>1
    <3> QED
      BY <3>1, CallsAreNumbers
  <2>3. MaxUses * Len(messages) \in Nat
    BY ChatFacts, CallsAreNumbers, Products
  <2>4. MaxUses * Len(messages) < turn.uses[i] /\ messages[j].uses[k] <= MaxUses * Len(messages)
    BY DEF TurnFits, CallsInv
  <2> QED
    BY <2>2, <2>3, <2>4
<1>4. Conversation!Fresh(pair.asks)
  BY <1>3 DEF Conversation!Fresh
<1> QED
  BY <1>1, <1>2, <1>4 DEF Conversation!Next, Conversation!AddTurn, Told

(* Wherever a run is interrupted, the conversation stays one that the      *)
(* Messages API accepts: each turn answers exactly the calls of the turn   *)
(* before it, in their order, and no call is made twice.                   *)
THEOREM ChatImplementsConversation == Spec => ConversationSpec
<1>1. ChatInv /\ Init => Conversation!Init
  BY DueAreLastUses DEF ChatInv, Init, LoopInit, Conversation!Init, Told
<1>2. ASSUME ChatInv, [Next]_vars
      PROVE  [Conversation!Next]_Told
  <2>1. TypeOK /\ CallsInv /\ LoopInv
    BY <1>2 DEF ChatInv
  <2>2. ASSUME UNCHANGED messages
        PROVE  UNCHANGED Told
    BY <2>2 DEF Told
  <2>3. CASE SendMessage
    BY <2>1, <2>3, SendMessageFits, TurnFitsConversation DEF SendMessage
  <2>4. CASE Respond
    BY <2>1, <2>4, RespondFits, TurnFitsConversation
  <2>5. CASE SendResults
    BY <2>1, <2>5, SendResultsFits, TurnFitsConversation
  <2>6. CASE Reset
    <3>1. Told' = <<>>
      BY <2>6 DEF Reset, Told
    <3> QED
      BY <3>1 DEF Conversation!Next, Conversation!Forget, Told
  <2>7. CASE StartLoop \/ LoopReturns \/ ToolRuns \/ Rerun \/ UNCHANGED vars
    BY <2>2, <2>7 DEF StartLoop, Iterate, LoopReturns, RequestFails, Return, ToolRuns, RunTool, Rerun,
       Abandon, vars, loopVars
  <2> QED
    BY <1>2, <2>3, <2>4, <2>5, <2>6, <2>7 DEF Next, LoopGoesOn
<1>3. ChatInv /\ [Next]_vars => [Conversation!Next]_Told
  BY <1>2
<1> QED
  BY <1>1, <1>3, ChatInvariant, PTL DEF Spec, ConversationSpec, Conversation!Spec, Told

-----------------------------------------------------------------------------
(* The newest of a set of numbers. *)

LEMMA NewestByRank ==
    ASSUME NEW S \in SUBSET Nat, IsFiniteSet(S), NEW n \in Nat
    PROVE  /\ Cardinality(S) \in Nat
           /\ \A i \in S : Rank(S, i) \in 0..(Cardinality(S) - 1)
           /\ \A i \in S : i \in Newest(S, n) <=> Cardinality(S) - Rank(S, i) <= n
           /\ Newest(S, n) \subseteq S
<1>1. /\ Cardinality(S) \in Nat
      /\ \A i \in S : Rank(S, i) \in 0..(Cardinality(S) - 1)
  BY RankType, FS_CardinalityType
<1>2. ASSUME NEW i \in S
      PROVE  Cardinality({j \in S : j >= i}) = Cardinality(S) - Rank(S, i)
  <2> DEFINE before == {j \in S : j < i}
             after == {j \in S : j >= i}
  <2>1. after = S \ before /\ S \cap before = before
    <3>1. \A j \in S : j \in Nat /\ i \in Nat /\ (j >= i <=> ~ (j < i))
      OBVIOUS
    <3> QED
      BY <3>1
  <2>2. Cardinality(S \ before) = Cardinality(S) - Cardinality(S \cap before)
    BY FS_Difference
  <2> QED
    BY <2>1, <2>2 DEF Rank
<1>3. \A i \in S : i \in Newest(S, n) <=> Cardinality(S) - Rank(S, i) <= n
  BY <1>2 DEF Newest
<1> QED
  BY <1>1, <1>3 DEF Newest

(* The n newest are the others' complement of the lowest ranks. *)
LEMMA NewestCount ==
    ASSUME NEW S \in SUBSET Nat, IsFiniteSet(S), NEW n \in Nat
    PROVE  /\ IsFiniteSet(Newest(S, n))
           /\ Cardinality(S) <= n => Newest(S, n) = S
           /\ n <= Cardinality(S) => /\ Cardinality(Newest(S, n)) = n
                                     /\ Cardinality(S \ Newest(S, n)) = Cardinality(S) - n
           /\ \A i \in S \ Newest(S, n), j \in Newest(S, n) : i < j
<1> DEFINE c == Cardinality(S)
<1>1. /\ c \in Nat
      /\ \A i \in S : Rank(S, i) \in 0..(c - 1)
      /\ \A i \in S : i \in Newest(S, n) <=> c - Rank(S, i) <= n
      /\ Newest(S, n) \subseteq S
  BY NewestByRank
<1>2. IsFiniteSet(Newest(S, n))
  BY <1>1, FS_Subset
<1>3. ASSUME n <= c
      PROVE  Cardinality(Newest(S, n)) = n /\ Cardinality(S \ Newest(S, n)) = c - n
  <2>1. c - n \in Nat /\ c - n <= c
    BY <1>1, <1>3
  <2>2. Cardinality(Lowest(S, c - n)) = c - n
    BY <2>1, LowestCardinality
  <2>3. S \ Newest(S, n) = Lowest(S, c - n)
    <3>1. ASSUME NEW i \in S
          PROVE  i \notin Newest(S, n) <=> Rank(S, i) < c - n
      <4>1. Rank(S, i) \in Int /\ (i \in Newest(S, n) <=> c - Rank(S, i) <= n)
        BY <1>1
      <4> HIDE DEF c
      <4> QED
        BY <1>1, <4>1
    <3> QED
      BY <3>1 DEF Lowest
  <2>4. S \cap Newest(S, n) = Newest(S, n)
    BY <1>1
  <2>5. Cardinality(S \ Newest(S, n)) = c - Cardinality(Newest(S, n))
    BY <2>4, FS_Difference
  <2>6. Cardinality(Newest(S, n)) \in Nat
    BY <1>2, FS_CardinalityType
  <2> HIDE DEF c
  <2> QED
    BY <1>1, <2>2, <2>3, <2>5, <2>6
<1>4. ASSUME c <= n
      PROVE  Newest(S, n) = S
  <2>1. ASSUME NEW i \in S
        PROVE  i \in Newest(S, n)
    <3>1. Rank(S, i) \in Nat /\ (i \in Newest(S, n) <=> c - Rank(S, i) <= n)
      BY <1>1
    <3> HIDE DEF c
    <3> QED
      BY <1>1, <1>4, <3>1
  <2> QED
    BY <1>1, <2>1
<1>5. ASSUME NEW i \in S \ Newest(S, n), NEW j \in Newest(S, n)
      PROVE  i < j
  <2>1. i \in S /\ j \in S /\ i \in Nat /\ j \in Nat /\ i # j
    BY <1>1
  <2>2. ASSUME j < i
        PROVE  FALSE
    <3>1. Rank(S, j) < Rank(S, i)
      BY <2>1, <2>2, RankAscends
    <3>2. ~ (c - Rank(S, i) <= n) /\ c - Rank(S, j) <= n /\ Rank(S, i) \in Int /\ Rank(S, j) \in Int
      BY <1>1, <2>1
    <3> HIDE DEF c
    <3> QED
      BY <1>1, <3>1, <3>2
  <2> QED
    BY <2>1, <2>2
<1> QED
  BY <1>2, <1>3, <1>4, <1>5

(* One more at the end is the newest of all. *)
LEMMA NewestWithLast ==
    ASSUME NEW S \in SUBSET Nat, IsFiniteSet(S), NEW t \in Nat, \A i \in S : i < t, NEW n \in Nat
    PROVE  Newest(S \cup {t}, n + 1) = Newest(S, n) \cup {t}
<1> DEFINE T == S \cup {t}
<1>1. ASSUME NEW i \in S
      PROVE  Cardinality({j \in T : j >= i}) <= n + 1 <=> Cardinality({j \in S : j >= i}) <= n
  <2> DEFINE after == {j \in S : j >= i}
  <2>1. {j \in T : j >= i} = after \cup {t} /\ t \notin after
    <3>1. t >= i /\ i \in Nat
      OBVIOUS
    <3>2. t \notin S
      OBVIOUS
    <3> QED
      BY <3>1, <3>2
  <2>2. IsFiniteSet(after)
    BY FS_Subset
  <2> HIDE DEF after
  <2>3. Cardinality(after \cup {t}) = Cardinality(after) + 1 /\ Cardinality(after) \in Nat
    BY <2>1, <2>2, FS_AddElement, FS_CardinalityType
  <2>4. Cardinality({j \in T : j >= i}) = Cardinality(after) + 1
    BY <2>1, <2>3
  <2>5. Cardinality({j \in T : j >= i}) <= n + 1 <=> Cardinality(after) <= n
    <3>1. \A a \in Nat : a + 1 <= n + 1 <=> a <= n
      OBVIOUS
    <3> QED
      BY <2>3, <2>4, <3>1, Zenon
  <2> QED
    BY <2>5 DEF after
<1>2. {j \in T : j >= t} = {t}
  <2>1. ASSUME NEW j \in S
        PROVE  ~ (j >= t)
    <3>1. j < t /\ j \in Nat
      OBVIOUS
    <3> QED
      BY <3>1
  <2>2. t >= t
    OBVIOUS
  <2> QED
    BY <2>1, <2>2
<1>3. Cardinality({j \in T : j >= t}) <= n + 1
  <2>1. Cardinality({t}) = 1
    BY FS_Singleton
  <2> QED
    BY <1>2, <2>1
<1>4. \A i \in T : i \in S \/ i = t
  OBVIOUS
<1> QED
  BY <1>1, <1>3, <1>4 DEF Newest

-----------------------------------------------------------------------------
(* Images. *)

LEMMA CallsFinite ==
    ASSUME NEW S \in SUBSET Calls
    PROVE  S \in SUBSET Nat /\ IsFiniteSet(S)
<1>1. MaxUses * (MaxTurns + 1) \in Nat
  BY CallsAreNumbers, Products
<1>2. IsFiniteSet(Calls)
  BY <1>1, FS_Interval DEF Calls
<1> QED
  BY <1>2, CallsAreNumbers, FS_Subset

LEMMA Chunks ==
    ASSUME NEW c \in Nat, NEW l \in Nat, l > 0
    PROVE  /\ (c - l) % l \in 0..(l - 1)
           /\ ((c - l) - ((c - l) % l)) % l = 0
OBVIOUS

(* _maybe_filter_to_n_most_recent_images removes whole chunks of the limit *)
(* from the old end.                                                       *)
LEMMA FilteredImages ==
    ASSUME NEW shots \in SUBSET Calls, limit \in Nat, limit > 0
    PROVE  /\ Cardinality(Filtered(shots)) < 2 * limit
           /\ \A i \in shots \ Filtered(shots), j \in Filtered(shots) : i < j
           /\ shots \ Filtered(shots) # {} =>
                 /\ Cardinality(Filtered(shots)) >= limit
                 /\ Cardinality(shots \ Filtered(shots)) % limit = 0
<1> DEFINE c == Cardinality(shots)
           r == (c - limit) % limit
<1>1. shots \in SUBSET Nat /\ IsFiniteSet(shots) /\ c \in Nat
  BY CallsFinite, FS_CardinalityType
<1>2. r \in 0..(limit - 1) /\ ((c - limit) - r) % limit = 0
  BY <1>1, Chunks
<1>3. Filtered(shots) = Newest(shots, c - ((c - limit) - r))
  BY DEF Filtered, Removed
<1> HIDE DEF r
<1>4. c - ((c - limit) - r) = limit + r /\ limit + r \in Nat /\ c - (limit + r) = (c - limit) - r
  <2> HIDE DEF c
  <2> QED
    BY <1>1, <1>2
<1>5. /\ c <= limit + r => Filtered(shots) = shots
      /\ limit + r <= c => /\ Cardinality(Filtered(shots)) = limit + r
                           /\ Cardinality(shots \ Filtered(shots)) = c - (limit + r)
      /\ \A i \in shots \ Filtered(shots), j \in Filtered(shots) : i < j
  BY <1>1, <1>3, <1>4, NewestCount
<1>6. CASE c <= limit + r
  <2>1. Cardinality(Filtered(shots)) = c /\ shots \ Filtered(shots) = {}
    BY <1>5, <1>6
  <2> HIDE DEF c
  <2>2. c < 2 * limit
    BY <1>1, <1>2, <1>6
  <2> QED
    BY <1>5, <2>1, <2>2
<1>7. CASE ~ (c <= limit + r)
  <2>1. limit + r <= c
    BY <1>1, <1>4, <1>7
  <2>2. /\ Cardinality(Filtered(shots)) = limit + r
        /\ Cardinality(shots \ Filtered(shots)) = (c - limit) - r
    BY <1>4, <1>5, <2>1
  <2>3. limit + r < 2 * limit /\ limit + r >= limit
    BY <1>2
  <2> QED
    BY <1>2, <1>5, <2>2, <2>3
<1> QED
  BY <1>6, <1>7

LEMMA LimitType ==
    ASSUME TypeOK
    PROVE  /\ limit \in Nat
           /\ provider \in Filtering => provider \notin Caching
           /\ images \cup loop.shots \in SUBSET Calls
BY LoopAssumption DEF TypeOK

(* The steps that make a request. *)
LEMMA RequestSteps ==
    ASSUME TypeOK, LoopInv, [Next]_vars, loop'.pc = "request"
    PROVE  \/ \E turns : Iterate(turns, images \cup loop.shots) /\ UNCHANGED <<provider, limit>>
           \/ UNCHANGED <<vars>> /\ loop.pc = "request"
<1>1. CASE StartLoop
  <2>1. images \cup loop.shots = images
    BY <1>1 DEF StartLoop, LoopInv
  <2> QED
    BY <1>1, <2>1 DEF StartLoop
<1>2. CASE LoopGoesOn /\ SendResults
  BY <1>2 DEF LoopGoesOn, SendResults
<1>3. ASSUME Respond \/ ToolRuns
      PROVE  loop'.pc = "blocks"
  BY <1>3, RespondFits, ToolRunsFacts
<1>4. Idle.pc = "idle" /\ [Idle EXCEPT !.pc = "sent"].pc = "sent"
  BY LoopStates DEF Idle
<1>5. ASSUME SendMessage \/ LoopReturns \/ Rerun \/ Reset
      PROVE  loop'.pc \in {"idle", "sent"}
  BY <1>4, <1>5 DEF SendMessage, LoopReturns, RequestFails, Return, Rerun, Abandon, Reset
<1>6. CASE UNCHANGED vars
  BY <1>6 DEF vars, loopVars
<1> QED
  BY <1>1, <1>2, <1>3, <1>5, <1>6 DEF Next, LoopGoesOn

LEMMA ImagesStep ==
    ASSUME TypeOK, LoopInv, ImagesFew, [Next]_vars
    PROVE  ImagesFew'
<1> SUFFICES ASSUME loop'.pc = "request", provider' \in Filtering, limit' > 0
             PROVE  Cardinality(images') < 2 * limit'
  BY DEF ImagesFew
<1>1. CASE \E turns : Iterate(turns, images \cup loop.shots) /\ UNCHANGED <<provider, limit>>
  <2>1. /\ limit' = limit /\ limit \in Nat /\ limit > 0 /\ provider \notin Caching
        /\ images \cup loop.shots \in SUBSET Calls
    BY <1>1, LimitType
  <2>2. images' = Filtered(images \cup loop.shots)
    BY <1>1, <2>1 DEF Iterate
  <2> QED
    BY <2>1, <2>2, FilteredImages
<1>2. CASE UNCHANGED <<vars>> /\ loop.pc = "request"
  <2>1. UNCHANGED <<provider, limit, images>>
    BY <1>2 DEF vars, loopVars
  <2> QED
    BY <1>2, <2>1 DEF ImagesFew
<1> QED
  BY <1>1, <1>2, RequestSteps

(* Before every request of a provider without prompt caching, the images   *)
(* are filtered to fewer than twice the limit.                             *)
THEOREM RequestsCarryFewImages == Spec => []ImagesFew
<1>1. Init => ImagesFew
  BY DEF Init, LoopInit, Idle, ImagesFew
<1>2. ChatInv /\ ImagesFew /\ [Next]_vars => ImagesFew'
  BY ImagesStep DEF ChatInv
<1> QED
  BY <1>1, <1>2, ChatInvariant, PTL DEF Spec

(* _maybe_filter_to_n_most_recent_images removes the oldest images, in     *)
(* whole chunks of the limit, and leaves at least the limit.               *)
THEOREM OldImagesLeaveInChunks == Spec => ImagesLeaveInChunks
<1> DEFINE shots == images \cup loop.shots
           gone == shots \ images'
           Chunked == loop'.pc = "request" /\ gone # {} =>
                         /\ \A i \in gone, j \in images' : i < j
                         /\ Cardinality(images') >= limit
                         /\ Cardinality(gone) % limit = 0
<1>1. ChatInv /\ [Next]_vars => [Chunked]_vars
  <2> SUFFICES ASSUME ChatInv, [Next]_vars, loop'.pc = "request", gone # {}
               PROVE  /\ \A i \in gone, j \in images' : i < j
                      /\ Cardinality(images') >= limit
                      /\ Cardinality(gone) % limit = 0
    OBVIOUS
  <2>1. TypeOK /\ LoopInv
    BY DEF ChatInv
  <2>2. CASE \E turns : Iterate(turns, shots) /\ UNCHANGED <<provider, limit>>
    <3>1. limit \in Nat /\ shots \in SUBSET Calls
      BY <2>1, LimitType
    <3>2. images' = Filtered(shots) /\ limit # 0
      BY <2>2 DEF Iterate, Filtered
    <3>3. limit > 0
      BY <3>1, <3>2
    <3> QED
      BY <3>1, <3>2, <3>3, FilteredImages
  <2>3. CASE UNCHANGED <<vars>> /\ loop.pc = "request"
    <3>1. images' = images /\ loop.shots = {}
      BY <2>1, <2>3 DEF vars, loopVars, LoopInv
    <3> QED
      BY <3>1
  <2> QED
    BY <2>1, <2>2, <2>3, RequestSteps
<1> QED
  BY <1>1, ChatInvariant, PTL DEF Spec, ImagesLeaveInChunks

-----------------------------------------------------------------------------
(* Cache breakpoints. *)

(* The end of a set is among its newest. *)
LEMMA UpToNewest ==
    ASSUME NEW S \in SUBSET Nat, IsFiniteSet(S)
    PROVE  {i \in S : \E j \in Newest(S, 3) : i <= j} = S
<1>1. /\ Cardinality(S) \in Nat
      /\ Cardinality(S) <= 3 => Newest(S, 3) = S
      /\ 3 <= Cardinality(S) => Cardinality(Newest(S, 3)) = 3
      /\ \A i \in S \ Newest(S, 3), j \in Newest(S, 3) : i < j
      /\ Newest(S, 3) \subseteq S
  <2>1. 3 \in Nat
    OBVIOUS
  <2>2. Newest(S, 3) \subseteq S
    BY <2>1, NewestByRank
  <2> QED
    BY <2>1, <2>2, NewestCount, FS_CardinalityType
<1>2. ASSUME NEW i \in S
      PROVE  \E j \in Newest(S, 3) : i <= j
  <2>1. CASE i \in Newest(S, 3)
    <3>1. i <= i
      OBVIOUS
    <3> QED
      BY <2>1, <3>1
  <2>2. CASE i \notin Newest(S, 3)
    <3>1. Newest(S, 3) # {}
      BY <1>1, <1>2, <2>2, FS_EmptySet
    <3>2. PICK j \in Newest(S, 3) : TRUE
      BY <3>1
    <3>3. i < j /\ i \in Nat /\ j \in Nat
      BY <1>1, <2>2, <3>2
    <3>4. i <= j
      BY <3>3
    <3> QED
      BY <3>2, <3>4
  <2> QED
    BY <2>1, <2>2
<1> QED
  BY <1>2

LEMMA MarkedByRequest ==
    ASSUME NEW turns \in Seq(TurnType), Iterate(turns, images \cup loop.shots), TypeOK,
           provider \in Caching, MarkedInv, ~skipped',
           Seen = {i \in UserTurns(turns) : \E j \in marked : i <= j},
           marked \subseteq Nat
    PROVE  marked' = Newest(UserTurns(turns), 3)
<1> DEFINE U == UserTurns(turns)
           recent == Newest(U, 3)
           extra == Newest(U, 4) \ recent
           new == NewTurns(turns)
<1>1. U \in SUBSET Nat /\ IsFiniteSet(U)
  <2>1. Len(turns) \in Nat /\ DOMAIN turns = 1..Len(turns)
    OBVIOUS
  <2>2. IsFiniteSet(1..Len(turns)) /\ 1..Len(turns) \in SUBSET Nat
    BY <2>1, FS_Interval
  <2>3. U \subseteq 1..Len(turns)
    BY <2>1 DEF UserTurns
  <2> QED
    BY <2>2, <2>3, FS_Subset
<1>2. /\ marked' = (marked \ extra) \cup recent
      /\ ~ (Cardinality(new) > 1) /\ ~skipped
  BY DEF Iterate, Breakpoints
<1>3. marked = Newest(Seen, 3)
  BY <1>2 DEF MarkedInv
<1>4. Seen = {i \in U : \E j \in marked : i <= j}
  OBVIOUS
<1>5. CASE marked = {}
  BY <1>2, <1>5
<1>6. CASE marked # {}
  <2>1. new = {i \in U : \A j \in marked : j < i}
    BY <1>6 DEF NewTurns
  <2>2. new \in SUBSET Nat /\ IsFiniteSet(new) /\ Seen \in SUBSET Nat /\ IsFiniteSet(Seen)
    BY <1>1, <1>4, <2>1, FS_Subset
  <2>3. U = Seen \cup new
    <3>1. \A i \in U, j \in marked : i <= j \/ j < i
      BY <1>1
    <3> QED
      BY <1>4, <2>1, <3>1
  <2>4. \A i \in Seen, t \in new : i < t
    <3>1. ASSUME NEW i \in Seen, NEW t \in new
          PROVE  i < t
      <4>1. PICK j \in marked : i <= j
        BY <1>4
      <4>2. j < t /\ i \in Nat /\ j \in Nat /\ t \in Nat
        BY <2>1, <2>2, <4>1
      <4> QED
        BY <4>1, <4>2
    <3> QED
      BY <3>1
  <2> HIDE DEF U, new
  <2>5. CASE new = {}
    <3>1. U = Seen
      BY <2>3, <2>5
    <3>2. marked = recent
      BY <1>3, <3>1
    <3> QED
      BY <1>2, <3>2 DEF U
  <2>6. CASE new # {}
    <3>1. PICK t \in new : TRUE
      BY <2>6
    <3>2. new = {t}
      <4>1. IsFiniteSet(new \ {t}) /\ Cardinality(new \ {t}) = Cardinality(new) - 1
        BY <2>2, <3>1, FS_RemoveElement
      <4>2. Cardinality(new \ {t}) \in Nat /\ Cardinality(new) \in Nat
        BY <2>2, <4>1, FS_CardinalityType
      <4>3. Cardinality(new \ {t}) = 0
        BY <1>2, <4>1, <4>2
      <4>4. new \ {t} = {}
        BY <4>1, <4>3, FS_EmptySet
      <4> QED
        BY <3>1, <4>4
    <3>3. t \in Nat /\ \A i \in Seen : i < t
      BY <2>2, <2>4, <3>1
    <3>4. /\ Newest(U, 2 + 1) = Newest(Seen, 2) \cup {t}
          /\ Newest(U, 3 + 1) = Newest(Seen, 3) \cup {t}
      BY <2>2, <2>3, <3>2, <3>3, NewestWithLast
    <3>5. recent = Newest(Seen, 2) \cup {t} /\ extra = Newest(Seen, 3) \ (Newest(Seen, 2) \cup {t})
      <4>1. 2 + 1 = 3 /\ 3 + 1 = 4
        OBVIOUS
      <4> QED
        BY <3>4, <4>1
    <3>6. Newest(Seen, 2) \subseteq Newest(Seen, 3) /\ t \notin Newest(Seen, 3)
      <4>1. ASSUME NEW i \in Newest(Seen, 2)
            PROVE  i \in Newest(Seen, 3)
        <5>1. i \in Seen /\ Cardinality({j \in Seen : j >= i}) <= 2
          BY DEF Newest
        <5>2. Cardinality({j \in Seen : j >= i}) \in Nat
          BY <2>2, FS_Subset, FS_CardinalityType
        <5>3. Cardinality({j \in Seen : j >= i}) <= 3
          BY <5>1, <5>2
        <5> QED
          BY <5>1, <5>3 DEF Newest
      <4>2. t \notin Seen
        BY <3>3
      <4> QED
        BY <4>1, <4>2 DEF Newest
    <3>7. (marked \ extra) \cup recent = recent
      <4> HIDE DEF recent, extra
      <4> QED
        BY <1>3, <3>5, <3>6
    <3> QED
      BY <1>2, <3>7 DEF U
  <2> QED
    BY <2>5, <2>6
<1> QED
  BY <1>5, <1>6

(* What has been marked is seen again however the conversation goes on. *)
LEMMA SeenAgain ==
    ASSUME TypeOK,
           \/ UNCHANGED messages
           \/ \E turn \in TurnType : messages' = Append(messages, turn)
    PROVE  /\ Seen = {i \in UserTurns(messages') : \E j \in marked : i <= j}
           /\ messages' \in Seq(TurnType)
           /\ marked \subseteq Nat
<1>1. /\ messages \in Seq(TurnType) /\ Len(messages) \in Nat
      /\ DOMAIN messages = 1..Len(messages)
  BY ChatFacts
<1>2. marked \subseteq 1..Len(messages)
  BY <1>1 DEF TypeOK
<1>3. CASE UNCHANGED messages
  BY <1>1, <1>2, <1>3 DEF Seen
<1>4. ASSUME NEW turn \in TurnType, messages' = Append(messages, turn)
      PROVE  /\ Seen = {i \in UserTurns(messages') : \E j \in marked : i <= j}
             /\ messages' \in Seq(TurnType)
  <2>1. /\ messages' \in Seq(TurnType)
        /\ Len(messages') = Len(messages) + 1 /\ DOMAIN messages' = 1..Len(messages')
        /\ \A i \in DOMAIN messages : i \in DOMAIN messages' /\ messages'[i] = messages[i]
    BY <1>1, <1>4, TurnAdded
  <2>2. ASSUME NEW i \in DOMAIN messages', NEW j \in marked, i <= j
        PROVE  i \in DOMAIN messages
    <3>1. i \in 1..(Len(messages) + 1) /\ j \in 1..Len(messages)
      BY <1>2, <2>1
    <3> QED
      BY <1>1, <2>2, <3>1
  <2>3. ASSUME NEW i, NEW j \in marked, i <= j
        PROVE  i \in UserTurns(messages) <=> i \in UserTurns(messages')
    BY <2>1, <2>2, <2>3 DEF UserTurns
  <2> QED
    BY <2>1, <2>3 DEF Seen
<1> QED
  BY <1>2, <1>3, <1>4

LEMMA MarkedStep ==
    ASSUME TypeOK, LoopInv, MarkedInv, [Next]_vars
    PROVE  MarkedInv'
<1>1. ASSUME UNCHANGED <<marked, skipped>>,
             \/ UNCHANGED messages
             \/ \E turn \in TurnType : messages' = Append(messages, turn)
      PROVE  MarkedInv'
  <2>1. Seen' = Seen
    BY <1>1, SeenAgain DEF Seen
  <2> QED
    BY <1>1, <2>1 DEF MarkedInv
<1>2. ASSUME Iterate(messages', images \cup loop.shots),
             \/ UNCHANGED messages
             \/ \E turn \in TurnType : messages' = Append(messages, turn)
      PROVE  MarkedInv'
  <2>1. CASE provider \in Caching
    <3> SUFFICES ASSUME ~skipped'
                 PROVE  marked' = Newest(Seen', 3)
      BY DEF MarkedInv
    <3>1. /\ Seen = {i \in UserTurns(messages') : \E j \in marked : i <= j}
          /\ messages' \in Seq(TurnType)
          /\ marked \subseteq Nat
      BY <1>2, SeenAgain
    <3>2. marked' = Newest(UserTurns(messages'), 3)
      BY <1>2, <2>1, <3>1, MarkedByRequest
    <3>3. UserTurns(messages') \in SUBSET Nat /\ IsFiniteSet(UserTurns(messages'))
      <4>1. Len(messages') \in Nat /\ DOMAIN messages' = 1..Len(messages')
        BY <3>1
      <4>2. IsFiniteSet(1..Len(messages')) /\ 1..Len(messages') \in SUBSET Nat
        BY <4>1, FS_Interval
      <4>3. UserTurns(messages') \subseteq 1..Len(messages')
        BY <4>1 DEF UserTurns
      <4> QED
        BY <4>2, <4>3, FS_Subset
    <3>4. Seen' = UserTurns(messages')
      BY <3>2, <3>3, UpToNewest DEF Seen
    <3> QED
      BY <3>2, <3>4
  <2>2. CASE provider \notin Caching
    BY <1>1, <1>2, <2>2 DEF Iterate
  <2> QED
    BY <2>1, <2>2
<1>3. ASSUME SendMessage
      PROVE  MarkedInv'
  BY <1>1, <1>3, SendMessageFits DEF SendMessage, TurnFits
<1>4. ASSUME StartLoop
      PROVE  MarkedInv'
  <2>1. images \cup loop.shots = images /\ messages' = messages
    BY <1>4 DEF StartLoop, LoopInv, Iterate
  <2> QED
    BY <1>2, <1>4, <2>1 DEF StartLoop
<1>5. ASSUME Respond
      PROVE  MarkedInv'
  <2>1. \E turn \in TurnType : messages' = Append(messages, turn)
    BY <1>5, RespondFits DEF TurnFits
  <2> QED
    BY <1>1, <1>5, <2>1 DEF Respond
<1>6. ASSUME SendResults
      PROVE  MarkedInv'
  <2>1. /\ \E turn \in TurnType : messages' = Append(messages, turn)
        /\ messages' = Append(messages, Turn("tools", <<>>, loop.done))
    BY <1>6, SendResultsFits DEF TurnFits
  <2> QED
    BY <1>2, <1>6, <2>1 DEF SendResults
<1>7. ASSUME Reset
      PROVE  MarkedInv'
  <2>1. marked' = {} /\ Seen' = {}
    BY <1>7 DEF Reset, Seen
  <2>2. Newest({}, 3) = {}
    BY DEF Newest
  <2> QED
    BY <2>1, <2>2 DEF MarkedInv
<1>8. ASSUME LoopReturns \/ ToolRuns \/ Rerun \/ UNCHANGED vars
      PROVE  UNCHANGED <<messages, marked, skipped>>
  BY <1>8 DEF LoopReturns, RequestFails, Return, ToolRuns, RunTool, Rerun, Abandon, vars, loopVars
<1> QED
  BY <1>1, <1>3, <1>4, <1>5, <1>6, <1>7, <1>8 DEF Next, LoopGoesOn

(* _inject_prompt_caching unmarks one turn a request, which is enough for  *)
(* three breakpoints as long as no user turn misses its caching request.   *)
THEOREM ThreeBreakpoints == Spec => []BreakpointsBounded
<1>1. Init => MarkedInv
  <2> SUFFICES ASSUME Init PROVE MarkedInv
    OBVIOUS
  <2>1. marked = {} /\ Seen = {} /\ Newest({}, 3) = {}
    BY DEF Init, LoopInit, Seen, Newest
  <2> QED
    BY <2>1 DEF MarkedInv
<1>2. ChatInv /\ MarkedInv /\ [Next]_vars => MarkedInv'
  BY MarkedStep DEF ChatInv
<1>3. ChatInv /\ MarkedInv => BreakpointsBounded
  <2> SUFFICES ASSUME ChatInv, MarkedInv, ~skipped
               PROVE  Cardinality(marked) <= 3
    BY DEF BreakpointsBounded
  <2>1. TypeOK /\ marked = Newest(Seen, 3)
    BY DEF ChatInv, MarkedInv
  <2>2. Seen \in SUBSET Nat /\ IsFiniteSet(Seen)
    <3>1. Len(messages) \in Nat /\ Seen \subseteq 1..Len(messages)
      BY <2>1, ChatFacts DEF Seen, UserTurns
    <3>2. IsFiniteSet(1..Len(messages)) /\ 1..Len(messages) \in SUBSET Nat
      BY <3>1, FS_Interval
    <3> QED
      BY <3>1, <3>2, FS_Subset
  <2>3. /\ Cardinality(Seen) \in Nat
        /\ Cardinality(Seen) <= 3 => marked = Seen
        /\ 3 <= Cardinality(Seen) => Cardinality(marked) = 3
    BY <2>1, <2>2, NewestCount, FS_CardinalityType
  <2> QED
    BY <2>3
<1> QED
  BY <1>1, <1>2, <1>3, ChatInvariant, PTL DEF Spec
=============================================================================
