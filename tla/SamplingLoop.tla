---------------------------- MODULE SamplingLoop ----------------------------
(***************************************************************************)
(* sampling_loop of computer_use_demo/loop.py: requests to the model, its  *)
(* tool calls one after the other, the tool_result turn, and before every  *)
(* request the cache breakpoints or the image filter.  The loop gives up   *)
(* control only in its callbacks and awaits; what the callbacks do is the  *)
(* page's (DemoChat).                                                      *)
(*                                                                         *)
(* A tool call is its id.  A turn is who wrote it, the calls in it and the *)
(* calls it has results for; texts are left out.                           *)
(***************************************************************************)
EXTENDS Integers, Sequences, FiniteSets

CONSTANTS Caching,      \* providers with prompt caching: {ANTHROPIC}
          Filtering,    \* the others: BEDROCK and VERTEX
          Limits,       \* values of only_n_most_recent_images, 0 for no limit
          MaxUses,      \* bound: tool calls in a response
          MaxTurns      \* bound: turns of a conversation

ASSUME LoopAssumption ==
    /\ Caching \cap Filtering = {}
    /\ Limits \subseteq Nat
    /\ {MaxUses, MaxTurns} \subseteq Nat

VARIABLES provider, limit,      \* arguments of the call
          messages,             \* the conversation, shared with the page
          images,               \* calls whose result in messages has its image
          marked,               \* turns whose last block has cache_control
          loop,                 \* control point and locals of the call
          skipped               \* history: a caching request had several new user turns

loopVars == <<messages, images, marked, loop, skipped>>

Idle == [pc |-> "idle", todo |-> <<>>, done |-> <<>>, shots |-> {}]
Turn(by, uses, results) == [by |-> by, uses |-> uses, results |-> results]

LoopInit ==
    /\ messages = <<>>
    /\ images = {}
    /\ marked = {}
    /\ loop = Idle
    /\ skipped = FALSE

LastUses == IF messages = <<>> THEN <<>> ELSE messages[Len(messages)].uses

(* Calls are numbered as they come. *)
Calls == 1..(MaxUses * (MaxTurns + 1))
NewCalls(n) == [k \in 1..n |-> MaxUses * Len(messages) + k]

-----------------------------------------------------------------------------
Newest(ids, n) == {i \in ids : Cardinality({j \in ids : j >= i}) <= n}

(* Mutant of UserTurns: the role is not looked at. *)
AllTurns(turns) == DOMAIN turns

UserTurns(turns) == {i \in DOMAIN turns : turns[i].by # "assistant"}

(* Mutant of Breakpoints: none is removed. *)
BreakpointsKept(turns) == marked \cup Newest(UserTurns(turns), 3)

(* _inject_prompt_caching: the three most recent user turns are marked and *)
(* the one before them is unmarked; it looks no further back.              *)
Breakpoints(turns) ==
    LET recent == Newest(UserTurns(turns), 3)
        extra == Newest(UserTurns(turns), 4) \ recent
    IN  (marked \ extra) \cup recent

(* User turns that no caching request has carried yet, once one was made. *)
NewTurns(turns) ==
    IF marked = {} THEN {} ELSE {i \in UserTurns(turns) : \A j \in marked : j < i}

(* Mutants of Removed: no chunks; off by one. *)
RemovedAtOnce(total) == total - limit
RemovedLate(total) == (total - limit - 1) - ((total - limit - 1) % limit)

(* images_to_remove, in chunks of the limit; negative for few images. *)
Removed(total) == (total - limit) - ((total - limit) % limit)

(* _maybe_filter_to_n_most_recent_images *)
Filtered(shots) ==
    IF limit = 0 THEN shots ELSE Newest(shots, Cardinality(shots) - Removed(Cardinality(shots)))

(* The top of the loop, up to the request. *)
Iterate(turns, shots) ==
    /\ messages' = turns
    /\ loop' = [Idle EXCEPT !.pc = "request"]
    /\ IF provider \in Caching
       THEN /\ marked' = Breakpoints(turns)
            /\ images' = shots
            /\ skipped' = (skipped \/ Cardinality(NewTurns(turns)) > 1)
       ELSE /\ images' = Filtered(shots)
            /\ UNCHANGED <<marked, skipped>>

(* An error of the API returns the messages as they are. *)
RequestFails ==
    /\ loop.pc = "request"
    /\ loop' = Idle
    /\ UNCHANGED <<messages, images, marked, skipped>>

Respond ==
    /\ loop.pc = "request"
    /\ Len(messages) < MaxTurns
    /\ \E n \in 0..MaxUses :
          /\ messages' = Append(messages, Turn("assistant", NewCalls(n), <<>>))
          /\ loop' = [Idle EXCEPT !.pc = "blocks", !.todo = NewCalls(n)]
    /\ UNCHANGED <<images, marked, skipped>>

(* _make_api_tool_result: a result that is no error may have an image. *)
ImagesOf(call) == SUBSET {call}

(* ToolCollection.run and the result's block. *)
RunTool ==
    /\ loop.pc = "blocks"
    /\ loop.todo # <<>>
    /\ \E shot \in ImagesOf(Head(loop.todo)) :
          loop' = [loop EXCEPT !.todo = Tail(@), !.done = Append(@, Head(loop.todo)),
                               !.shots = @ \cup shot]
    /\ UNCHANGED <<messages, images, marked, skipped>>

(* All blocks are done: the loop returns, or sends the results. *)
Return ==
    /\ loop.pc = "blocks"
    /\ loop.todo = <<>> /\ loop.done = <<>>
    /\ loop' = Idle
    /\ UNCHANGED <<messages, images, marked, skipped>>

SendResults ==
    /\ loop.pc = "blocks"
    /\ loop.todo = <<>> /\ loop.done # <<>>
    /\ Iterate(Append(messages, Turn("tools", <<>>, loop.done)), images \cup loop.shots)

(* A callback or a tool raises: the call is gone, messages stay. *)
Abandon ==
    /\ loop' = Idle
    /\ UNCHANGED <<messages, images, marked, skipped>>
=============================================================================
