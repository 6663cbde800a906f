------------------------------ MODULE DemoChat ------------------------------
(***************************************************************************)
(* The chat of the demo's page (computer_use_demo/streamlit.py) around the *)
(* sampling loop.  Streamlit runs the whole script again for every input:  *)
(* a run under way is stopped at its next use of the page, which is in a   *)
(* callback of the loop, and the conversation stays as it was then.  Only  *)
(* the run that appended a message starts a loop: the role of an earlier   *)
(* one is not this run's Sender.USER.                                      *)
(***************************************************************************)
EXTENDS SamplingLoop

VARIABLES tools,        \* session_state.tools: how each call ended, for the page
          inLoop        \* session_state.in_sampling_loop

vars == <<provider, limit, loopVars, tools, inLoop>>

Unknown == [c \in Calls |-> "unknown"]

(* setup_state, with the settings a deployment begins with. *)
Init ==
    /\ provider \in Caching \cup Filtering
    /\ limit \in Limits
    /\ LoopInit
    /\ tools = Unknown
    /\ inLoop = FALSE

(* Mutants of Interrupted and Stopped: calls that have run count as        *)
(* answered; the page is not told.                                         *)
InterruptedUnrun ==
    IF inLoop THEN SelectSeq(LastUses, LAMBDA c : tools[c] = "unknown") ELSE <<>>
StoppedUnstored(calls) == tools

(* maybe_add_interruption_blocks: after an interrupted loop, the calls of  *)
(* the last turn get an error for a result, also those that have run.      *)
Interrupted == IF inLoop THEN LastUses ELSE <<>>

Stopped(calls) ==
    [c \in Calls |-> IF \E k \in DOMAIN calls : calls[k] = c THEN "stopped" ELSE tools[c]]

(* The new message is appended, and then drawn. *)
SendMessage ==
    /\ loop.pc = "idle"
    /\ Len(messages) < MaxTurns
    /\ messages' = Append(messages, Turn("person", <<>>, Interrupted))
    /\ tools' = Stopped(Interrupted)
    /\ loop' = [Idle EXCEPT !.pc = "sent"]
    /\ UNCHANGED <<provider, limit, images, marked, skipped, inLoop>>

StartLoop ==
    /\ loop.pc = "sent"
    /\ inLoop' = TRUE
    /\ Iterate(messages, images)
    /\ UNCHANGED <<provider, limit, tools>>

(* track_sampling_loop takes the mark back only if the loop returns. *)
LoopReturns ==
    /\ RequestFails \/ Return
    /\ inLoop' = FALSE
    /\ UNCHANGED <<provider, limit, tools>>

LoopGoesOn ==
    /\ Respond \/ SendResults
    /\ UNCHANGED <<provider, limit, tools, inLoop>>

(* tool_output_callback stores the result, and then draws it. *)
ToolRuns ==
    /\ RunTool
    /\ tools' = [tools EXCEPT ![Head(loop.todo)] = "ran"]
    /\ UNCHANGED <<provider, limit, inLoop>>

(* The script is stopped, by an exception or for a run that may have other *)
(* settings; or it was not running.                                        *)
Rerun ==
    /\ Abandon
    /\ \/ provider' \in Caching \cup Filtering /\ UNCHANGED limit
       \/ limit' \in Limits /\ UNCHANGED provider
    /\ UNCHANGED <<tools, inLoop>>

(* The Reset button clears session_state. *)
Reset ==
    /\ messages # <<>>
    /\ messages' = <<>>
    /\ images' = {} /\ marked' = {} /\ skipped' = FALSE
    /\ loop' = Idle
    /\ tools' = Unknown
    /\ inLoop' = FALSE
    /\ provider' \in Caching \cup Filtering
    /\ limit' \in Limits

Next ==
    \/ SendMessage
    \/ StartLoop
    \/ LoopReturns
    \/ LoopGoesOn
    \/ ToolRuns
    \/ Rerun
    \/ Reset

Spec == Init /\ [][Next]_vars

-----------------------------------------------------------------------------
TypeOK ==
    /\ provider \in Caching \cup Filtering
    /\ limit \in Limits
    /\ messages \in Seq([by : {"person", "tools", "assistant"},
                         uses : Seq(Calls), results : Seq(Calls)])
    /\ images \subseteq Calls
    /\ \A i \in marked : i \in DOMAIN messages /\ messages[i].by # "assistant"
    /\ loop \in [pc : {"idle", "sent", "request", "blocks"},
                 todo : Seq(Calls), done : Seq(Calls), shots : SUBSET Calls]
    /\ tools \in [Calls -> {"unknown", "ran", "stopped"}]
    /\ inLoop \in BOOLEAN
    /\ skipped \in BOOLEAN

(* The conversation the API sees: every call is answered once, by the next *)
(* turn, whatever was interrupted between the call and its result.         *)
Conversation == INSTANCE ToolConversation
    WITH turns <- [i \in DOMAIN messages |->
                      [asks |-> messages[i].uses, answers |-> messages[i].results]]
ConversationSpec == Conversation!Spec

(* The page draws of every call what the model was told of it: a result    *)
(* that was replaced by the interruption's error is not drawn, and no      *)
(* result is missing from session_state.tools, where drawing looks it up.  *)
ShownAsTold ==
    \A i \in DOMAIN messages : \A k \in DOMAIN messages[i].results :
        tools[messages[i].results[k]] = IF messages[i].by = "person" THEN "stopped" ELSE "ran"

(* A filtered request carries fewer than twice the limit of images.        *)
ImagesFew ==
    loop.pc = "request" /\ provider \in Filtering /\ limit > 0
        => Cardinality(images) < 2 * limit

(* Images leave the conversation oldest first, in chunks of the limit that *)
(* keep the provider's own cache useful, and never one of the most recent  *)
(* (Reset apart).                                                          *)
ImagesLeaveInChunks ==
    [][ LET shots == images \cup loop.shots
            gone == shots \ images'
        IN  loop'.pc = "request" /\ gone # {} =>
                /\ \A i \in gone, j \in images' : i < j
                /\ Cardinality(images') >= limit
                /\ Cardinality(gone) % limit = 0 ]_vars

(* No request has more than the three breakpoints that loop.py leaves for  *)
(* the messages, as long as every user turn is followed by a caching       *)
(* request before the next: a message whose run was stopped before the     *)
(* request, or a loop with another provider, leaves old breakpoints behind *)
(* that are never removed.                                                 *)
BreakpointsBounded == ~skipped => Cardinality(marked) <= 3
=============================================================================
