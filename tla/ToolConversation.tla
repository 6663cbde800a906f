-------------------------- MODULE ToolConversation --------------------------
(***************************************************************************)
(* What the Messages API requires of a conversation with tools, whatever   *)
(* interrupts it: each turn answers exactly the tool calls of the turn     *)
(* before it, in their order, and no call is made twice.  An assistant     *)
(* turn answers nothing, so it follows only a turn without calls.          *)
(***************************************************************************)
EXTENDS Sequences

VARIABLE turns          \* sequence of [asks, answers], ids of tool calls

Due == IF turns = <<>> THEN <<>> ELSE turns[Len(turns)].asks

Fresh(asks) ==
    \A i \in DOMAIN asks, j \in DOMAIN turns :
        \A k \in DOMAIN turns[j].asks : asks[i] # turns[j].asks[k]

Init == turns = <<>>

AddTurn ==
    /\ turns' # <<>>
    /\ LET turn == turns'[Len(turns')]
       IN  /\ turns' = Append(turns, turn)
           /\ turn.answers = Due
           /\ Fresh(turn.asks)

(* The person starts anew. *)
Forget == turns' = <<>>

Next == AddTurn \/ Forget

Spec == Init /\ [][Next]_turns
=============================================================================
