----------------------------- MODULE DemoTools ------------------------------
(***************************************************************************)
(* The tools of one call of the sampling loop (tools/collection.py), which *)
(* awaits each call before the next.  The tools share no state, so a       *)
(* behaviour calls one of them only.                                       *)
(***************************************************************************)
EXTENDS BashSession, EditTool, ComputerTool

VARIABLE name           \* of the tool that is called

vars == <<bashVars, editVars, computerVars, name>>

(* The screen matters to the computer tool only. *)
AnyScreen == width = (CHOOSE w \in Widths : TRUE) /\ height = (CHOOSE h \in Heights : TRUE)

Init ==
    /\ BashInit
    /\ EditInit
    /\ ComputerInit
    /\ name \in {"bash", "str_replace_based_edit_tool", "computer"}
    /\ name # "computer" => AnyScreen

Next ==
    \/ name = "bash" /\ BashNext /\ UNCHANGED <<editVars, computerVars, name>>
    \/ /\ name = "str_replace_based_edit_tool"
       /\ EditNext
       /\ UNCHANGED <<bashVars, computerVars, name>>
    \/ name = "computer" /\ ComputerNext /\ UNCHANGED <<bashVars, editVars, name>>

Spec == Init /\ [][Next]_vars

TypeOK == BashTypeOK /\ EditTypeOK /\ ComputerTypeOK
=============================================================================
