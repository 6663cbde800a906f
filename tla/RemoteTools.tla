----------------------------- MODULE RemoteTools -----------------------------
(***************************************************************************)
(* RemoteComputerTool and RemoteBashTool (backend/app/agents/              *)
(* remote_tools.py): a tool call is a sequence of commands that run one    *)
(* after the other in the sandbox.  A command ends with exit code zero,    *)
(* with another one, or DockerSandboxExecutor raises: the sandbox is gone, *)
(* Docker fails, or the command's time is up.                              *)
(*                                                                         *)
(* A command is named by what its failure does to the call: "xdotool",     *)
(* "press", "release", "scrot" and "bash" end it, "click" goes on to the   *)
(* release of the key, "base64" to the removal of the file, the others do  *)
(* not matter.                                                             *)
(***************************************************************************)
EXTENDS Naturals, Sequences

VARIABLES tool,     \* the call in progress: action, commands to run, result
          owed      \* a key was pressed and not released since

toolVars == <<tool, owed>>

(* "screenshot" stands for wait and zoom too, "move" for every action of   *)
(* one xdotool command with a screenshot, "refused" for the calls whose    *)
(* arguments are not accepted and for a restart of bash.  A click or a     *)
(* scroll moves the pointer first, and a text to type takes two commands.  *)
Actions == {"screenshot", "move", "type", "cursor_position", "click", "click_key",
            "scroll", "scroll_key", "hold_key", "bash", "refused"}

Capture == <<"scrot", "base64", "rm">>

Commands(action) ==
    CASE action = "screenshot"        -> Capture
      [] action = "move"              -> <<"xdotool">> \o Capture
      [] action = "type"              -> <<"xdotool", "xdotool">> \o Capture
      [] action = "cursor_position"   -> <<"xdotool">>
      [] action \in {"click", "scroll"} -> <<"xdotool", "click">> \o Capture
      [] action = "click_key"         -> <<"xdotool", "press", "click", "release">> \o Capture
      [] action = "scroll_key"        ->
            <<"xdotool", "press_anyway", "click", "release_anyway">> \o Capture
      [] action = "hold_key"          -> <<"press", "release_anyway">> \o Capture
      [] action = "bash"              -> <<"bash">>
      [] action = "refused"           -> <<>>

CommandNames == {"xdotool", "press", "press_anyway", "click", "release",
                 "release_anyway", "bash", "scrot", "base64", "rm"}

NoTool == [action |-> "none", commands |-> <<>>, image |-> FALSE]

ToolsInit == tool = NoTool /\ owed = FALSE

CallTool(action) ==
    /\ tool = NoTool
    /\ tool' = [action |-> action, commands |-> Commands(action), image |-> FALSE]
    /\ UNCHANGED owed

(* What the sandbox's keyboard owes once the command has been sent. *)
Owed(command) ==
    CASE command \in {"press", "press_anyway"}     -> TRUE
      [] command \in {"release", "release_anyway"} -> FALSE
      [] OTHER                                     -> owed

CommandSucceeds ==
    /\ tool.commands # <<>>
    /\ owed' = Owed(Head(tool.commands))
    /\ tool' = [tool EXCEPT !.commands = Tail(@),
                            !.image = @ \/ Head(tool.commands) = "base64"]

(* Mutant of AfterFailure: a failed click ends the call like any other. *)
AfterAnyFailure(command, rest) ==
    CASE command = "base64"                                     -> rest
      [] command \in {"press_anyway", "release_anyway", "rm"}   -> rest
      [] OTHER                                                  -> <<>>

(* A click that fails is followed by the release only, if there is one. *)
ReleaseOnly(rest) ==
    IF rest # <<>> /\ Head(rest) \in {"release", "release_anyway"} THEN <<Head(rest)>> ELSE <<>>

(* The commands still run after `command` has exited with an error. *)
AfterFailure(command, rest) ==
    CASE command = "click"                                      -> ReleaseOnly(rest)
      [] command = "base64"                                     -> rest
      [] command \in {"press_anyway", "release_anyway", "rm"}   -> rest
      [] OTHER                                                  -> <<>>

(* A press that exits with an error has pressed nothing; scroll does not   *)
(* look and releases the key all the same.                                 *)
CommandFails ==
    /\ tool.commands # <<>>
    /\ LET command == Head(tool.commands)
       IN  /\ tool' = [tool EXCEPT !.commands = AfterFailure(command, Tail(@))]
           /\ owed' = IF command = "press" THEN owed ELSE Owed(command)

(* The exception leaves the tool call and the agent's run; the command may *)
(* have reached the sandbox.                                               *)
CommandRaises ==
    /\ tool.commands # <<>>
    /\ owed' \in {owed, Owed(Head(tool.commands))}
    /\ tool' = NoTool

ToolsTypeOK ==
    /\ tool \in [action : Actions \cup {"none"}, commands : Seq(CommandNames),
                 image : BOOLEAN]
    /\ owed \in BOOLEAN
=============================================================================
