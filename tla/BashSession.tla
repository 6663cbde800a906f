---------------------------- MODULE BashSession -----------------------------
(***************************************************************************)
(* The demo's bash tool (computer_use_demo/tools/bash.py): one shell that  *)
(* stays up between calls.  A call writes its command and an echo of the   *)
(* sentinel to the shell's input and polls the buffer of its output, which *)
(* the event loop fills, until the sentinel is in it.                      *)
(*                                                                         *)
(* A command may leave processes in the background, as the system prompt   *)
(* (loop.py) advises for applications: "(DISPLAY=:1 xterm &)".  They share *)
(* the shell's pipes and write whenever they like, between calls as well.  *)
(*                                                                         *)
(* Output is a sequence of pieces, each with its source: the number of a   *)
(* command, the processes in the background, or the echo of the sentinel;  *)
(* nothing else writes the sentinel.                                       *)
(***************************************************************************)
EXTENDS Integers, Sequences, FiniteSets

CONSTANTS MaxCommands,  \* bound: commands of a conversation turn
          MaxPieces,    \* bound: pieces of output of one source
          MaxErrors,    \* bound: error pieces written to a shell's pipe
          BufferSize    \* pieces that a StreamReader holds before it pauses

ASSUME BashAssumption == {MaxCommands, MaxPieces, MaxErrors, BufferSize} \subseteq Nat \ {0}

VARIABLES session,      \* the shell's process, _timed_out, paused StreamReaders,
                        \* and whether a process writes in the background
          count,        \* commands so far
          call,         \* the command whose result run() waits for
          stdin,        \* commands written to the shell; it executes the first
          pipe,         \* written by the shell, not yet read
          buffer,       \* the buffers of the two StreamReaders
          result,       \* the last result of a command
          printed,      \* history: pieces of output of each source
          errors,       \* history: error pieces written to this shell's pipe
          delivered,    \* history: error pieces in this shell's results
          backlog       \* history: the most error pieces that waited for a result

historyVars == <<printed, errors, delivered, backlog>>
bashVars == <<session, count, call, stdin, pipe, buffer, result, historyVars>>

Sentinel == 0
Background == -1
Commands == 1..MaxCommands
Sources == Commands \cup {Background}
NoSession == [state |-> "none", timedOut |-> FALSE, paused |-> {}, background |-> FALSE]
NoResult == [of |-> 0, out |-> <<>>]
Empty == [out |-> <<>>, err |-> <<>>]

BashInit ==
    /\ session = NoSession
    /\ count = 0
    /\ call = 0
    /\ stdin = <<>>
    /\ pipe = Empty /\ buffer = Empty
    /\ result = NoResult
    /\ printed = [s \in Sources |-> 0]
    /\ errors = <<>> /\ delivered = <<>> /\ backlog = 0

Busy == stdin # <<>>
Running == Head(stdin)

(* start: a new process with new pipes, for the first call of the tool     *)
(* and for restart=true, which terminates the one before.  What that left  *)
(* in the background goes on, but writes to pipes that nobody reads.       *)
Restart ==
    /\ call = 0
    /\ session' = [NoSession EXCEPT !.state = "up"]
    /\ stdin' = <<>>
    /\ pipe' = Empty /\ buffer' = Empty
    /\ errors' = <<>> /\ delivered' = <<>> /\ backlog' = 0
    /\ UNCHANGED <<count, call, result, printed>>

(* Mutant of Refused: a shell that timed out takes commands again. *)
RefusedExited == session.state # "up"

(* run answers without the shell: it has exited, or has timed out. *)
Refused == session.state # "up" \/ session.timedOut

Run ==
    /\ call = 0
    /\ ~Refused
    /\ count < MaxCommands
    /\ count' = count + 1
    /\ call' = count'
    /\ stdin' = Append(stdin, count')
    /\ UNCHANGED <<session, pipe, buffer, result, historyVars>>

-----------------------------------------------------------------------------
(* The shell *)

(* What may write now: the command that the shell executes, and what       *)
(* commands have left in the background.                                   *)
Writing ==
    {s \in Sources : \/ Busy /\ s = Running
                     \/ session.background /\ s = Background}

(* The command starts a process that outlives it. *)
LeavesProcess ==
    /\ Busy
    /\ session' = [session EXCEPT !.background = TRUE]
    /\ UNCHANGED <<count, call, stdin, pipe, buffer, result, historyVars>>

ShellPrints ==
    /\ \E s \in Writing :
          /\ printed[s] < MaxPieces
          /\ printed' = [printed EXCEPT ![s] = @ + 1]
          /\ pipe' = [pipe EXCEPT !.out = Append(@, s)]
    /\ UNCHANGED <<session, count, call, stdin, buffer, result, errors, delivered, backlog>>

Larger(m, n) == IF m < n THEN n ELSE m

ShellPrintsError ==
    /\ Len(errors) < MaxErrors
    /\ \E s \in Writing :
          /\ errors' = Append(errors, s)
          /\ pipe' = [pipe EXCEPT !.err = Append(@, s)]
    /\ backlog' = Larger(backlog, Len(errors') - Len(delivered))
    /\ UNCHANGED <<session, count, call, stdin, buffer, result, printed, delivered>>

(* The command ends and the shell echoes the sentinel.  Some commands do   *)
(* not end, or swallow the echo: for them this step is never taken.        *)
CommandEnds ==
    /\ Busy
    /\ stdin' = Tail(stdin)
    /\ pipe' = [pipe EXCEPT !.out = Append(@, Sentinel)]
    /\ UNCHANGED <<session, count, call, buffer, result, historyVars>>

ShellExits ==
    /\ session.state = "up"
    /\ session' = [session EXCEPT !.state = "exited"]
    /\ stdin' = <<>>
    /\ UNCHANGED <<count, call, pipe, buffer, result, historyVars>>

-----------------------------------------------------------------------------
(* The event loop reads a pipe into the buffer of its StreamReader, which  *)
(* pauses above its limit.  Only its read methods resume it, and bash.py   *)
(* looks at the buffer directly.                                           *)
Feed(stream) ==
    /\ pipe[stream] # <<>>
    /\ stream \notin session.paused
    /\ pipe' = [pipe EXCEPT ![stream] = Tail(@)]
    /\ buffer' = [buffer EXCEPT ![stream] = Append(@, Head(pipe[stream]))]
    /\ session' = IF Len(buffer[stream]) < BufferSize
                  THEN session ELSE [session EXCEPT !.paused = @ \cup {stream}]
    /\ UNCHANGED <<count, call, stdin, result, historyVars>>

(* Mutant of BeforeSentinel: the sentinel is not stripped. *)
WithSentinel(out) == out

Arrived(out) == \E i \in DOMAIN out : out[i] = Sentinel
BeforeSentinel(out) ==
    SubSeq(out, 1, (CHOOSE i \in DOMAIN out :
                       out[i] = Sentinel /\ \A j \in 1..(i - 1) : out[j] # Sentinel) - 1)

(* Mutant of Cleared: errors stay in the buffer. *)
ClearedOut == [buffer EXCEPT !.out = <<>>]

(* clear() of both buffers, in the step that read them.  It drops what the *)
(* background wrote behind the sentinel, and resumes no StreamReader.      *)
Cleared == Empty

(* The sentinel has come: the output before it is the result, with what    *)
(* has come of the errors by now.                                          *)
Poll ==
    /\ call # 0
    /\ Arrived(buffer.out)
    /\ result' = [of |-> call, out |-> BeforeSentinel(buffer.out)]
    /\ delivered' = delivered \o buffer.err
    /\ buffer' = Cleared
    /\ call' = 0
    /\ UNCHANGED <<session, count, stdin, pipe, printed, errors, backlog>>

TimeOut ==
    /\ call # 0
    /\ session' = [session EXCEPT !.timedOut = TRUE]
    /\ call' = 0
    /\ UNCHANGED <<count, stdin, pipe, buffer, result, historyVars>>

BashNext ==
    \/ Restart \/ Run
    \/ LeavesProcess \/ ShellPrints \/ ShellPrintsError \/ CommandEnds \/ ShellExits
    \/ \E stream \in {"out", "err"} : Feed(stream)
    \/ Poll \/ TimeOut

-----------------------------------------------------------------------------
BashTypeOK ==
    /\ session \in [state : {"none", "up", "exited"}, timedOut : BOOLEAN,
                    paused : SUBSET {"out", "err"}, background : BOOLEAN]
    /\ count \in 0..MaxCommands
    /\ call \in 0..count
    /\ stdin \in Seq(Commands)
    /\ \A s \in {pipe, buffer} :
          s \in [out : Seq(Sources \cup {Sentinel}), err : Seq(Sources)]
    /\ result \in [of : 0..count, out : Seq(Sources)]
    /\ printed \in [Sources -> 0..MaxPieces]
    /\ errors \in Seq(Sources) /\ delivered \in Seq(Sources) /\ backlog \in 0..MaxErrors

(* The places of a source's pieces in an output. *)
PiecesOf(source, out) == {i \in DOMAIN out : out[i] = source}

(* A result has all that its command wrote, and nothing that another       *)
(* command wrote: the sentinel of a command that timed out never ends a    *)
(* later one, because the shell is refused until it is restarted.  What    *)
(* processes in the background wrote may be among it.                      *)
OutputOfItsCommand ==
    result.of # 0 =>
       /\ \A i \in DOMAIN result.out : result.out[i] \in {result.of, Background}
       /\ Cardinality(PiecesOf(result.of, result.out)) = printed[result.of]

(* Error output has a pipe of its own and may come later than the sentinel *)
(* of its command.  No piece is lost between two results, delivered twice  *)
(* or out of order: each is in a result, in the buffer, or still in the    *)
(* pipe.  And what is in the pipe can still come: the reader never pauses  *)
(* as long as no more error pieces than its buffer holds waited at once.   *)
(* Once it has paused, what is in the pipe never comes.                    *)
ErrorsKept ==
    /\ delivered \o buffer.err \o pipe.err = errors
    /\ backlog <= BufferSize => "err" \notin session.paused
=============================================================================
