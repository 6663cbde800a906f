--------------------------- MODULE DemoToolsProofs ---------------------------
(***************************************************************************)
(* The demo's shell, for any number of commands and pieces of output and   *)
(* any limit of the readers, its pointer, for any screen and any point of  *)
(* it, and its edit tool, for texts and snippets of any length.  The tools *)
(* share no state: each has an invariant of its own.                       *)
(*                                                                         *)
(* The edit tool's texts are taken apart and put together by recursion,    *)
(* by counting and by choosing.  Its lemmas say what comes of that: Joined *)
(* is the inverse of Lines, and a text with one occurrence is replaced     *)
(* there and nowhere else.                                                 *)
(***************************************************************************)
EXTENDS DemoTools, DataLemmas, TLAPS

(* What has come of the shell's output and is on its way. *)
Stream == buffer.out \o pipe.out

(* Output of command c that has not ended, and of one that has: behind the *)
(* sentinel is only what processes in the background wrote.                *)
OnlyOf(c, s) == \A i \in DOMAIN s : s[i] \in {c, Background}

EndsAt(k, c, s) ==
    /\ s[k] = Sentinel
    /\ \A i \in DOMAIN s : i < k => s[i] \in {c, Background}
    /\ \A i \in DOMAIN s : i > k => s[i] = Background

(* The shell has no command but the last one, and a command that printed   *)
(* is one of those that were run.                                          *)
OneCommand ==
    /\ stdin \in {<<>>, <<count>>}
    /\ call \in {0, count}
    /\ \A c \in Commands : c > count => printed[c] = 0

(* While a call waits there is all of its command's output, with the       *)
(* sentinel once the command has ended, and no other command's; between    *)
(* calls there is only what the background wrote, unless the shell has     *)
(* timed out and is refused.                                               *)
OutputInv ==
    /\ call # 0 =>
          /\ ~session.timedOut
          /\ Cardinality(PiecesOf(call, Stream)) = printed[call]
          /\ \/ OnlyOf(call, Stream)
             \/ stdin = <<>> /\ \E k \in DOMAIN Stream : EndsAt(k, call, Stream)
    /\ call = 0 /\ ~session.timedOut =>
          /\ stdin = <<>>
          /\ \A i \in DOMAIN Stream : Stream[i] = Background

(* The command of the last result has ended. *)
ResultInv ==
    result.of # 0 =>
        /\ result.of \in Commands
        /\ stdin # <<>> \/ call # 0 => result.of # count

(* The backlog counts what is in buffer and pipe, and a reader that paused *)
(* had more than its buffer holds.                                         *)
ErrorsInv ==
    /\ delivered \o buffer.err \o pipe.err = errors
    /\ Len(errors) - Len(delivered) <= backlog
    /\ "err" \in session.paused => backlog > BufferSize

ShellInv ==
    BashTypeOK /\ OneCommand /\ OutputInv /\ ResultInv /\ OutputOfItsCommand /\ ErrorsInv

-----------------------------------------------------------------------------
Piece == Sources \cup {Sentinel}
Pieces == Seq(Piece)
Errors == Seq(Sources)
Streams == [out : Pieces, err : Errors]
Sessions == [state : {"none", "up", "exited"}, timedOut : BOOLEAN,
             paused : SUBSET {"out", "err"}, background : BOOLEAN]

LEMMA SourcesAreNumbers ==
    /\ Commands \subseteq Nat \ {0}
    /\ Commands \subseteq Sources /\ Background \in Sources
    /\ Sources \subseteq Piece /\ Sentinel \in Piece
    /\ Background \notin Commands /\ Sentinel \notin Sources
    /\ {MaxCommands, MaxPieces, MaxErrors, BufferSize} \subseteq Nat
<1>1. MaxCommands \in Nat
  BY BashAssumption
<1>2. Commands \subseteq Nat \ {0}
  BY <1>1 DEF Commands
<1> QED
  BY <1>2, BashAssumption DEF Sources, Piece, Sentinel, Background

(* What is appended counts for its source. *)
LEMMA PiecesGrow ==
    ASSUME NEW T, NEW s \in Seq(T), NEW m \in T, NEW c
    PROVE  /\ IsFiniteSet(PiecesOf(c, s))
           /\ Cardinality(PiecesOf(c, s)) \in Nat
           /\ m = c => Cardinality(PiecesOf(c, Append(s, m))) = Cardinality(PiecesOf(c, s)) + 1
           /\ m # c => PiecesOf(c, Append(s, m)) = PiecesOf(c, s)
<1>1. Len(s) \in Nat /\ DOMAIN s = 1..Len(s)
  OBVIOUS
<1>2. /\ DOMAIN Append(s, m) = 1..(Len(s) + 1)
      /\ Append(s, m)[Len(s) + 1] = m
      /\ \A i \in 1..Len(s) : Append(s, m)[i] = s[i]
  BY <1>1, AppendProperties
<1>3. IsFiniteSet(PiecesOf(c, s))
  <2>1. IsFiniteSet(1..Len(s))
    <3>1. \A n \in Int : IsFiniteSet(1..n)
      BY FS_Interval
    <3> QED
      BY <1>1, <3>1
  <2>2. PiecesOf(c, s) \in SUBSET (1..Len(s))
    BY <1>1 DEF PiecesOf
  <2> QED
    BY <2>1, <2>2, FS_Subset
<1>4. Cardinality(PiecesOf(c, s)) \in Nat
  BY <1>3, FS_CardinalityType
<1>5. Len(s) + 1 \notin PiecesOf(c, s)
  BY <1>1 DEF PiecesOf
<1>6. ASSUME m = c
      PROVE  Cardinality(PiecesOf(c, Append(s, m))) = Cardinality(PiecesOf(c, s)) + 1
  <2>1. PiecesOf(c, Append(s, m)) = PiecesOf(c, s) \cup {Len(s) + 1}
    BY <1>1, <1>2, <1>6 DEF PiecesOf
  <2> QED
    BY <1>3, <1>5, <2>1, FS_AddElement
<1>7. ASSUME m # c
      PROVE  PiecesOf(c, Append(s, m)) = PiecesOf(c, s)
  BY <1>1, <1>2, <1>7 DEF PiecesOf
<1> QED
  BY <1>3, <1>4, <1>6, <1>7

(* The command's output before its end, at its end and behind it. *)
LEMMA OutputGrows ==
    ASSUME NEW s \in Pieces, NEW m \in Piece, NEW c
    PROVE  /\ Append(s, m) \in Pieces
           /\ OnlyOf(c, s) /\ m \in {c, Background} => OnlyOf(c, Append(s, m))
           /\ OnlyOf(c, s) /\ m = Sentinel =>
                 \E k \in DOMAIN Append(s, m) : EndsAt(k, c, Append(s, m))
           /\ (\E k \in DOMAIN s : EndsAt(k, c, s)) /\ m = Background =>
                 \E k \in DOMAIN Append(s, m) : EndsAt(k, c, Append(s, m))
<1>1. Len(s) \in Nat /\ DOMAIN s = 1..Len(s)
  BY DEF Pieces
<1>2. /\ Append(s, m) \in Pieces
      /\ DOMAIN Append(s, m) = 1..(Len(s) + 1)
      /\ Append(s, m)[Len(s) + 1] = m
      /\ \A i \in 1..Len(s) : Append(s, m)[i] = s[i]
  BY <1>1, AppendProperties DEF Pieces
<1> DEFINE t == Append(s, m)
<1>3. /\ DOMAIN t = 1..(Len(s) + 1)
      /\ t[Len(s) + 1] = m
      /\ \A i \in 1..Len(s) : t[i] = s[i]
  BY <1>2
<1> HIDE DEF t
<1>4. ASSUME OnlyOf(c, s), m \in {c, Background}
      PROVE  OnlyOf(c, t)
  BY <1>1, <1>3, <1>4 DEF OnlyOf
<1>5. ASSUME OnlyOf(c, s), m = Sentinel
      PROVE  EndsAt(Len(s) + 1, c, t) /\ Len(s) + 1 \in DOMAIN t
  BY <1>1, <1>3, <1>5 DEF OnlyOf, EndsAt
<1>6. ASSUME NEW k \in DOMAIN s, EndsAt(k, c, s), m = Background
      PROVE  EndsAt(k, c, t) /\ k \in DOMAIN t
  BY <1>1, <1>3, <1>6 DEF EndsAt
<1> QED
  BY <1>2, <1>4, <1>5, <1>6 DEF t

(* The types of a shell that is at work. *)
LEMMA ShellTypes ==
    ASSUME ShellInv
    PROVE  /\ pipe \in Streams /\ buffer \in Streams /\ session \in Sessions
           /\ pipe.out \in Pieces /\ buffer.out \in Pieces
           /\ pipe.err \in Errors /\ buffer.err \in Errors
           /\ delivered \in Errors /\ errors \in Errors
           /\ delivered \o buffer.err \in Errors
           /\ Stream \in Pieces
           /\ count \in Nat /\ count <= MaxCommands /\ MaxCommands \in Nat
           /\ call # 0 => call = count /\ count \in Commands
           /\ Busy => stdin = <<count>> /\ Running = count /\ Tail(stdin) = <<>>
                      /\ count \in Commands
           /\ \A s \in Writing : s \in Sources /\ ((Busy /\ s = count) \/ s = Background)
<1>1. pipe \in Streams /\ buffer \in Streams /\ session \in Sessions
  BY DEF ShellInv, BashTypeOK, Streams, Pieces, Piece, Errors, Sessions
<1>2. /\ pipe.out \in Pieces /\ buffer.out \in Pieces
      /\ pipe.err \in Errors /\ buffer.err \in Errors
  BY <1>1 DEF Streams
<1>3. Stream \in Pieces
  BY <1>2, ConcatProperties DEF Stream, Pieces
<1>4. delivered \in Errors /\ errors \in Errors
  BY DEF ShellInv, BashTypeOK, Errors
<1>5. delivered \o buffer.err \in Errors
  BY <1>2, <1>4, ConcatProperties DEF Errors
<1>6. count \in Nat /\ count <= MaxCommands /\ MaxCommands \in Nat
  BY BashAssumption DEF ShellInv, BashTypeOK
<1>7. call # 0 => call = count /\ count \in Commands
  BY <1>6 DEF ShellInv, OneCommand, Commands
<1>8. Busy => stdin = <<count>> /\ Running = count /\ Tail(stdin) = <<>> /\ count \in Commands
  <2> SUFFICES ASSUME Busy
               PROVE  stdin = <<count>> /\ Running = count /\ Tail(stdin) = <<>>
                      /\ count \in Commands
    OBVIOUS
  <2>1. stdin = <<count>>
    BY DEF Busy, ShellInv, OneCommand
  <2>2. Head(<<count>>) = count /\ Tail(<<count>>) = <<>>
    OBVIOUS
  <2>3. <<count>> \in Seq(Commands) /\ <<count>>[1] = count /\ Len(<<count>>) = 1
    BY <2>1 DEF ShellInv, BashTypeOK
  <2>4. count \in Commands
    BY <2>3
  <2> QED
    BY <2>1, <2>2, <2>4 DEF Running
<1>9. \A s \in Writing : s \in Sources /\ ((Busy /\ s = count) \/ s = Background)
  BY <1>8 DEF Writing
<1> QED
  BY <1>1, <1>2, <1>3, <1>4, <1>5, <1>6, <1>7, <1>8, <1>9

(* As long as the result and what its command printed stay, the result is  *)
(* still its command's output.                                             *)
LEMMA ResultKept ==
    ASSUME OutputOfItsCommand, ResultInv, UNCHANGED result,
           result.of # 0 => printed'[result.of] = printed[result.of]
    PROVE  OutputOfItsCommand'
BY DEF OutputOfItsCommand, PiecesOf

-----------------------------------------------------------------------------
LEMMA RestartShell == ASSUME ShellInv, Restart PROVE ShellInv'
<1>1. <<>> \in Pieces /\ <<>> \in Errors /\ Empty \in Streams
  BY DEF Pieces, Errors, Empty, Streams
<1>2. /\ call = 0 /\ UNCHANGED <<count, call, result, printed>>
      /\ stdin' = <<>> /\ pipe' = Empty /\ buffer' = Empty
      /\ errors' = <<>> /\ delivered' = <<>> /\ backlog' = 0
      /\ session' \in Sessions /\ session'.paused = {}
  BY DEF Restart, NoSession, Sessions
<1>3. BashTypeOK'
  <2>1. pipe' \in Streams /\ buffer' \in Streams /\ 0 \in 0..MaxErrors
    BY <1>1, <1>2, SourcesAreNumbers
  <2>2. stdin' \in Seq(Commands)
    BY <1>2
  <2> QED
    BY <1>1, <1>2, <2>1, <2>2
       DEF ShellInv, BashTypeOK, Streams, Pieces, Piece, Errors, Sessions
<1>4. OneCommand' /\ ResultInv' /\ OutputOfItsCommand'
  BY <1>2 DEF ShellInv, OneCommand, ResultInv, OutputOfItsCommand, PiecesOf
<1>5. buffer'.out \o pipe'.out = <<>> /\ delivered' \o buffer'.err \o pipe'.err = <<>>
  BY <1>2 DEF Empty
<1>6. OutputInv'
  <2>1. Stream' = <<>> /\ DOMAIN <<>> = {}
    BY <1>5 DEF Stream
  <2> QED
    BY <1>2, <2>1 DEF OutputInv
<1>7. ErrorsInv'
  BY <1>2, <1>5 DEF ErrorsInv
<1> QED
  BY <1>3, <1>4, <1>6, <1>7 DEF ShellInv

(* Only the background may have written when a command is given to the     *)
(* shell, as a shell that may still owe a sentinel is refused.             *)
LEMMA RunShell == ASSUME ShellInv, Run PROVE ShellInv'
<1>1. /\ call = 0 /\ ~session.timedOut
      /\ count < MaxCommands
      /\ count' = count + 1 /\ call' = count + 1
      /\ stdin' = Append(stdin, count + 1)
      /\ UNCHANGED <<session, pipe, buffer, result, printed, errors, delivered, backlog>>
  BY DEF Run, Refused, historyVars
<1>2. stdin = <<>> /\ \A i \in DOMAIN Stream : Stream[i] = Background
  BY <1>1 DEF ShellInv, OutputInv
<1>3. count + 1 \in Commands /\ count \in Nat
  BY <1>1, ShellTypes DEF Commands
<1>4. stdin' = <<count + 1>> /\ <<count + 1>> \in Seq(Commands)
  BY <1>1, <1>2, <1>3
<1>5. BashTypeOK'
  <2>1. count' \in 0..MaxCommands /\ call' \in 0..count' /\ result \in [of : 0..count', out : Seq(Sources)]
    BY <1>1, <1>3, ShellTypes, SMTT(30) DEF ShellInv, BashTypeOK
  <2> QED
    BY <1>1, <1>4, <2>1 DEF ShellInv, BashTypeOK
<1>6. OneCommand'
  <2>1. stdin' = <<count'>> /\ call' = count'
    BY <1>1, <1>4
  <2>2. \A c \in Commands : c > count + 1 => printed[c] = 0
    BY <1>3, SourcesAreNumbers DEF ShellInv, OneCommand
  <2> QED
    BY <1>1, <2>1, <2>2 DEF OneCommand
<1>7. OutputInv'
  <2>1. printed[count + 1] = 0
    BY <1>3 DEF ShellInv, OneCommand
  <2>2. PiecesOf(count + 1, Stream) = {} /\ OnlyOf(count + 1, Stream)
    BY <1>2, <1>3, SourcesAreNumbers DEF PiecesOf, OnlyOf
  <2>3. Cardinality(PiecesOf(count + 1, Stream)) = 0
    BY <2>2, FS_EmptySet
  <2>4. Stream' = Stream
    BY <1>1 DEF Stream
  <2>5. call' # 0
    BY <1>1, <1>3
  <2> QED
    BY <1>1, <2>1, <2>2, <2>3, <2>4, <2>5 DEF OutputInv
<1>8. ResultInv'
  BY <1>1, <1>3 DEF ShellInv, ResultInv, BashTypeOK
<1>9. OutputOfItsCommand' /\ ErrorsInv'
  BY <1>1 DEF ShellInv, OutputOfItsCommand, PiecesOf, ErrorsInv
<1> QED
  BY <1>5, <1>6, <1>7, <1>8, <1>9 DEF ShellInv

LEMMA LeaveShell == ASSUME ShellInv, LeavesProcess PROVE ShellInv'
<1>1. /\ UNCHANGED <<count, call, stdin, pipe, buffer, result, printed, errors, delivered, backlog>>
      /\ session' \in Sessions
      /\ session'.timedOut = session.timedOut /\ session'.paused = session.paused
  BY ShellTypes DEF LeavesProcess, historyVars, Sessions
<1>2. BashTypeOK'
  BY <1>1 DEF ShellInv, BashTypeOK, Sessions
<1> QED
  BY <1>1, <1>2 DEF ShellInv, OneCommand, OutputInv, Stream, ResultInv, OutputOfItsCommand,
                    PiecesOf, ErrorsInv

(* What is written to the pipe is behind everything on its way. *)
LEMMA StreamGrows ==
    ASSUME ShellInv, NEW m \in Piece, pipe' = [pipe EXCEPT !.out = Append(@, m)], buffer' = buffer
    PROVE  /\ Stream' = Append(Stream, m)
           /\ pipe' \in Streams
           /\ pipe'.err = pipe.err
<1>1. /\ pipe'.out = Append(pipe.out, m) /\ pipe'.err = pipe.err
      /\ pipe' \in Streams
  <2>1. pipe \in Streams
    BY ShellTypes
  <2>2. \A q \in Pieces : Append(q, m) \in Pieces
    BY DEF Pieces
  <2> QED
    BY <2>1, <2>2 DEF Streams
<1>2. buffer.out \in Seq(Piece) /\ pipe.out \in Seq(Piece)
  BY ShellTypes DEF Pieces
<1>3. \A q, c \in Seq(Piece), n \in Piece : q \o Append(c, n) = Append(q \o c, n)
  BY ConcatAppend
<1>4. buffer.out \o Append(pipe.out, m) = Append(buffer.out \o pipe.out, m)
  BY <1>2, <1>3
<1> QED
  BY <1>1, <1>4 DEF Stream

LEMMA PrintShell == ASSUME ShellInv, ShellPrints PROVE ShellInv'
<1>1. PICK s \in Writing :
        /\ printed[s] < MaxPieces
        /\ printed' = [printed EXCEPT ![s] = @ + 1]
        /\ pipe' = [pipe EXCEPT !.out = Append(@, s)]
  BY DEF ShellPrints
<1>2. UNCHANGED <<session, count, call, stdin, buffer, result, errors, delivered, backlog>>
  BY DEF ShellPrints
<1>3. s \in Sources /\ s \in Piece /\ ((Busy /\ s = count /\ count \in Commands) \/ s = Background)
  BY ShellTypes, SourcesAreNumbers
<1>4. Stream' = Append(Stream, s) /\ pipe' \in Streams /\ pipe'.err = pipe.err
  BY <1>1, <1>2, <1>3, StreamGrows
<1>5. /\ printed \in [Sources -> 0..MaxPieces] /\ MaxPieces \in Nat
      /\ printed'[s] = printed[s] + 1
      /\ \A c \in Sources : c # s => printed'[c] = printed[c]
  BY <1>1, <1>3, BashAssumption DEF ShellInv, BashTypeOK
<1>6. BashTypeOK'
  <2>1. printed' \in [Sources -> 0..MaxPieces]
    BY <1>1, <1>3, <1>5
  <2> QED
    BY <1>2, <1>4, <2>1 DEF ShellInv, BashTypeOK, Streams, Pieces, Piece, Errors
<1>7. OneCommand'
  <2>1. \A c \in Commands : c > count => printed'[c] = 0
    BY <1>3, <1>5, SourcesAreNumbers, ShellTypes DEF ShellInv, OneCommand
  <2> QED
    BY <1>2, <2>1 DEF ShellInv, OneCommand
<1>8. ResultInv' /\ OutputOfItsCommand'
  <2>1. result.of # 0 => result.of # s /\ result.of \in Commands
    BY <1>3, SourcesAreNumbers DEF ShellInv, ResultInv, Busy
  <2>2. result.of # 0 => printed'[result.of] = printed[result.of]
    BY <1>5, <2>1, SourcesAreNumbers
  <2> QED
    BY <1>2, <2>2, ResultKept DEF ShellInv, ResultInv
<1>9. OutputInv'
  <2>1. ASSUME call # 0
        PROVE  /\ ~session.timedOut
               /\ Cardinality(PiecesOf(call, Append(Stream, s))) = printed'[call]
               /\ \/ OnlyOf(call, Append(Stream, s))
                  \/ stdin = <<>> /\ \E k \in DOMAIN Append(Stream, s) :
                                        EndsAt(k, call, Append(Stream, s))
    <3>1. /\ ~session.timedOut
          /\ Cardinality(PiecesOf(call, Stream)) = printed[call]
          /\ \/ OnlyOf(call, Stream)
             \/ stdin = <<>> /\ \E k \in DOMAIN Stream : EndsAt(k, call, Stream)
      BY <2>1 DEF ShellInv, OutputInv
    <3>2. call = count /\ call \in Commands /\ call \in Sources /\ call # Background
      BY <2>1, ShellTypes, SourcesAreNumbers
    <3>3. Stream \in Pieces /\ Stream \in Seq(Piece)
      BY ShellTypes DEF Pieces
    <3>4. Cardinality(PiecesOf(call, Append(Stream, s))) = printed'[call]
      <4>1. CASE s = call
        BY <1>3, <1>5, <3>1, <3>3, <4>1, PiecesGrow
      <4>2. CASE s # call
        <5>1. PiecesOf(call, Append(Stream, s)) = PiecesOf(call, Stream)
          BY <1>3, <3>3, <4>2, PiecesGrow
        <5> QED
          BY <1>5, <3>1, <3>2, <4>2, <5>1
      <4> QED
        BY <4>1, <4>2
    <3>5. CASE OnlyOf(call, Stream)
      <4>1. OnlyOf(call, Append(Stream, s))
        BY <1>3, <3>2, <3>3, <3>5, OutputGrows
      <4> QED
        BY <3>1, <3>4, <4>1
    <3>6. CASE stdin = <<>> /\ \E k \in DOMAIN Stream : EndsAt(k, call, Stream)
      <4>1. s = Background
        BY <1>3, <3>6 DEF Busy
      <4>2. \E k \in DOMAIN Append(Stream, s) : EndsAt(k, call, Append(Stream, s))
        BY <1>3, <3>3, <3>6, <4>1, OutputGrows
      <4> QED
        BY <3>1, <3>4, <3>6, <4>2
    <3> QED
      BY <3>1, <3>5, <3>6
  <2>2. ASSUME call = 0, ~session.timedOut
        PROVE  stdin = <<>> /\ \A i \in DOMAIN Append(Stream, s) : Append(Stream, s)[i] = Background
    <3>1. stdin = <<>> /\ OnlyOf(Background, Stream)
      BY <2>2 DEF ShellInv, OutputInv, OnlyOf
    <3>2. s = Background
      BY <1>3, <3>1 DEF Busy
    <3>3. OnlyOf(Background, Append(Stream, s))
      BY <1>3, <3>1, <3>2, OutputGrows, ShellTypes
    <3> QED
      BY <3>1, <3>3 DEF OnlyOf
  <2> QED
    BY <1>2, <1>4, <2>1, <2>2 DEF OutputInv
<1>10. ErrorsInv'
  BY <1>2, <1>4 DEF ShellInv, ErrorsInv
<1> QED
  BY <1>6, <1>7, <1>8, <1>9, <1>10 DEF ShellInv

LEMMA PrintErrorShell == ASSUME ShellInv, ShellPrintsError PROVE ShellInv'
<1>1. PICK s \in Writing :
        /\ errors' = Append(errors, s)
        /\ pipe' = [pipe EXCEPT !.err = Append(@, s)]
  BY DEF ShellPrintsError
<1>2. /\ Len(errors) < MaxErrors
      /\ backlog' = Larger(backlog, Len(errors') - Len(delivered))
      /\ UNCHANGED <<session, count, call, stdin, buffer, result, printed, delivered>>
  BY DEF ShellPrintsError
<1>3. s \in Sources
  BY ShellTypes
<1>4. /\ pipe'.err = Append(pipe.err, s) /\ pipe'.out = pipe.out
      /\ pipe' \in Streams
      /\ errors' \in Errors
      /\ Len(errors') = Len(errors) + 1
  <2>1. \A q \in Errors : Append(q, s) \in Errors /\ Len(Append(q, s)) = Len(q) + 1
    BY <1>3 DEF Errors
  <2> QED
    BY <1>1, <2>1, ShellTypes DEF Streams
<1>5. /\ backlog \in 0..MaxErrors /\ MaxErrors \in Nat
      /\ Len(errors) \in Nat /\ Len(delivered) \in Nat
      /\ BufferSize \in Nat
  <2>1. backlog \in 0..MaxErrors
    BY DEF ShellInv, BashTypeOK
  <2>2. MaxErrors \in Nat /\ BufferSize \in Nat
    BY SourcesAreNumbers
  <2>3. errors \in Seq(Sources) /\ delivered \in Seq(Sources)
    BY DEF ShellInv, BashTypeOK
  <2> QED
    BY <2>1, <2>2, <2>3
<1>6. /\ backlog' \in 0..MaxErrors
      /\ Len(errors') - Len(delivered) <= backlog'
      /\ backlog <= backlog'
  <2>1. Len(errors') \in Int /\ Len(errors') <= MaxErrors
    BY <1>2, <1>4, <1>5
  <2> QED
    BY <1>2, <1>5, <2>1 DEF Larger
<1>7. BashTypeOK'
  BY <1>2, <1>4, <1>6 DEF ShellInv, BashTypeOK, Streams, Pieces, Piece, Errors
<1>8. OneCommand' /\ ResultInv' /\ OutputOfItsCommand'
  BY <1>2 DEF ShellInv, OneCommand, ResultInv, OutputOfItsCommand, PiecesOf
<1>9. OutputInv'
  BY <1>2, <1>4 DEF ShellInv, OutputInv, Stream
<1>10. ErrorsInv'
  <2>1. (delivered \o buffer.err) \o Append(pipe.err, s)
           = Append((delivered \o buffer.err) \o pipe.err, s)
    <3>1. delivered \o buffer.err \in Seq(Sources) /\ pipe.err \in Seq(Sources)
      BY ShellTypes DEF Errors
    <3>2. \A q, c \in Seq(Sources), m \in Sources : q \o Append(c, m) = Append(q \o c, m)
      BY ConcatAppend
    <3> QED
      BY <1>3, <3>1, <3>2
  <2>2. delivered' \o buffer'.err \o pipe'.err = errors'
    BY <1>1, <1>2, <1>4, <2>1 DEF ShellInv, ErrorsInv
  <2>3. "err" \in session'.paused => backlog' > BufferSize
    <3>1. "err" \in session.paused => backlog > BufferSize
      BY DEF ShellInv, ErrorsInv
    <3>2. backlog \in Nat /\ backlog' \in Nat
      BY <1>5, <1>6
    <3> QED
      BY <1>2, <1>5, <1>6, <3>1, <3>2
  <2> QED
    BY <1>2, <1>6, <2>2, <2>3 DEF ErrorsInv
<1> QED
  BY <1>7, <1>8, <1>9, <1>10 DEF ShellInv

LEMMA EndShell == ASSUME ShellInv, CommandEnds PROVE ShellInv'
<1>1. /\ stdin = <<count>> /\ stdin' = <<>> /\ count \in Commands
      /\ pipe' = [pipe EXCEPT !.out = Append(@, Sentinel)]
      /\ UNCHANGED <<session, count, call, buffer, result, printed, errors, delivered, backlog>>
  BY ShellTypes DEF CommandEnds, historyVars
<1>2. Stream' = Append(Stream, Sentinel) /\ pipe' \in Streams /\ pipe'.err = pipe.err
  BY <1>1, StreamGrows, SourcesAreNumbers
<1>3. BashTypeOK'
  BY <1>1, <1>2, SMTT(30) DEF ShellInv, BashTypeOK, Streams, Pieces, Piece, Errors
<1>4. OneCommand' /\ ResultInv' /\ OutputOfItsCommand'
  BY <1>1 DEF ShellInv, OneCommand, ResultInv, OutputOfItsCommand, PiecesOf
<1>5. OutputInv'
  <2>1. stdin # <<>>
    BY <1>1
  <2>2. call = 0 => session.timedOut
    BY <2>1 DEF ShellInv, OutputInv
  <2>3. ASSUME call # 0
        PROVE  /\ ~session.timedOut
               /\ Cardinality(PiecesOf(call, Append(Stream, Sentinel))) = printed[call]
               /\ \E k \in DOMAIN Append(Stream, Sentinel) :
                     EndsAt(k, call, Append(Stream, Sentinel))
    <3>1. /\ ~session.timedOut /\ OnlyOf(call, Stream)
          /\ Cardinality(PiecesOf(call, Stream)) = printed[call]
      BY <2>1, <2>3 DEF ShellInv, OutputInv
    <3>2. Stream \in Pieces /\ Stream \in Seq(Piece) /\ Sentinel \in Piece /\ call # Sentinel
      BY <2>3, ShellTypes, SourcesAreNumbers DEF Pieces
    <3>3. PiecesOf(call, Append(Stream, Sentinel)) = PiecesOf(call, Stream)
      BY <3>2, PiecesGrow
    <3> QED
      BY <3>1, <3>2, <3>3, OutputGrows
  <2> QED
    BY <1>1, <1>2, <2>2, <2>3 DEF OutputInv
<1>6. ErrorsInv'
  BY <1>1, <1>2 DEF ShellInv, ErrorsInv
<1> QED
  BY <1>3, <1>4, <1>5, <1>6 DEF ShellInv

LEMMA ExitShell == ASSUME ShellInv, ShellExits \/ TimeOut PROVE ShellInv'
<1>1. /\ UNCHANGED <<count, pipe, buffer, result, printed, errors, delivered, backlog>>
      /\ stdin' \in {<<>>, stdin}
      /\ session' \in Sessions /\ session'.paused = session.paused
      /\ \/ call' = call /\ session'.timedOut = session.timedOut /\ stdin' = <<>>
         \/ call' = 0 /\ session'.timedOut
  BY ShellTypes DEF Sessions, ShellExits, TimeOut, historyVars
<1>2. BashTypeOK'
  <2>1. call' \in 0..count /\ stdin' \in Seq(Commands)
    <3>1. 0 \in 0..count /\ <<>> \in Seq(Commands)
      BY ShellTypes
    <3> QED
      BY <1>1, <3>1 DEF ShellInv, BashTypeOK
  <2> QED
    BY <1>1, <2>1 DEF ShellInv, BashTypeOK, Sessions
<1>3. OneCommand' /\ ResultInv' /\ OutputOfItsCommand' /\ ErrorsInv'
  BY <1>1 DEF ShellInv, OneCommand, ResultInv, OutputOfItsCommand, PiecesOf, ErrorsInv
<1>4. OutputInv'
  BY <1>1 DEF ShellInv, OutputInv, Stream
<1> QED
  BY <1>2, <1>3, <1>4 DEF ShellInv

(* What the event loop reads moves from the pipe to the buffer. *)
LEMMA FeedShell == ASSUME ShellInv, NEW stream \in {"out", "err"}, Feed(stream) PROVE ShellInv'
<1>1. /\ pipe[stream] # <<>>
      /\ pipe' = [pipe EXCEPT ![stream] = Tail(@)]
      /\ buffer' = [buffer EXCEPT ![stream] = Append(@, Head(pipe[stream]))]
      /\ UNCHANGED <<count, call, stdin, result, printed, errors, delivered, backlog>>
  BY DEF Feed, historyVars
<1>2. /\ session' \in Sessions
      /\ session'.timedOut = session.timedOut
      /\ "err" \in session'.paused =>
            \/ "err" \in session.paused
            \/ stream = "err" /\ ~(Len(buffer.err) < BufferSize)
  <2>1. CASE Len(buffer[stream]) < BufferSize
    BY <2>1, ShellTypes DEF Feed
  <2>2. CASE ~(Len(buffer[stream]) < BufferSize)
    <3>1. session' = [session EXCEPT !.paused = @ \cup {stream}]
      BY <2>2 DEF Feed
    <3> QED
      BY <2>2, <3>1, ShellTypes DEF Sessions
  <2> QED
    BY <2>1, <2>2
<1>3. ASSUME stream = "out"
      PROVE  pipe' \in Streams /\ buffer' \in Streams /\ Stream' = Stream /\ ErrorsInv'
  <2>1. /\ pipe'.out = Tail(pipe.out) /\ pipe'.err = pipe.err
        /\ buffer'.out = Append(buffer.out, Head(pipe.out)) /\ buffer'.err = buffer.err
        /\ pipe.out # <<>>
    BY <1>1, <1>3, ShellTypes DEF Streams
  <2>2. Append(buffer.out, Head(pipe.out)) \o Tail(pipe.out) = buffer.out \o pipe.out
    BY <2>1, ShellTypes, HeadMoves DEF Pieces
  <2>3. Tail(pipe.out) \in Pieces /\ Append(buffer.out, Head(pipe.out)) \in Pieces
    BY <2>1, ShellTypes, HeadTailProperties, AppendProperties DEF Pieces
  <2>4. pipe' \in Streams /\ buffer' \in Streams
    BY <1>1, <1>3, <2>3, ShellTypes DEF Streams
  <2>5. Stream' = Stream
    BY <2>1, <2>2 DEF Stream
  <2>6. ErrorsInv'
    BY <1>1, <1>2, <1>3, <2>1 DEF ShellInv, ErrorsInv
  <2> QED
    BY <2>4, <2>5, <2>6
<1>4. ASSUME stream = "err"
      PROVE  pipe' \in Streams /\ buffer' \in Streams /\ Stream' = Stream /\ ErrorsInv'
  <2>1. /\ pipe'.err = Tail(pipe.err) /\ pipe'.out = pipe.out
        /\ buffer'.err = Append(buffer.err, Head(pipe.err)) /\ buffer'.out = buffer.out
        /\ pipe.err # <<>>
    BY <1>1, <1>4, ShellTypes DEF Streams
  <2>2. /\ delivered \in Seq(Sources) /\ buffer.err \in Seq(Sources) /\ pipe.err \in Seq(Sources)
        /\ delivered \o buffer.err \in Seq(Sources)
    BY ShellTypes DEF Errors
  <2>3. Head(pipe.err) \in Sources /\ Tail(pipe.err) \in Errors
        /\ Append(buffer.err, Head(pipe.err)) \in Errors
    BY <2>1, <2>2, HeadTailProperties, AppendProperties DEF Errors
  <2>4. delivered \o Append(buffer.err, Head(pipe.err)) = Append(delivered \o buffer.err, Head(pipe.err))
    <3>1. ASSUME NEW q \in Seq(Sources), NEW c \in Seq(Sources), NEW m \in Sources
          PROVE  q \o Append(c, m) = Append(q \o c, m)
      BY ConcatAppend
    <3> QED
      BY <2>2, <2>3, <3>1, Zenon
  <2>5. Append(delivered \o buffer.err, Head(pipe.err)) \o Tail(pipe.err)
           = (delivered \o buffer.err) \o pipe.err
    BY <2>1, <2>2, HeadMoves
  <2>6. delivered' \o buffer'.err \o pipe'.err = errors'
    BY <1>1, <2>1, <2>4, <2>5 DEF ShellInv, ErrorsInv
  <2>7. Len(errors) = Len(delivered) + Len(buffer.err) + Len(pipe.err)
    <3>1. \A q, c \in Seq(Sources) : Len(q \o c) = Len(q) + Len(c)
      BY ConcatProperties
    <3>2. Len((delivered \o buffer.err) \o pipe.err) = Len(delivered \o buffer.err) + Len(pipe.err)
      BY <2>2, <3>1
    <3>3. Len(delivered \o buffer.err) = Len(delivered) + Len(buffer.err)
      BY <2>2, <3>1
    <3> QED
      BY <3>2, <3>3 DEF ShellInv, ErrorsInv
  <2>8. /\ Len(errors) \in Nat /\ Len(delivered) \in Nat /\ Len(buffer.err) \in Nat
        /\ Len(pipe.err) \in Nat \ {0}
    BY <2>1, <2>2, EmptySeq, ShellTypes DEF Errors
  <2>9. ASSUME "err" \in session'.paused
        PROVE  backlog' > BufferSize
    <3>1. backlog \in Nat /\ BufferSize \in Nat /\ Len(errors) - Len(delivered) <= backlog
      BY SourcesAreNumbers DEF ShellInv, BashTypeOK, ErrorsInv
    <3>2. CASE "err" \in session.paused
      BY <1>1, <3>2 DEF ShellInv, ErrorsInv
    <3>3. CASE ~(Len(buffer.err) < BufferSize)
      <4>1. Len(errors) - Len(delivered) > BufferSize
        <5>1. \A e, d, b, p, size \in Nat : e = d + b + p /\ p # 0 /\ ~(b < size) => e - d > size
          OBVIOUS
        <5>2. Len(pipe.err) \in Nat /\ Len(pipe.err) # 0 /\ BufferSize \in Nat
          BY <2>8, <3>1
        <5> QED
          BY <2>7, <2>8, <3>3, <5>1, <5>2
      <4>2. backlog > BufferSize
        BY <2>8, <3>1, <4>1
      <4> QED
        BY <1>1, <4>2
    <3> QED
      BY <1>2, <2>9, <3>2, <3>3
  <2>10. ErrorsInv'
    BY <1>1, <2>6, <2>9 DEF ShellInv, ErrorsInv
  <2>11. pipe' \in Streams /\ buffer' \in Streams
    BY <1>1, <1>4, <2>3, ShellTypes DEF Streams
  <2>12. Stream' = Stream
    BY <2>1 DEF Stream
  <2> QED
    BY <2>10, <2>11, <2>12
<1>5. pipe' \in Streams /\ buffer' \in Streams /\ Stream' = Stream /\ ErrorsInv'
  BY <1>3, <1>4
<1>6. BashTypeOK'
  BY <1>1, <1>2, <1>5 DEF ShellInv, BashTypeOK, Streams, Pieces, Piece, Errors, Sessions
<1>7. OneCommand' /\ ResultInv' /\ OutputOfItsCommand'
  BY <1>1 DEF ShellInv, OneCommand, ResultInv, OutputOfItsCommand, PiecesOf
<1>8. OutputInv'
  BY <1>1, <1>2, <1>5 DEF ShellInv, OutputInv
<1> QED
  BY <1>5, <1>6, <1>7, <1>8 DEF ShellInv

(* A buffer with the sentinel holds all that the command wrote, before the *)
(* sentinel; what has not come yet is of the background.                   *)
LEMMA SentinelEnds ==
    ASSUME ShellInv, call # 0, Arrived(buffer.out)
    PROVE  /\ BeforeSentinel(buffer.out) \in Seq(Sources)
           /\ OnlyOf(call, BeforeSentinel(buffer.out))
           /\ PiecesOf(call, BeforeSentinel(buffer.out)) = PiecesOf(call, Stream)
           /\ \A i \in DOMAIN pipe.out : pipe.out[i] = Background
           /\ stdin = <<>>
<1> DEFINE in == buffer.out
           rest == pipe.out
           all == in \o rest
<1>1. /\ in \in Seq(Piece) /\ rest \in Seq(Piece)
      /\ Stream = all
      /\ call \in Commands
  BY ShellTypes DEF Stream, Pieces
<1>2. /\ Len(in) \in Nat /\ DOMAIN in = 1..Len(in)
      /\ Len(rest) \in Nat /\ DOMAIN rest = 1..Len(rest)
      /\ DOMAIN all = 1..(Len(in) + Len(rest))
      /\ \A i \in 1..Len(in) : all[i] = in[i]
      /\ \A i \in 1..Len(rest) : all[Len(in) + i] = rest[i]
  <2> HIDE DEF in, rest
  <2>1. /\ all \in Seq(Piece)
        /\ Len(all) = Len(in) + Len(rest)
        /\ \A i \in 1..Len(in) + Len(rest) :
              all[i] = IF i <= Len(in) THEN in[i] ELSE rest[i - Len(in)]
    BY <1>1, ConcatProperties
  <2>2. Len(in) \in Nat /\ DOMAIN in = 1..Len(in) /\ Len(rest) \in Nat /\ DOMAIN rest = 1..Len(rest)
    BY <1>1
  <2>3. DOMAIN all = 1..(Len(in) + Len(rest))
    BY <2>1
  <2> HIDE DEF all
  <2>4. \A i \in 1..Len(in) : all[i] = in[i]
    BY <2>1, <2>2
  <2>5. ASSUME NEW i \in 1..Len(rest)
        PROVE  all[Len(in) + i] = rest[i]
    <3>1. Len(in) + i \in 1..Len(in) + Len(rest) /\ ~(Len(in) + i <= Len(in))
          /\ (Len(in) + i) - Len(in) = i
      BY <2>2
    <3> QED
      BY <2>1, <3>1
  <2> QED
    BY <2>2, <2>3, <2>4, <2>5
<1>3. call # Sentinel /\ call # Background /\ Background # Sentinel
  BY <1>1, SourcesAreNumbers
<1>4. PICK m \in DOMAIN in : in[m] = Sentinel
  BY DEF Arrived
<1>5. OnlyOf(call, all) \/ (stdin = <<>> /\ \E k \in DOMAIN all : EndsAt(k, call, all))
  BY <1>1 DEF ShellInv, OutputInv
<1> HIDE DEF in, rest, all
<1>6. ~OnlyOf(call, all)
  BY <1>2, <1>3, <1>4 DEF OnlyOf
<1>7. stdin = <<>>
  BY <1>5, <1>6
<1>8. PICK k \in DOMAIN all : EndsAt(k, call, all)
  BY <1>5, <1>6
<1>9. k = m
  <2>1. m \in DOMAIN all /\ all[m] = Sentinel
    BY <1>2, <1>4
  <2>2. ~(m < k) /\ ~(m > k)
    BY <1>3, <1>8, <2>1 DEF EndsAt
  <2> QED
    BY <1>2, <1>4, <1>8, <2>2
<1>10. /\ k \in 1..Len(in) /\ k - 1 \in 0..Len(in) /\ k \in Nat
       /\ in[k] = Sentinel
       /\ \A i \in 1..(k - 1) : in[i] \in {call, Background}
       /\ \A i \in 1..(k - 1) : in[i] = all[i]
  <2>1. k \in 1..Len(in) /\ k - 1 \in 0..Len(in) /\ k \in Nat /\ in[k] = Sentinel
    BY <1>2, <1>4, <1>9
  <2>2. ASSUME NEW i \in 1..(k - 1)
        PROVE  in[i] = all[i] /\ in[i] \in {call, Background}
    <3>1. i \in 1..Len(in) /\ i \in DOMAIN all /\ i < k
      BY <1>2, <2>1
    <3>2. all[i] \in {call, Background}
      BY <1>8, <3>1 DEF EndsAt
    <3> QED
      BY <1>2, <3>1, <3>2
  <2> QED
    BY <2>1, <2>2
<1>11. BeforeSentinel(in) = SubSeq(in, 1, k - 1)
  <2> DEFINE FirstAt(i) == in[i] = Sentinel /\ \A j \in 1..(i - 1) : in[j] # Sentinel
  <2>1. FirstAt(k) /\ k \in DOMAIN in
    BY <1>2, <1>3, <1>10
  <2>2. ASSUME NEW i \in DOMAIN in, FirstAt(i)
        PROVE  i = k
    <3>1. i \in DOMAIN all /\ all[i] = Sentinel
      BY <1>2, <2>2
    <3>2. ~(i < k) /\ ~(i > k)
      BY <1>3, <1>8, <3>1 DEF EndsAt
    <3> QED
      BY <1>2, <1>10, <3>2
  <2>3. (CHOOSE i \in DOMAIN in : FirstAt(i)) = k
    <3> HIDE DEF FirstAt
    <3> QED
      BY <2>1, <2>2
  <2> QED
    BY <2>3 DEF BeforeSentinel
<1> DEFINE text == SubSeq(in, 1, k - 1)
<1>12. /\ text \in Seq(Piece)
       /\ DOMAIN text = 1..(k - 1)
       /\ Len(text) = k - 1
       /\ \A i \in 1..(k - 1) : text[i] = in[i]
  BY <1>1, <1>10, SubSeqProperties
<1> HIDE DEF text
<1>13. OnlyOf(call, text)
  BY <1>10, <1>12 DEF OnlyOf
<1>14. text \in Seq(Sources)
  <2>1. call \in Sources /\ Background \in Sources
    BY <1>1, SourcesAreNumbers
  <2>2. \A i \in 1..Len(text) : text[i] \in Sources
    BY <1>10, <1>12, <2>1
  <2> QED
    BY <1>12, <2>2, SeqDef
<1>15. PiecesOf(call, text) = PiecesOf(call, all)
  <2>1. ASSUME NEW i \in DOMAIN all, all[i] = call
        PROVE  i \in 1..(k - 1)
    <3>1. i # k /\ ~(i > k)
      BY <1>3, <1>8, <2>1 DEF EndsAt
    <3> QED
      BY <1>2, <1>10, <3>1
  <2>2. \A i \in 1..(k - 1) : i \in DOMAIN all /\ i \in DOMAIN text /\ text[i] = all[i]
    BY <1>2, <1>10, <1>12
  <2> QED
    BY <1>12, <2>1, <2>2 DEF PiecesOf
<1>16. \A i \in DOMAIN rest : rest[i] = Background
  <2>1. ASSUME NEW i \in 1..Len(rest)
        PROVE  all[Len(in) + i] = Background
    <3>1. Len(in) + i \in DOMAIN all /\ Len(in) + i > k
      BY <1>2, <1>10
    <3> QED
      BY <1>8, <3>1 DEF EndsAt
  <2> QED
    BY <1>2, <2>1
<1> QED
  BY <1>1, <1>7, <1>11, <1>13, <1>14, <1>15, <1>16 DEF in, rest, text

LEMMA PollShell == ASSUME ShellInv, Poll PROVE ShellInv'
<1>1. /\ call # 0
      /\ Arrived(buffer.out)
      /\ result' = [of |-> call, out |-> BeforeSentinel(buffer.out)]
      /\ delivered' = delivered \o buffer.err
      /\ buffer' = Empty
      /\ call' = 0
      /\ UNCHANGED <<session, count, stdin, pipe, printed, errors, backlog>>
  BY DEF Poll, Cleared
<1>2. /\ BeforeSentinel(buffer.out) \in Seq(Sources)
      /\ OnlyOf(call, BeforeSentinel(buffer.out))
      /\ PiecesOf(call, BeforeSentinel(buffer.out)) = PiecesOf(call, Stream)
      /\ \A i \in DOMAIN pipe.out : pipe.out[i] = Background
      /\ stdin = <<>>
  BY <1>1, SentinelEnds
<1>3. call = count /\ count \in Commands
  BY <1>1, ShellTypes
<1>4. Empty \in Streams /\ Empty.out = <<>> /\ Empty.err = <<>>
  BY DEF Empty, Streams, Pieces, Errors
<1>5. BashTypeOK'
  <2>1. result' \in [of : 0..count, out : Seq(Sources)] /\ 0 \in 0..count
    BY <1>1, <1>2, <1>3, ShellTypes
  <2>2. delivered' \in Errors
    BY <1>1, ShellTypes
  <2> QED
    BY <1>1, <1>4, <2>1, <2>2 DEF ShellInv, BashTypeOK, Streams, Pieces, Piece, Errors
<1>6. OneCommand' /\ ResultInv'
  BY <1>1, <1>2, <1>3 DEF ShellInv, OneCommand, ResultInv
<1>7. OutputOfItsCommand'
  <2>1. Cardinality(PiecesOf(call, Stream)) = printed[call]
    BY <1>1 DEF ShellInv, OutputInv
  <2>2. result'.of = call /\ result'.out = BeforeSentinel(buffer.out)
    BY <1>1
  <2> QED
    BY <1>1, <1>2, <2>1, <2>2 DEF OutputOfItsCommand, OnlyOf, PiecesOf
<1>8. OutputInv'
  <2>1. Stream' = pipe.out
    <3>1. <<>> \o pipe.out = pipe.out
      BY ShellTypes DEF Pieces
    <3> QED
      BY <1>1, <1>4, <3>1 DEF Stream
  <2> QED
    BY <1>1, <1>2, <2>1 DEF OutputInv
<1>9. ErrorsInv'
  <2>1. delivered' \o buffer'.err \o pipe'.err = errors'
    <3>1. (delivered \o buffer.err) \o <<>> = delivered \o buffer.err
      BY ShellTypes DEF Errors
    <3> QED
      BY <1>1, <1>4, <3>1 DEF ShellInv, ErrorsInv
  <2>2. Len(delivered') = Len(delivered) + Len(buffer.err)
    BY <1>1, ShellTypes, ConcatProperties DEF Errors
  <2>3. Len(errors) \in Nat /\ Len(delivered) \in Nat /\ Len(buffer.err) \in Nat /\ backlog \in Nat
    <3>1. backlog \in Nat
      BY SourcesAreNumbers DEF ShellInv, BashTypeOK
    <3>2. errors \in Seq(Sources) /\ delivered \in Seq(Sources) /\ buffer.err \in Seq(Sources)
      BY ShellTypes DEF Errors
    <3> QED
      BY <3>1, <3>2
  <2>4. Len(errors) - Len(delivered) <= backlog
    BY DEF ShellInv, ErrorsInv
  <2>5. Len(errors') - Len(delivered') <= backlog'
    BY <1>1, <2>2, <2>3, <2>4
  <2> QED
    BY <1>1, <2>1, <2>5 DEF ShellInv, ErrorsInv
<1> QED
  BY <1>5, <1>6, <1>7, <1>8, <1>9 DEF ShellInv

LEMMA ShellInit == BashInit => ShellInv
<1> SUFFICES ASSUME BashInit
             PROVE  ShellInv
  OBVIOUS
<1>1. BashTypeOK
  <2>1. /\ session \in Sessions
        /\ result \in [of : 0..count, out : Seq(Sources)]
        /\ Empty \in Streams
    BY DEF BashInit, NoSession, NoResult, Empty, Sessions, Streams, Pieces, Errors
  <2>2. printed \in [Sources -> 0..MaxPieces]
    BY SourcesAreNumbers DEF BashInit
  <2> QED
    BY <2>1, <2>2, SourcesAreNumbers
       DEF BashInit, BashTypeOK, Sessions, Streams, Pieces, Piece, Errors
<1>2. OneCommand /\ ResultInv /\ OutputOfItsCommand
  BY SourcesAreNumbers DEF BashInit, OneCommand, ResultInv, OutputOfItsCommand, NoResult
<1>3. OutputInv
  <2>1. Stream = <<>> /\ DOMAIN <<>> = {}
    BY DEF BashInit, Stream, Empty
  <2> QED
    BY <2>1 DEF BashInit, OutputInv
<1>4. ErrorsInv
  BY DEF BashInit, ErrorsInv, Empty, NoSession
<1> QED
  BY <1>1, <1>2, <1>3, <1>4 DEF ShellInv

LEMMA ShellStep == ShellInv /\ [Next]_vars => ShellInv'
<1> SUFFICES ASSUME ShellInv, [Next]_vars
             PROVE  ShellInv'
  OBVIOUS
<1>1. CASE BashNext
  BY <1>1, RestartShell, RunShell, LeaveShell, PrintShell, PrintErrorShell, EndShell, ExitShell,
     FeedShell, PollShell DEF BashNext
<1>2. CASE UNCHANGED bashVars
  BY <1>2, ZenonT(30) DEF bashVars, historyVars, ShellInv, BashTypeOK, OneCommand, OutputInv, Stream, ResultInv,
              OutputOfItsCommand, PiecesOf, ErrorsInv
<1> QED
  BY <1>1, <1>2 DEF Next, vars

(* A result has all that its command wrote and nothing of another command  *)
(* (bash.py, run), whatever processes in the background write and when: a  *)
(* shell that may still owe a sentinel is refused, so that what is in the  *)
(* pipe is always the last command's or the background's.                  *)
THEOREM OutputIsTheCommands == Spec => []OutputOfItsCommand
<1>1. Init => ShellInv
  BY ShellInit DEF Init
<1>2. ShellInv => OutputOfItsCommand
  BY DEF ShellInv
<1> QED
  BY <1>1, <1>2, ShellStep, PTL DEF Spec

(* Between two results no error output is lost, repeated or reordered      *)
(* (bash.py, run clears both buffers in the step that read them), and the  *)
(* reader of the errors pauses only after more than its buffer holds has   *)
(* waited at once: until then, all of them come.                           *)
THEOREM NoErrorLost == Spec => []ErrorsKept
<1>1. Init => ShellInv
  BY ShellInit DEF Init
<1>2. ASSUME ShellInv PROVE ErrorsKept
  <2>1. backlog \in Nat /\ BufferSize \in Nat
    BY <1>2, SourcesAreNumbers DEF ShellInv, BashTypeOK
  <2>2. delivered \o buffer.err \o pipe.err = errors
    BY <1>2 DEF ShellInv, ErrorsInv
  <2>3. "err" \in session.paused => backlog > BufferSize
    BY <1>2 DEF ShellInv, ErrorsInv
  <2> QED
    BY <2>1, <2>2, <2>3 DEF ErrorsKept
<1> QED
  BY <1>1, <1>2, ShellStep, PTL DEF Spec

-----------------------------------------------------------------------------
(* The pointer is where the tool has put it, or somebody else has. *)
PointerInv ==
    /\ ComputerTypeOK
    /\ width \in Widths /\ height \in Heights
    /\ asked # Nowhere =>
          \E p \in FromApi(asked[1], asked[2]) : pointer = OnScreen(p)
    /\ reported # Nowhere => reported \in FromComputer(pointer[1], pointer[2])

(* No two targets have nearly the same aspect ratio, so the one chosen is  *)
(* one that is narrower than the screen.                                   *)
LEMMA TargetType ==
    ASSUME width \in Nat \ {0}, height \in Nat \ {0}
    PROVE  /\ Target[1] \in Nat \ {0} /\ Target[2] \in Nat \ {0}
           /\ Target[1] <= width
<1>1. CASE Scaled
  <2>1. PICK t \in Fitting : t[1] < width
    BY <1>1 DEF Scaled
  <2>2. ASSUME NEW u \in Fitting
        PROVE  u = t
    <3> DEFINE a == <<1024, 768>>
               b == <<1280, 800>>
               c == <<1366, 768>>
    <3>1. /\ 50 * Distance(1024 * height, 768 * width) < 768 * height
             => ~(50 * Distance(1280 * height, 800 * width) < 800 * height)
          /\ 50 * Distance(1024 * height, 768 * width) < 768 * height
             => ~(50 * Distance(1366 * height, 768 * width) < 768 * height)
          /\ 50 * Distance(1280 * height, 800 * width) < 800 * height
             => ~(50 * Distance(1366 * height, 768 * width) < 768 * height)
      BY DEF Distance
    <3>2. /\ a \in Fitting => 50 * Distance(1024 * height, 768 * width) < 768 * height
          /\ b \in Fitting => 50 * Distance(1280 * height, 800 * width) < 800 * height
          /\ c \in Fitting => 50 * Distance(1366 * height, 768 * width) < 768 * height
      BY DEF Fitting
    <3>3. ~(a \in Fitting /\ b \in Fitting) /\ ~(a \in Fitting /\ c \in Fitting)
          /\ ~(b \in Fitting /\ c \in Fitting)
      BY <3>1, <3>2
    <3>4. u \in {a, b, c} /\ t \in {a, b, c}
      BY <2>1, <2>2 DEF Fitting, Targets
    <3> HIDE DEF a, b, c
    <3> QED
      BY <2>1, <2>2, <3>3, <3>4
  <2>3. (CHOOSE u \in Fitting : TRUE) \in Fitting
    BY <2>1
  <2>4. Target = t
    BY <1>1, <2>2, <2>3 DEF Target
  <2>5. t[1] \in Nat \ {0} /\ t[2] \in Nat \ {0}
    BY <2>1 DEF Fitting, Targets
  <2>6. Target[1] \in Nat \ {0} /\ Target[2] \in Nat \ {0}
    BY <2>4, <2>5
  <2>7. Target[1] < width
    BY <2>1, <2>4
  <2> QED
    BY <2>6, <2>7
<1>2. CASE ~Scaled
  BY <1>2 DEF Target
<1> QED
  BY <1>1, <1>2

LEMMA RoundType ==
    ASSUME NEW n \in Nat, NEW d \in Nat \ {0}, NEW q \in Round(n, d)
    PROVE  q \in Nat /\ 2 * Distance(n, q * d) <= d
<1>1. n \div d \in Nat
  OBVIOUS
<1> QED
  BY <1>1 DEF Round

LEMMA FarApart ==
    ASSUME NEW a \in Nat, NEW b \in Nat, NEW w \in Nat, a < b
    PROVE  a * w + w <= b * w /\ a * w \in Nat /\ b * w \in Nat
<1>1. b - a - 1 \in Nat
  OBVIOUS
<1>2. (b - a - 1) * w \in Nat /\ a * w \in Nat /\ b * w \in Nat
  BY <1>1
<1>3. (b - a - 1) * w = b * w - a * w - w
  OBVIOUS
<1> QED
  BY <1>2, <1>3

(* Along an axis: a coordinate of the display, rounded to the screen and   *)
(* back, is itself again, and on the screen if it was in the display.      *)
LEMMA ThereAndBack ==
    ASSUME NEW x \in Nat, NEW t \in Nat \ {0}, NEW w \in Nat \ {0}, x < t, t <= w,
           NEW p \in Round(x * w, t)
    PROVE  /\ p \in Nat /\ p < w
           /\ \A r \in Round(p * t, w) : r = x
<1>1. x * w \in Nat /\ x * t \in Nat /\ t * w \in Nat
  OBVIOUS
<1>2. p \in Nat /\ 2 * Distance(x * w, p * t) <= t
  BY <1>1, RoundType
<1>3. p * t \in Nat /\ w * t = t * w
  BY <1>2
<1>4. p < w
  <2> SUFFICES ASSUME w <= p
               PROVE  FALSE
    BY <1>2
  <2>1. x * w + w <= t * w
    BY FarApart
  <2>2. w * t <= p * t
    <3>1. CASE w = p
      BY <1>3, <3>1
    <3>2. CASE w < p
      BY <1>2, <1>3, <3>2, FarApart
    <3> QED
      BY <1>2, <3>1, <3>2
  <2>3. x * w + w <= p * t
    BY <1>1, <1>3, <2>1, <2>2
  <2> HIDE <1>3
  <2> DEFINE a == x * w
             b == p * t
  <2>4. a \in Nat /\ b \in Nat /\ a + w <= b /\ 2 * Distance(a, b) <= t
    BY <1>1, <1>2, <1>3, <2>3
  <2> HIDE DEF a, b
  <2> QED
    BY <2>4 DEF Distance
<1>5. ASSUME NEW r \in Round(p * t, w)
      PROVE  r = x
  <2>1. r \in Nat /\ 2 * Distance(p * t, r * w) <= w
    BY <1>3, <1>5, RoundType
  <2>2. r * w \in Nat
    BY <2>1
  <2>3. CASE t < w
    <3>1. r < x => r * w + w <= x * w
      BY <2>1, FarApart
    <3>2. x < r => x * w + w <= r * w
      BY <2>1, FarApart
    <3> DEFINE a == x * w
               b == p * t
               c == r * w
    <3>3. /\ a \in Nat /\ b \in Nat /\ c \in Nat
          /\ 2 * Distance(a, b) <= t /\ 2 * Distance(b, c) <= w
          /\ r < x => c + w <= a
          /\ x < r => a + w <= c
      BY <1>1, <1>2, <1>3, <2>1, <2>2, <3>1, <3>2
    <3> HIDE DEF a, b, c
    <3>4. ~(c + w <= a) /\ ~(a + w <= c)
      BY <2>3, <3>3 DEF Distance
    <3> QED
      BY <2>1, <3>3, <3>4
  <2>4. CASE t = w
    <3>1. ASSUME NEW u \in Nat, NEW v \in Nat, 2 * Distance(u * w, v * w) <= w
          PROVE  u = v
      <4>1. u < v => u * w + w <= v * w
        BY FarApart
      <4>2. v < u => v * w + w <= u * w
        BY FarApart
      <4> DEFINE a == u * w
                 b == v * w
      <4>3. /\ a \in Nat /\ b \in Nat /\ 2 * Distance(a, b) <= w
            /\ u < v => a + w <= b
            /\ v < u => b + w <= a
        BY <3>1, <4>1, <4>2
      <4> HIDE DEF a, b
      <4>4. ~(a + w <= b) /\ ~(b + w <= a)
        BY <4>3 DEF Distance
      <4> QED
        BY <4>3, <4>4
    <3>2. x = p
      BY <1>2, <2>4, <3>1
    <3>3. p = r
      BY <1>2, <2>1, <2>4, <3>1
    <3> QED
      BY <3>2, <3>3
  <2> QED
    BY <2>3, <2>4
<1> QED
  BY <1>2, <1>4, <1>5

-----------------------------------------------------------------------------
LEMMA ScreenSize ==
    ASSUME width \in Widths, height \in Heights
    PROVE  width \in Nat \ {0} /\ height \in Nat \ {0}
BY ScreenAssumption

LEMMA OnScreenType ==
    ASSUME width \in Nat \ {0}, height \in Nat \ {0}, NEW p \in Nat \X Nat
    PROVE  OnScreen(p) \in (0..(width - 1)) \X (0..(height - 1))
BY DEF OnScreen

LEMMA FromApiType ==
    ASSUME width \in Nat \ {0}, height \in Nat \ {0}, NEW x \in Nat, NEW y \in Nat,
           NEW p \in FromApi(x, y)
    PROVE  /\ p \in Nat \X Nat
           /\ p[1] \in Round(x * width, Target[1])
           /\ p[2] \in Round(y * height, Target[2])
<1>1. /\ p[1] \in Round(x * width, Target[1])
      /\ p[2] \in Round(y * height, Target[2])
      /\ p = <<p[1], p[2]>>
  BY DEF FromApi
<1>2. x * width \in Nat /\ y * height \in Nat
  OBVIOUS
<1>3. p[1] \in Nat /\ p[2] \in Nat
  BY <1>1, <1>2, TargetType, RoundType
<1> QED
  BY <1>1, <1>3

LEMMA FromComputerType ==
    ASSUME width \in Nat \ {0}, height \in Nat \ {0}, NEW x \in Nat, NEW y \in Nat,
           NEW r \in FromComputer(x, y)
    PROVE  /\ r \in Nat \X Nat
           /\ r[1] \in Round(x * Target[1], width)
           /\ r[2] \in Round(y * Target[2], height)
<1>1. /\ r[1] \in Round(x * Target[1], width)
      /\ r[2] \in Round(y * Target[2], height)
      /\ r = <<r[1], r[2]>>
  BY DEF FromComputer
<1>2. x * Target[1] \in Nat /\ y * Target[2] \in Nat
  BY TargetType
<1>3. r[1] \in Nat /\ r[2] \in Nat
  BY <1>1, <1>2, RoundType
<1> QED
  BY <1>1, <1>3

LEMMA PointerInit == ComputerInit => PointerInv
<1> SUFFICES ASSUME ComputerInit
             PROVE  PointerInv
  OBVIOUS
<1>1. width \in Nat \ {0} /\ height \in Nat \ {0}
  BY ScreenSize DEF ComputerInit
<1> QED
  BY <1>1 DEF ComputerInit, PointerInv, ComputerTypeOK

LEMMA PointerStep == PointerInv /\ [Next]_vars => PointerInv'
<1> SUFFICES ASSUME PointerInv, [Next]_vars
             PROVE  PointerInv'
  OBVIOUS
<1>1. width \in Nat \ {0} /\ height \in Nat \ {0}
  BY ScreenSize DEF PointerInv
<1>2. Nowhere \notin Nat \X Nat /\ Nowhere \notin Probes \X Probes
  BY DEF Nowhere
<1>3. ASSUME UNCHANGED <<width, height>>
      PROVE  /\ \A p : OnScreen(p)' = OnScreen(p)
             /\ \A x, y : FromApi(x, y)' = FromApi(x, y)
             /\ \A x, y : FromComputer(x, y)' = FromComputer(x, y)
  BY <1>3 DEF OnScreen, FromApi, FromComputer, Target, Scaled, Fitting
<1>4. CASE PointAt
  <2>1. PICK x \in Probes, y \in Probes :
            /\ \E p \in FromApi(x, y) : pointer' = OnScreen(p)
            /\ asked' = <<x, y>>
            /\ reported' = Nowhere
            /\ UNCHANGED <<width, height>>
    BY <1>4 DEF PointAt
  <2>2. x \in Nat /\ y \in Nat
    BY ScreenAssumption
  <2>3. pointer' \in (0..(width - 1)) \X (0..(height - 1))
    BY <1>1, <2>1, <2>2, FromApiType, OnScreenType
  <2>4. ComputerTypeOK'
    BY <2>1, <2>3 DEF ComputerTypeOK
  <2>5. (\E p \in FromApi(asked[1], asked[2]) : pointer = OnScreen(p))'
    <3>1. asked'[1] = x /\ asked'[2] = y
      BY <2>1
    <3>2. FromApi(asked[1], asked[2])' = FromApi(x, y)
      BY <2>1, <3>1 DEF FromApi, Target, Scaled, Fitting
    <3> QED
      BY <1>3, <2>1, <3>2
  <2> QED
    BY <2>1, <2>4, <2>5 DEF PointerInv
<1>5. CASE CursorPosition
  <2>1. /\ reported' \in FromComputer(pointer[1], pointer[2])
        /\ UNCHANGED <<width, height, pointer, asked>>
    BY <1>5 DEF CursorPosition
  <2>2. pointer[1] \in Nat /\ pointer[2] \in Nat
    BY <1>1 DEF PointerInv, ComputerTypeOK
  <2>3. reported' \in Nat \X Nat
    BY <1>1, <2>1, <2>2, FromComputerType
  <2>4. ComputerTypeOK'
    BY <2>1, <2>3 DEF PointerInv, ComputerTypeOK
  <2> QED
    BY <1>3, <2>1, <2>4 DEF PointerInv
<1>6. CASE PersonMoves
  <2>1. PICK x \in Probes, y \in Probes : pointer' = OnScreen(<<x, y>>)
    BY <1>6 DEF PersonMoves
  <2>2. <<x, y>> \in Nat \X Nat
    BY ScreenAssumption
  <2>3. pointer' \in (0..(width - 1)) \X (0..(height - 1))
    BY <1>1, <2>1, <2>2, OnScreenType
  <2>4. /\ asked' = Nowhere /\ reported' = Nowhere
        /\ UNCHANGED <<width, height>>
    BY <1>6 DEF PersonMoves
  <2> QED
    BY <2>3, <2>4 DEF PointerInv, ComputerTypeOK
<1>7. CASE UNCHANGED computerVars
  <2>1. UNCHANGED <<width, height, pointer, asked, reported>>
    BY <1>7 DEF computerVars
  <2> QED
    BY <1>3, <2>1 DEF PointerInv, ComputerTypeOK
<1> QED
  BY <1>4, <1>5, <1>6, <1>7 DEF Next, vars, ComputerNext

(* What the tool reports of a point it was asked for is that point.        *)
LEMMA ReportedWhereAsked == PointerInv => PointerFound
<1> SUFFICES ASSUME PointerInv, reported # Nowhere, asked # Nowhere,
                    asked[1] < Target[1], asked[2] < Target[2], Target[2] <= height
             PROVE  reported = asked
  BY DEF PointerFound
<1>1. /\ width \in Nat \ {0} /\ height \in Nat \ {0}
      /\ Target[1] \in Nat \ {0} /\ Target[2] \in Nat \ {0}
      /\ Target[1] <= width
  <2>1. width \in Nat \ {0} /\ height \in Nat \ {0}
    BY ScreenSize DEF PointerInv
  <2> QED
    BY <2>1, TargetType
<1>2. asked \in Nat \X Nat /\ reported \in Nat \X Nat
  BY ScreenAssumption DEF PointerInv, ComputerTypeOK
<1>3. asked[1] \in Nat /\ asked[2] \in Nat /\ asked = <<asked[1], asked[2]>>
  BY <1>2
<1>4. PICK p \in FromApi(asked[1], asked[2]) : pointer = OnScreen(p)
  BY DEF PointerInv
<1>5. /\ p[1] \in Round(asked[1] * width, Target[1])
      /\ p[2] \in Round(asked[2] * height, Target[2])
  BY <1>1, <1>3, <1>4, FromApiType
<1>6. /\ p[1] \in Nat /\ p[1] < width
      /\ \A r \in Round(p[1] * Target[1], width) : r = asked[1]
  BY <1>1, <1>3, <1>5, ThereAndBack
<1>7. /\ p[2] \in Nat /\ p[2] < height
      /\ \A r \in Round(p[2] * Target[2], height) : r = asked[2]
  BY <1>1, <1>3, <1>5, ThereAndBack
<1>8. pointer[1] = p[1] /\ pointer[2] = p[2]
  BY <1>4, <1>6, <1>7 DEF OnScreen
<1>9. /\ reported[1] \in Round(p[1] * Target[1], width)
      /\ reported[2] \in Round(p[2] * Target[2], height)
  BY <1>1, <1>6, <1>7, <1>8, FromComputerType DEF PointerInv
<1>10. reported = <<reported[1], reported[2]>>
  BY <1>2
<1> QED
  BY <1>3, <1>6, <1>7, <1>9, <1>10

(* Where the model has put the mouse, cursor_position finds it again       *)
(* (computer.py, scale_coordinates), for every screen that is not lower    *)
(* than the display the model is told of and for any rounding of ties.     *)
THEOREM PointerRoundTrip == Spec => []PointerFound
<1>1. Init => PointerInv
  BY PointerInit DEF Init
<1> QED
  BY <1>1, PointerStep, ReportedWhereAsked, PTL DEF Spec

-----------------------------------------------------------------------------
(* f is the sequence of the concatenations of the first i of seqs. *)
Flattens(f, seqs) ==
    f = [i \in 1..Len(seqs) |-> IF i = 1 THEN seqs[i] ELSE f[i - 1] \o seqs[i]]

(* The recursion of FlattenSeq has a solution, built from the first on. *)
LEMMA FlattenExists ==
    ASSUME NEW S, NEW seqs \in Seq(Seq(S)), seqs # <<>>
    PROVE  \E f \in Seq(Seq(S)) : Flattens(f, seqs)
<1> DEFINE At(f, i) == IF i = 1 THEN seqs[i] ELSE f[i - 1] \o seqs[i]
           Upto(f, n) == \A i \in 1..n : f[i] = At(f, i)
           N == Len(seqs)
           good == {n \in Nat : n <= N => \E f \in [1..n -> Seq(S)] : Upto(f, n)}
<1>1. N \in Nat \ {0} /\ \A i \in 1..N : seqs[i] \in Seq(S)
  BY EmptySeq, ElementOfSeq
<1> HIDE DEF N
<1>2. 0 \in good
  <2>1. [i \in 1..0 |-> <<>>] \in [1..0 -> Seq(S)] /\ Upto([i \in 1..0 |-> <<>>], 0)
    OBVIOUS
  <2> QED
    BY <2>1
<1>3. ASSUME NEW n \in Nat, n \in good
      PROVE  n + 1 \in good
  <2> DEFINE m == n + 1
  <2>1. m \in Nat \ {0} /\ n = m - 1
    OBVIOUS
  <2> HIDE DEF m
  <2>2. ASSUME m <= N
        PROVE  \E f \in [1..m -> Seq(S)] : Upto(f, m)
    <3>1. \E g \in [1..n -> Seq(S)] : Upto(g, n)
      <4>1. n <= N
        BY <1>1, <2>1, <2>2
      <4> HIDE DEF Upto
      <4> QED
        BY <1>3, <4>1
    <3>2. PICK g \in [1..n -> Seq(S)] : Upto(g, n)
      BY <3>1
    <3> DEFINE next == At(g, m)
    <3>3. next \in Seq(S)
      <4>1. seqs[m] \in Seq(S) /\ (m # 1 => g[m - 1] \in Seq(S))
        BY <1>1, <2>1, <2>2
      <4> QED
        BY <4>1, ConcatProperties
    <3>4. next = At(g, m)
      OBVIOUS
    <3> HIDE DEF next
    <3> DEFINE f == [i \in 1..m |-> IF i = m THEN next ELSE g[i]]
    <3>5. f \in [1..m -> Seq(S)] /\ f[m] = next /\ \A i \in 1..n : f[i] = g[i]
      BY <2>1, <3>3
    <3> HIDE DEF f
    <3>6. ASSUME NEW i \in 1..m
          PROVE  f[i] = At(f, i)
      <4>1. i # 1 => i - 1 \in 1..n /\ f[i - 1] = g[i - 1]
        BY <2>1, <3>5
      <4>2. At(f, i) = At(g, i)
        BY <4>1
      <4>3. CASE i = m
        BY <3>4, <3>5, <4>2, <4>3
      <4>4. CASE i # m
        <5>1. i \in 1..n
          BY <2>1, <4>4
        <5>2. g[i] = At(g, i) /\ f[i] = g[i]
          BY <3>2, <3>5, <5>1
        <5> QED
          BY <4>2, <5>2
      <4> QED
        BY <4>3, <4>4
    <3> HIDE DEF At
    <3> QED
      BY <3>5, <3>6
  <2> HIDE DEF Upto
  <2> QED
    BY <2>1, <2>2
<1>4. N \in good
  <2> HIDE DEF good
  <2>1. Nat \subseteq good
    BY <1>2, <1>3, NaturalsReached
  <2> QED
    BY <1>1, <2>1
<1>5. PICK f \in [1..N -> Seq(S)] : Upto(f, N)
  <2>1. N <= N
    BY <1>1
  <2> HIDE DEF Upto
  <2> QED
    BY <1>4, <2>1
<1>6. f = [i \in 1..N |-> IF i = 1 THEN seqs[i] ELSE f[i - 1] \o seqs[i]]
  BY <1>5
<1>7. f \in Seq(Seq(S))
  BY <1>1, <1>5
<1> QED
  BY <1>6, <1>7 DEF Flattens, N

(* The recursion of FlattenSeq has a solution, and what it returns is the  *)
(* last element of one.                                                    *)
LEMMA FlattenDefined ==
    ASSUME NEW S, NEW seqs \in Seq(Seq(S)), seqs # <<>>
    PROVE  \E f : Flattens(f, seqs) /\ FlattenSeq(seqs) = f[Len(seqs)]
<1> DEFINE flatten[i \in 1..Len(seqs)] ==
               IF i = 1 THEN seqs[i] ELSE flatten[i - 1] \o seqs[i]
<1>1. Len(seqs) # 0
  BY EmptySeq
<1>2. flatten = [i \in 1..Len(seqs) |-> IF i = 1 THEN seqs[i] ELSE flatten[i - 1] \o seqs[i]]
  <2>1. \E f : f = [i \in 1..Len(seqs) |-> IF i = 1 THEN seqs[i] ELSE f[i - 1] \o seqs[i]]
    <3>1. PICK f \in Seq(Seq(S)) : Flattens(f, seqs)
      BY FlattenExists
    <3> QED
      BY <3>1, Zenon DEF Flattens
  <2> QED
    BY <2>1, Zenon
<1>3. FlattenSeq(seqs) = flatten[Len(seqs)]
  BY <1>1 DEF FlattenSeq
<1> HIDE DEF flatten
<1> QED
  BY <1>2, <1>3 DEF Flattens

(* The sequences lie behind one another in s: ends[k] is where the k-th    *)
(* ends.                                                                   *)
Divided(s, seqs, ends) ==
    /\ ends[0] = 0
    /\ ends[Len(seqs)] = Len(s)
    /\ \A k \in 1..Len(seqs) :
          /\ ends[k] = ends[k - 1] + Len(seqs[k])
          /\ ends[k] <= Len(s)
          /\ \A p \in 1..Len(seqs[k]) : s[ends[k - 1] + p] = seqs[k][p]

(* FlattenSeq puts the sequences behind one another. *)
LEMMA FlattenEnds ==
    ASSUME NEW S, NEW seqs \in Seq(Seq(S)), seqs # <<>>
    PROVE  /\ FlattenSeq(seqs) \in Seq(S)
           /\ \E ends \in [0..Len(seqs) -> Nat] : Divided(FlattenSeq(seqs), seqs, ends)
<1>1. PICK f : Flattens(f, seqs) /\ FlattenSeq(seqs) = f[Len(seqs)]
  BY FlattenDefined
<1> DEFINE N == Len(seqs)
           Pre(k) == IF k = 0 THEN <<>> ELSE f[k]
           Fits(n, k) == /\ Len(Pre(k)) = Len(Pre(k - 1)) + Len(seqs[k])
                         /\ Len(Pre(k)) <= Len(Pre(n))
                         /\ \A p \in 1..Len(seqs[k]) :
                               Pre(n)[Len(Pre(k - 1)) + p] = seqs[k][p]
           Good(n) == /\ \A k \in 0..n : Pre(k) \in Seq(S)
                      /\ \A k \in 1..n : Fits(n, k)
           good == {n \in Nat : n <= N => Good(n)}
<1>2. N \in Nat \ {0} /\ \A i \in 1..N : seqs[i] \in Seq(S) /\ Len(seqs[i]) \in Nat
  BY EmptySeq, ElementOfSeq, LenProperties
<1>3. Pre(0) = <<>>
  OBVIOUS
<1>4. ASSUME NEW k \in 1..N
      PROVE  Pre(k) = Pre(k - 1) \o seqs[k]
  <2>1. f[k] = IF k = 1 THEN seqs[k] ELSE f[k - 1] \o seqs[k]
    <3>1. f = [i \in 1..Len(seqs) |-> IF i = 1 THEN seqs[i] ELSE f[i - 1] \o seqs[i]]
      BY <1>1 DEF Flattens
    <3> DEFINE body == [i \in 1..Len(seqs) |-> IF i = 1 THEN seqs[i] ELSE f[i - 1] \o seqs[i]]
    <3>2. body[k] = IF k = 1 THEN seqs[k] ELSE f[k - 1] \o seqs[k]
      OBVIOUS
    <3> QED
      BY <3>1, <3>2, Zenon
  <2>2. CASE k = 1
    <3>1. Pre(k) = seqs[k] /\ Pre(k - 1) = <<>>
      BY <2>1, <2>2
    <3>2. seqs[k] \in Seq(S)
      BY <1>2
    <3> HIDE DEF Pre
    <3> QED
      BY <3>1, <3>2, ConcatEmptySeq
  <2>3. CASE k # 1
    <3>1. k # 0 /\ k - 1 # 0
      BY <1>2, <2>3
    <3>2. Pre(k) = f[k] /\ Pre(k - 1) = f[k - 1]
      BY <3>1
    <3> HIDE DEF Pre
    <3> QED
      BY <2>1, <2>3, <3>2
  <2> QED
    BY <2>2, <2>3
<1> HIDE DEF N, Pre
<1>5. 0 \in good
  <2>1. Pre(0) \in Seq(S)
    BY <1>3, EmptySeq
  <2>2. (\A k \in 0..0 : k = 0) /\ 1..0 = {}
    OBVIOUS
  <2> HIDE DEF Fits
  <2> QED
    BY <2>1, <2>2
<1>6. ASSUME NEW n \in Nat, n \in good
      PROVE  n + 1 \in good
  <2> DEFINE m == n + 1
  <2>1. m \in Nat \ {0} /\ n = m - 1
    OBVIOUS
  <2> HIDE DEF m
  <2>2. ASSUME m <= N
        PROVE  Good(m)
    <3>1. Good(n) /\ m \in 1..N
      <4>1. n <= N /\ m \in 1..N
        BY <1>2, <2>1, <2>2
      <4> HIDE DEF Good
      <4> QED
        BY <1>6, <4>1
    <3>2. Pre(n) \in Seq(S) /\ Len(Pre(n)) \in Nat /\ seqs[m] \in Seq(S) /\ Len(seqs[m]) \in Nat
      BY <1>2, <3>1, LenProperties
    <3>3. Pre(m) = Pre(n) \o seqs[m]
      BY <1>4, <2>1, <3>1
    <3>4. /\ Pre(m) \in Seq(S)
          /\ Len(Pre(m)) = Len(Pre(n)) + Len(seqs[m])
          /\ \A p \in 1..Len(Pre(n)) : Pre(m)[p] = Pre(n)[p]
          /\ \A p \in 1..Len(seqs[m]) : Pre(m)[Len(Pre(n)) + p] = seqs[m][p]
      BY <3>2, <3>3, ConcatProperties
    <3>5. ASSUME NEW k \in 0..m
          PROVE  Pre(k) \in Seq(S)
      <4>1. k = m \/ k \in 0..n
        BY <2>1
      <4> QED
        BY <3>1, <3>4, <4>1
    <3>6. ASSUME NEW k \in 1..n
          PROVE  Fits(m, k)
      <4>1. Fits(n, k)
        BY <3>1
      <4>2. Pre(k) \in Seq(S) /\ Pre(k - 1) \in Seq(S) /\ k \in 1..N
        <5>1. k \in 0..n /\ k - 1 \in 0..n /\ k \in 1..N
          BY <1>2, <2>1, <3>1
        <5> HIDE DEF Fits
        <5> QED
          BY <3>1, <5>1
      <4>3. Len(Pre(k)) \in Nat /\ Len(Pre(k - 1)) \in Nat /\ Len(seqs[k]) \in Nat
        BY <1>2, <4>2, LenProperties
      <4>4. Len(Pre(k)) <= Len(Pre(m))
        <5>1. Len(Pre(k)) <= Len(Pre(n))
          BY <4>1, Zenon
        <5>2. Len(Pre(m)) = Len(Pre(n)) + Len(seqs[m])
          BY <3>4
        <5> HIDE DEF Fits
        <5> QED
          BY <3>2, <4>3, <5>1, <5>2
      <4>5. ASSUME NEW p \in 1..Len(seqs[k])
            PROVE  Pre(m)[Len(Pre(k - 1)) + p] = seqs[k][p]
        <5>1. Len(Pre(k - 1)) + p \in 1..Len(Pre(n))
          <6>1. /\ Len(Pre(k)) = Len(Pre(k - 1)) + Len(seqs[k])
                /\ Len(Pre(k)) <= Len(Pre(n))
            BY <4>1, Zenon
          <6> DEFINE start == Len(Pre(k - 1))
                     end == Len(Pre(k))
                     all == Len(Pre(n))
                     len == Len(seqs[k])
          <6>2. /\ start \in Nat /\ end \in Nat /\ all \in Nat /\ len \in Nat
                /\ end = start + len /\ end <= all /\ p \in 1..len
            BY <3>2, <4>3, <6>1
          <6> HIDE DEF start, end, all, len
          <6>3. start + p \in 1..all
            BY <6>2
          <6> QED
            BY <6>3 DEF start, all
        <5> QED
          BY <3>4, <4>1, <5>1
      <4> QED
        BY <4>1, <4>4, <4>5
    <3>7. Fits(m, m)
      BY <2>1, <3>2, <3>4
    <3>8. \A k \in 1..m : k \in 1..n \/ k = m
      BY <2>1
    <3> HIDE DEF Fits
    <3> QED
      BY <3>5, <3>6, <3>7, <3>8
  <2> HIDE DEF Good
  <2> QED
    BY <2>1, <2>2
<1>7. Good(N)
  <2> HIDE DEF Good
  <2>1. Nat \subseteq good
    <3> HIDE DEF good
    <3> QED
      BY <1>5, <1>6, NaturalsReached
  <2>2. N \in good /\ N <= N
    BY <1>2, <2>1
  <2> QED
    BY <2>2
<1>8. FlattenSeq(seqs) = Pre(N) /\ Pre(N) \in Seq(S)
  BY <1>1, <1>2, <1>7 DEF Pre, N
<1> DEFINE ends == [k \in 0..N |-> Len(Pre(k))]
<1>9. ends \in [0..N -> Nat]
  BY <1>7, LenProperties
<1>10. Divided(Pre(N), seqs, ends)
  <2>1. ends[0] = 0 /\ ends[N] = Len(Pre(N))
    BY <1>2, <1>3
  <2>2. \A k \in 1..N : ends[k] = Len(Pre(k)) /\ ends[k - 1] = Len(Pre(k - 1)) /\ Fits(N, k)
    <3> HIDE DEF Fits
    <3> QED
      BY <1>2, <1>7
  <2> HIDE DEF ends
  <2> QED
    BY <2>1, <2>2 DEF Divided, N
<1> HIDE DEF ends
<1> QED
  BY <1>8, <1>9, <1>10 DEF N

-----------------------------------------------------------------------------
(* Numbers that ascend step by step ascend. *)
LEMMA AscendsFar ==
    ASSUME NEW n \in Nat, NEW b \in [0..n -> Nat],
           \A k \in 1..n : b[k - 1] < b[k],
           NEW j \in 0..n, NEW k \in 0..n, j < k
    PROVE  b[j] < b[k]
<1> DEFINE far == {d \in Nat : j + d + 1 <= n => b[j] < b[j + d + 1]}
<1>1. 0 \in far
  <2>1. ASSUME j + 1 <= n
        PROVE  b[j] < b[j + 1]
    <3>1. j + 1 \in 1..n /\ (j + 1) - 1 = j
      BY <2>1
    <3> QED
      BY <3>1
  <2> QED
    BY <2>1
<1>2. ASSUME NEW d \in Nat, d \in far
      PROVE  d + 1 \in far
  <2>1. ASSUME j + (d + 1) + 1 <= n
        PROVE  b[j] < b[j + (d + 1) + 1]
    <3>1. /\ j + (d + 1) + 1 \in 1..n /\ (j + (d + 1) + 1) - 1 = j + d + 1
          /\ j + d + 1 \in 0..n /\ j + d + 1 <= n
      BY <2>1
    <3>2. b[j + d + 1] < b[j + (d + 1) + 1] /\ b[j] < b[j + d + 1]
      BY <1>2, <3>1
    <3>3. b[j] \in Nat /\ b[j + d + 1] \in Nat /\ b[j + (d + 1) + 1] \in Nat
      BY <3>1
    <3> QED
      BY <3>2, <3>3
  <2> QED
    BY <2>1
<1>3. Nat \subseteq far
  <2> HIDE DEF far
  <2> QED
    BY <1>1, <1>2, NaturalsReached
<1>4. k - j - 1 \in far /\ j + (k - j - 1) + 1 = k
  <2>1. k - j - 1 \in Nat /\ j + (k - j - 1) + 1 = k
    OBVIOUS
  <2> HIDE DEF far
  <2> QED
    BY <1>3, <2>1
<1> QED
  BY <1>4

(* A place up to the last end lies in one of the sequences. *)
LEMMA PlaceDivided ==
    ASSUME NEW n \in Nat, NEW b \in [0..n -> Nat], NEW p \in Nat, b[0] < p, p <= b[n]
    PROVE  \E k \in 1..n : b[k - 1] < p /\ p <= b[k]
<1> DEFINE over == {k \in 0..n : p <= b[k]}
<1>1. over \in SUBSET Nat /\ IsFiniteSet(over) /\ n \in over
  <2>1. IsFiniteSet(0..n) /\ over \subseteq 0..n /\ n \in over
    BY FS_Interval
  <2> QED
    BY <2>1, FS_Subset
<1>2. PICK k \in over : \A i \in over : k <= i
  <2> HIDE DEF over
  <2> QED
    BY <1>1, LeastElement
<1>3. k \in 0..n /\ k # 0 /\ p <= b[k]
  OBVIOUS
<1>4. k \in 1..n /\ k - 1 \in 0..n
  BY <1>3
<1>5. k - 1 \notin over
  <2> HIDE DEF over
  <2> QED
    BY <1>2, <1>4
<1>6. b[k - 1] < p
  <2>1. b[k - 1] \in Nat /\ ~(p <= b[k - 1])
    BY <1>4, <1>5
  <2> QED
    BY <2>1
<1> QED
  BY <1>3, <1>4, <1>6

Ascends(b, n) == \A k \in 1..n : b[k - 1] < b[k]

(* Numbers that ascend are as many as their places, those below one of     *)
(* them as many as the places before it.                                   *)
LEMMA AscendingImage ==
    ASSUME NEW n \in Nat, NEW b \in [0..n -> Nat], Ascends(b, n), NEW k \in 0..(n + 1)
    PROVE  /\ IsFiniteSet({b[i] : i \in 0..(k - 1)})
           /\ Cardinality({b[i] : i \in 0..(k - 1)}) = k
<1> DEFINE places == 0..(k - 1)
           image == {b[i] : i \in places}
           f == [i \in places |-> b[i]]
<1>1. IsFiniteSet(places) /\ Cardinality(places) = k /\ places \subseteq 0..n
  <2> DEFINE top == k - 1
  <2>1. top \in Int /\ top + 1 = k /\ k \in Nat /\ 0..top \subseteq 0..n
    OBVIOUS
  <2> HIDE DEF top
  <2>2. \A a, c \in Int : IsFiniteSet(a..c) /\ Cardinality(a..c) = IF a > c THEN 0 ELSE c - a + 1
    BY FS_Interval
  <2>3. IsFiniteSet(0..top) /\ Cardinality(0..top) = k
    <3>1. IsFiniteSet(0..top) /\ Cardinality(0..top) = IF 0 > top THEN 0 ELSE top - 0 + 1
      <4>1. 0 \in Int /\ top \in Int
        BY <2>1
      <4> QED
        BY <2>2, <4>1, Zenon
    <3>2. (IF 0 > top THEN 0 ELSE top - 0 + 1) = k
      BY <2>1
    <3> QED
      BY <3>1, <3>2
  <2> QED
    BY <2>1, <2>3 DEF top
<1>2. ASSUME NEW i \in places, NEW j \in places, b[i] = b[j]
      PROVE  i = j
  <2>1. i \in 0..n /\ j \in 0..n /\ b[i] \in Nat
    BY <1>1
  <2>2. ~(i < j) /\ ~(j < i)
    <3>1. i < j => b[i] < b[j]
      BY <2>1, AscendsFar DEF Ascends
    <3>2. j < i => b[j] < b[i]
      BY <2>1, AscendsFar DEF Ascends
    <3> QED
      BY <1>2, <2>1, <3>1, <3>2
  <2> QED
    BY <2>1, <2>2
<1>3. f \in Bijection(places, image)
  <2>1. f \in [places -> image] /\ \A i \in places : f[i] = b[i]
    OBVIOUS
  <2>2. \A t \in image : \E i \in places : f[i] = t
    OBVIOUS
  <2> HIDE DEF f, places, image
  <2>3. f \in Injection(places, image)
    BY <1>2, <2>1 DEF Injection, IsInjective
  <2>4. f \in Surjection(places, image)
    BY <2>1, <2>2 DEF Surjection
  <2> QED
    BY <2>3, <2>4 DEF Bijection
<1>4. ExistsBijection(places, image)
  BY <1>3 DEF ExistsBijection
<1> HIDE DEF places, image
<1>5. IsFiniteSet(image) /\ Cardinality(image) = k
  BY <1>1, <1>4, FS_Bijection
<1> QED
  BY <1>5 DEF image, places

(* The places of line ends, with one before and one behind the text.       *)
Breaks(text) == {i \in 1..Len(text) : text[i] = "nl"} \cup {0, Len(text) + 1}

Breaking(text, b, n) ==
    /\ b \in [0..n -> Nat]
    /\ Ascends(b, n)
    /\ b[0] = 0
    /\ b[n] = Len(text) + 1
    /\ Breaks(text) = {b[k] : k \in 0..n}

LEMMA BreaksFinite ==
    ASSUME NEW S, NEW text \in Seq(S)
    PROVE  /\ Breaks(text) \in SUBSET Nat
           /\ IsFiniteSet(Breaks(text))
           /\ \A i \in Breaks(text) : i <= Len(text) + 1
           /\ 0 \in Breaks(text) /\ Len(text) + 1 \in Breaks(text)
<1>1. Len(text) \in Nat
  BY LenProperties
<1>2. Breaks(text) \subseteq 0..(Len(text) + 1) /\ IsFiniteSet(0..(Len(text) + 1))
  <2>1. \A c \in Int : IsFiniteSet(0..c)
    BY FS_Interval
  <2>2. Len(text) + 1 \in Int
    BY <1>1
  <2> QED
    BY <1>1, <2>1, <2>2 DEF Breaks
<1>3. IsFiniteSet(Breaks(text))
  BY <1>2, FS_Subset
<1> QED
  BY <1>1, <1>2, <1>3 DEF Breaks

(* Any ascending enumeration of the breaks gives the lines. *)
LEMMA LinesByBreaks ==
    ASSUME NEW S, NEW text \in Seq(S), NEW n \in Nat, NEW b, Breaking(text, b, n)
    PROVE  Lines(text) = [k \in 1..n |-> SubSeq(text, b[k - 1] + 1, b[k] - 1)]
<1> DEFINE breaks == Breaks(text)
           At(k) == CHOOSE i \in breaks : Cardinality({j \in breaks : j < i}) = k
<1>1. Cardinality(breaks) = n + 1
  <2>1. n + 1 \in 0..(n + 1) /\ (n + 1) - 1 = n
    OBVIOUS
  <2>2. Cardinality({b[i] : i \in 0..((n + 1) - 1)}) = n + 1
    BY <2>1, AscendingImage DEF Breaking
  <2> QED
    BY <2>1, <2>2 DEF Breaking
<1>2. ASSUME NEW k \in 0..n
      PROVE  Cardinality({j \in breaks : j < b[k]}) = k
  <2>1. {j \in breaks : j < b[k]} = {b[i] : i \in 0..(k - 1)}
    <3>1. b \in [0..n -> Nat] /\ breaks = {b[i] : i \in 0..n}
      BY DEF Breaking
    <3>2. ASSUME NEW i \in 0..n
          PROVE  b[i] < b[k] <=> i < k
      <4>1. i < k => b[i] < b[k]
        BY AscendsFar DEF Breaking, Ascends
      <4>2. k < i => b[k] < b[i]
        BY AscendsFar DEF Breaking, Ascends
      <4>3. b[i] \in Nat /\ b[k] \in Nat
        BY <3>1
      <4> QED
        BY <4>1, <4>2, <4>3
    <3>3. \A i : i \in 0..(k - 1) <=> i \in 0..n /\ i < k
      OBVIOUS
    <3> HIDE DEF breaks
    <3> QED
      BY <3>1, <3>2, <3>3
  <2>2. Cardinality({b[i] : i \in 0..(k - 1)}) = k
    <3>1. k \in 0..(n + 1)
      OBVIOUS
    <3> QED
      BY <3>1, AscendingImage DEF Breaking
  <2> QED
    BY <2>1, <2>2
<1>3. ASSUME NEW k \in 0..n
      PROVE  At(k) = b[k]
  <2>1. b[k] \in breaks /\ breaks = {b[i] : i \in 0..n}
    BY DEF Breaking
  <2>2. ASSUME NEW i \in breaks, Cardinality({j \in breaks : j < i}) = k
        PROVE  i = b[k]
    <3> HIDE DEF breaks
    <3>1. PICK m \in 0..n : i = b[m]
      BY <2>1
    <3>2. Cardinality({j \in breaks : j < b[m]}) = m
      BY <1>2
    <3> QED
      BY <2>2, <3>1, <3>2
  <2>3. Cardinality({j \in breaks : j < b[k]}) = k
    BY <1>2
  <2> HIDE DEF breaks
  <2> QED
    BY <2>1, <2>2, <2>3
<1>4. Lines(text) = [k \in 1..(Cardinality(breaks) - 1) |->
                        SubSeq(text, At(k - 1) + 1, At(k) - 1)]
  BY DEF Lines, Breaks
<1> HIDE DEF breaks, At
<1>5. 1..(Cardinality(breaks) - 1) = 1..n
  BY <1>1
<1>6. \A k \in 1..n : At(k) = b[k] /\ At(k - 1) = b[k - 1]
  BY <1>3
<1> QED
  BY <1>4, <1>5, <1>6

(* There is such an enumeration: the breaks by their ranks. *)
LEMMA BreaksAscend ==
    ASSUME NEW S, NEW text \in Seq(S)
    PROVE  \E n \in Nat \ {0} : \E b : Breaking(text, b, n)
<1> DEFINE breaks == Breaks(text)
           N == Cardinality(breaks)
           b == [r \in 0..(N - 1) |-> CHOOSE e \in breaks : Rank(breaks, e) = r]
<1>1. /\ breaks \in SUBSET Nat /\ IsFiniteSet(breaks)
      /\ \A i \in breaks : i <= Len(text) + 1
      /\ 0 \in breaks /\ Len(text) + 1 \in breaks
      /\ Len(text) \in Nat
  BY BreaksFinite, LenProperties
<1> HIDE DEF breaks
<1>2. /\ N \in Nat
      /\ \A r \in 0..(N - 1) : \E e \in breaks : Rank(breaks, e) = r
      /\ \A e \in breaks : Rank(breaks, e) \in 0..(N - 1)
      /\ \A e, g \in breaks : e < g => Rank(breaks, e) < Rank(breaks, g)
  BY <1>1, RankBijection, RankType, RankAscends, FS_CardinalityType
<1> HIDE DEF N
<1>3. ASSUME NEW r \in 0..(N - 1)
      PROVE  b[r] \in breaks /\ Rank(breaks, b[r]) = r /\ b[r] \in Nat
  <2>1. b[r] = CHOOSE e \in breaks : Rank(breaks, e) = r
    OBVIOUS
  <2> HIDE DEF b
  <2> QED
    BY <1>1, <1>2, <2>1
<1>4. ASSUME NEW e \in breaks
      PROVE  b[Rank(breaks, e)] = e /\ Rank(breaks, e) \in 0..(N - 1)
  <2> DEFINE r == Rank(breaks, e)
  <2>1. r \in 0..(N - 1) /\ b[r] \in breaks /\ Rank(breaks, b[r]) = r
    BY <1>2, <1>3
  <2>2. e \in Nat /\ b[r] \in Nat
    BY <1>1, <2>1
  <2>3. ~(e < b[r]) /\ ~(b[r] < e)
    <3>1. e < b[r] => r < Rank(breaks, b[r])
      BY <1>2, <2>1
    <3>2. b[r] < e => Rank(breaks, b[r]) < r
      BY <1>2, <2>1
    <3> HIDE DEF b, r
    <3> QED
      BY <2>1, <3>1, <3>2
  <2> HIDE DEF b, r
  <2>4. b[r] = e
    BY <2>2, <2>3
  <2> QED
    BY <2>1, <2>4 DEF r
<1>5. N - 1 \in Nat \ {0}
  <2>1. Rank(breaks, 0) < Rank(breaks, Len(text) + 1)
    BY <1>1, <1>2
  <2>2. Rank(breaks, 0) \in 0..(N - 1) /\ Rank(breaks, Len(text) + 1) \in 0..(N - 1)
    BY <1>1, <1>2
  <2> QED
    BY <1>2, <2>1, <2>2
<1>6. b \in [0..(N - 1) -> Nat]
  <2>1. b = [r \in 0..(N - 1) |-> b[r]]
    OBVIOUS
  <2> HIDE DEF b
  <2> QED
    BY <1>3, <2>1
<1> HIDE DEF b
<1>7. Ascends(b, N - 1)
  <2> SUFFICES ASSUME NEW k \in 1..(N - 1)
               PROVE  b[k - 1] < b[k]
    BY DEF Ascends
  <2>1. k \in 0..(N - 1) /\ k - 1 \in 0..(N - 1)
    BY <1>5
  <2>2. /\ b[k] \in breaks /\ Rank(breaks, b[k]) = k
        /\ b[k - 1] \in breaks /\ Rank(breaks, b[k - 1]) = k - 1
        /\ b[k] \in Nat /\ b[k - 1] \in Nat
    BY <1>3, <2>1
  <2>3. ~(b[k] < b[k - 1])
    <3>1. b[k] < b[k - 1] => k < k - 1
      BY <1>2, <2>2
    <3> QED
      BY <3>1
  <2>4. b[k] # b[k - 1]
    BY <2>2
  <2> QED
    BY <2>2, <2>3, <2>4
<1>8. breaks = {b[k] : k \in 0..(N - 1)}
  BY <1>3, <1>4
<1>9. b[0] = 0
  <2>1. Rank(breaks, 0) \in 0..(N - 1) /\ b[Rank(breaks, 0)] = 0
    BY <1>1, <1>4
  <2>2. Rank(breaks, 0) # 0 => b[0] < b[Rank(breaks, 0)]
    <3>1. N - 1 \in Nat /\ 0 \in 0..(N - 1)
      BY <1>5
    <3>2. \A k \in 1..(N - 1) : b[k - 1] < b[k]
      BY <1>7 DEF Ascends
    <3>3. Rank(breaks, 0) # 0 => 0 < Rank(breaks, 0)
      BY <2>1
    <3> QED
      BY <1>6, <2>1, <3>1, <3>2, <3>3, AscendsFar
  <2>3. b[0] \in Nat
    BY <1>5, <1>6
  <2> QED
    BY <2>1, <2>2, <2>3
<1>10. b[N - 1] = Len(text) + 1
  <2> DEFINE last == Rank(breaks, Len(text) + 1)
  <2>1. last \in 0..(N - 1) /\ b[last] = Len(text) + 1
    BY <1>1, <1>4
  <2> HIDE DEF last
  <2>2. last < N - 1 => b[last] < b[N - 1]
    <3>1. N - 1 \in Nat /\ N - 1 \in 0..(N - 1)
      BY <1>5
    <3>2. \A k \in 1..(N - 1) : b[k - 1] < b[k]
      BY <1>7 DEF Ascends
    <3> QED
      BY <1>6, <2>1, <3>1, <3>2, AscendsFar
  <2>3. b[N - 1] \in Nat /\ b[N - 1] <= Len(text) + 1
    <3>1. N - 1 \in 0..(N - 1)
      BY <1>5
    <3> QED
      BY <1>1, <1>3, <3>1
  <2> QED
    BY <1>1, <1>5, <2>1, <2>2, <2>3
<1>11. Breaking(text, b, N - 1)
  BY <1>6, <1>7, <1>8, <1>9, <1>10 DEF Breaking, breaks
<1> QED
  BY <1>5, <1>11

(* The lines of a text: there is one at least, and none has a line end.    *)
LEMMA LinesOfText ==
    ASSUME NEW S, NEW text \in Seq(S)
    PROVE  /\ Lines(text) \in Seq(Seq(S \ {"nl"}))
           /\ Len(Lines(text)) \in Nat \ {0}
           /\ DOMAIN Lines(text) = 1..Len(Lines(text))
<1>a. PICK n \in Nat \ {0} : \E b : Breaking(text, b, n)
  BY BreaksAscend
<1>1. PICK b : Breaking(text, b, n)
  BY <1>a
<1>2. Lines(text) = [k \in 1..n |-> SubSeq(text, b[k - 1] + 1, b[k] - 1)]
  BY <1>1, LinesByBreaks
<1>3. ASSUME NEW k \in 1..n
      PROVE  SubSeq(text, b[k - 1] + 1, b[k] - 1) \in Seq(S \ {"nl"})
  <2>1. /\ k \in 0..n /\ k - 1 \in 0..n /\ b[k] \in Nat /\ b[k - 1] \in Nat
        /\ b[k] \in Breaks(text)
    BY <1>1 DEF Breaking
  <2>2. b[k] <= Len(text) + 1 /\ Len(text) \in Nat
    BY <2>1, BreaksFinite, LenProperties
  <2>3. ASSUME NEW p \in (b[k - 1] + 1)..(b[k] - 1)
        PROVE  text[p] \in S \ {"nl"}
    <3>1. p \in 1..Len(text) /\ b[k - 1] < p /\ p < b[k]
      BY <2>1, <2>2
    <3>2. text[p] \in S
      BY <3>1, ElementOfSeq
    <3>3. p \notin Breaks(text)
      <4>1. SUFFICES ASSUME NEW j \in 0..n, p = b[j]
                     PROVE  FALSE
        BY <1>1 DEF Breaking
      <4>2. j < k - 1 => b[j] < b[k - 1]
        BY <1>1, <2>1, AscendsFar DEF Breaking, Ascends
      <4>3. k < j => b[k] < b[j]
        BY <1>1, <2>1, AscendsFar DEF Breaking, Ascends
      <4>4. j < k - 1 \/ j = k - 1 \/ j = k \/ k < j
        OBVIOUS
      <4> QED
        BY <2>1, <3>1, <4>1, <4>2, <4>3, <4>4
    <3>4. text[p] # "nl"
      BY <3>1, <3>3 DEF Breaks
    <3> QED
      BY <3>2, <3>4
  <2>4. b[k - 1] + 1 \in Int /\ b[k] - 1 \in Int
    BY <2>1
  <2> QED
    BY <2>3, <2>4, SubSeqProperties
<1>4. [k \in 1..n |-> SubSeq(text, b[k - 1] + 1, b[k] - 1)] \in Seq(Seq(S \ {"nl"}))
  BY <1>3
<1>5. Len([k \in 1..n |-> SubSeq(text, b[k - 1] + 1, b[k] - 1)]) = n
  BY <1>1
<1> QED
  BY <1>2, <1>4, <1>5

(* Joined is the inverse of Lines: lines that are joined are the lines of  *)
(* the text.                                                               *)
LEMMA LinesOfJoined ==
    ASSUME NEW S, "nl" \in S, NEW ls \in Seq(Seq(S \ {"nl"})), ls # <<>>
    PROVE  Joined(ls) \in Seq(S) /\ Lines(Joined(ls)) = ls
<1> DEFINE N == Len(ls)
           seqs == [k \in DOMAIN ls |-> <<"nl">> \o ls[k]]
           flat == FlattenSeq(seqs)
           text == Joined(ls)
<1>1. N \in Nat \ {0} /\ DOMAIN ls = 1..N /\ ls = [k \in 1..N |-> ls[k]]
  BY EmptySeq, LenProperties
<1>2. ASSUME NEW k \in 1..N
      PROVE  /\ ls[k] \in Seq(S \ {"nl"}) /\ ls[k] \in Seq(S)
             /\ Len(ls[k]) \in Nat
             /\ \A p \in 1..Len(ls[k]) : ls[k][p] \in S \ {"nl"}
  <2>1. ls[k] \in Seq(S \ {"nl"})
    BY ElementOfSeq
  <2>2. ls[k] \in Seq(S)
    BY <2>1, SeqMonotonic
  <2> QED
    BY <2>1, <2>2, LenProperties, ElementOfSeq
<1>3. ASSUME NEW k \in 1..N
      PROVE  /\ seqs[k] \in Seq(S)
             /\ Len(seqs[k]) = 1 + Len(ls[k])
             /\ seqs[k][1] = "nl"
             /\ \A p \in 1..Len(ls[k]) : seqs[k][p + 1] = ls[k][p]
  <2>1. seqs[k] = <<"nl">> \o ls[k]
    BY <1>1
  <2>2. <<"nl">> \in Seq(S) /\ Len(<<"nl">>) = 1 /\ <<"nl">>[1] = "nl"
    OBVIOUS
  <2>3. ls[k] \in Seq(S) /\ Len(ls[k]) \in Nat
    BY <1>2
  <2> DEFINE s == <<"nl">> \o ls[k]
  <2>4. /\ s \in Seq(S)
        /\ Len(s) = 1 + Len(ls[k])
        /\ \A i \in 1..(1 + Len(ls[k])) : s[i] = IF i <= 1 THEN "nl" ELSE ls[k][i - 1]
    <3> DEFINE nl == <<"nl">>
    <3>1. nl \in Seq(S) /\ Len(nl) = 1 /\ nl[1] = "nl"
      BY <2>2
    <3> HIDE DEF nl
    <3>2. /\ nl \o ls[k] \in Seq(S)
          /\ Len(nl \o ls[k]) = Len(nl) + Len(ls[k])
          /\ \A i \in 1..(Len(nl) + Len(ls[k])) :
                (nl \o ls[k])[i] = IF i <= Len(nl) THEN nl[i] ELSE ls[k][i - Len(nl)]
      BY <2>3, <3>1, ConcatProperties
    <3>3. \A i \in 1..(1 + Len(ls[k])) : i <= 1 => i = 1
      OBVIOUS
    <3>4. s = nl \o ls[k]
      BY DEF nl
    <3> HIDE DEF s
    <3> QED
      BY <3>1, <3>2, <3>3, <3>4
  <2> HIDE DEF s
  <2>5. s[1] = "nl"
    <3>1. 1 \in 1..(1 + Len(ls[k]))
      BY <2>3
    <3> QED
      BY <2>4, <3>1
  <2>6. \A p \in 1..Len(ls[k]) : s[p + 1] = ls[k][p]
    <3> SUFFICES ASSUME NEW p \in 1..Len(ls[k])
                 PROVE  s[p + 1] = ls[k][p]
      OBVIOUS
    <3>1. p + 1 \in 1..(1 + Len(ls[k])) /\ ~(p + 1 <= 1) /\ (p + 1) - 1 = p
      BY <2>3
    <3> QED
      BY <2>4, <3>1
  <2>7. seqs[k] = s
    BY <2>1 DEF s
  <2> HIDE DEF seqs
  <2> QED
    BY <2>4, <2>5, <2>6, <2>7
<1>4. seqs \in Seq(Seq(S)) /\ Len(seqs) = N /\ seqs # <<>>
  <2>1. seqs = [k \in 1..N |-> seqs[k]]
    BY <1>1
  <2> HIDE DEF seqs
  <2>2. seqs \in [1..N -> Seq(S)]
    BY <1>3, <2>1
  <2>3. N \in Nat \ {0}
    BY <1>1
  <2> HIDE DEF N
  <2>4. seqs \in Seq(Seq(S)) /\ Len(seqs) = N
    BY <2>2, <2>3
  <2>5. seqs # <<>>
    BY <2>3, <2>4
  <2> QED
    BY <2>4, <2>5
<1>5. text = Tail(flat)
  BY DEF Joined
<1> HIDE DEF seqs, flat, text
<1>6. flat \in Seq(S)
  BY <1>4, FlattenEnds DEF flat
<1>7. PICK ends \in [0..N -> Nat] : Divided(flat, seqs, ends)
  BY <1>4, FlattenEnds DEF flat
<1> HIDE DEF N
<1>8. ASSUME NEW k \in 1..N
      PROVE  /\ k - 1 \in 0..N /\ ends[k] \in Nat /\ ends[k - 1] \in Nat
             /\ ends[k] = ends[k - 1] + 1 + Len(ls[k])
             /\ ends[k] <= Len(flat)
             /\ flat[ends[k - 1] + 1] = "nl"
             /\ \A p \in 1..Len(ls[k]) : flat[ends[k - 1] + p + 1] = ls[k][p]
  <2>1. k - 1 \in 0..N /\ ends[k] \in Nat /\ ends[k - 1] \in Nat
    BY <1>1, <1>7
  <2>2. /\ ends[k] = ends[k - 1] + Len(seqs[k])
        /\ ends[k] <= Len(flat)
        /\ \A p \in 1..Len(seqs[k]) : flat[ends[k - 1] + p] = seqs[k][p]
    BY <1>4, <1>7 DEF Divided
  <2>3. Len(seqs[k]) = 1 + Len(ls[k]) /\ Len(ls[k]) \in Nat
    BY <1>2, <1>3
  <2>4. flat[ends[k - 1] + 1] = "nl"
    <3>1. 1 \in 1..Len(seqs[k])
      BY <2>3
    <3> QED
      BY <1>3, <2>2, <3>1
  <2>5. ASSUME NEW p \in 1..Len(ls[k])
        PROVE  flat[ends[k - 1] + p + 1] = ls[k][p]
    <3>1. p + 1 \in 1..Len(seqs[k]) /\ ends[k - 1] + (p + 1) = ends[k - 1] + p + 1
      BY <2>1, <2>3, SMTT(30)
    <3>2. flat[ends[k - 1] + (p + 1)] = seqs[k][p + 1] /\ seqs[k][p + 1] = ls[k][p]
      BY <1>3, <2>2, <3>1
    <3> QED
      BY <3>1, <3>2
  <2>6. ends[k] = ends[k - 1] + 1 + Len(ls[k])
    <3>1. ends[k] = ends[k - 1] + Len(seqs[k])
      BY <2>2
    <3> DEFINE start == ends[k - 1]
               end == ends[k]
               all == Len(seqs[k])
               len == Len(ls[k])
    <3>2. start \in Nat /\ len \in Nat /\ all = 1 + len /\ end = start + all
      BY <2>1, <2>3, <3>1
    <3> HIDE DEF start, end, all, len
    <3>3. end = start + 1 + len
      BY <3>2
    <3> QED
      BY <3>3 DEF start, end, len
  <2> QED
    BY <2>1, <2>2, <2>4, <2>5, <2>6
<1>9. ends[0] = 0 /\ ends[N] = Len(flat) /\ Len(flat) \in Nat \ {0}
  <2>1. ends[0] = 0 /\ ends[N] = Len(flat) /\ Len(flat) \in Nat
    BY <1>4, <1>6, <1>7, LenProperties DEF Divided
  <2>2. N \in 1..N
    BY <1>1
  <2>3. ends[N] = ends[N - 1] + 1 + Len(ls[N]) /\ ends[N - 1] \in Nat /\ Len(ls[N]) \in Nat
    BY <1>2, <1>8, <2>2
  <2> QED
    BY <2>1, <2>3
<1>10. /\ text \in Seq(S)
       /\ Len(text) = Len(flat) - 1
       /\ \A i \in 1..Len(text) : text[i] = flat[i + 1]
  <2>1. flat # <<>>
    BY <1>9, EmptySeq
  <2> QED
    BY <1>5, <1>6, <2>1, HeadTailProperties
<1>sizes. Len(flat) \in Nat \ {0} /\ Len(text) = Len(flat) - 1
  BY <1>9, <1>10
<1>11. Ascends(ends, N)
  <2> SUFFICES ASSUME NEW k \in 1..N
               PROVE  ends[k - 1] < ends[k]
    BY DEF Ascends
  <2>1. ends[k] = ends[k - 1] + 1 + Len(ls[k]) /\ ends[k - 1] \in Nat /\ Len(ls[k]) \in Nat
    BY <1>2, <1>8
  <2> QED
    BY <2>1
<1>12. ASSUME NEW k \in 0..N
       PROVE  ends[k] \in Breaks(text)
  <2>1. CASE k = 0 \/ k = N
    BY <1>9, <1>10, <2>1 DEF Breaks
  <2>2. CASE k # 0 /\ k # N
    <3>1. k \in 1..N /\ k + 1 \in 1..N /\ (k + 1) - 1 = k
      BY <1>1, <2>2
    <3>2. /\ ends[k] = ends[k - 1] + 1 + Len(ls[k])
          /\ ends[k - 1] \in Nat /\ Len(ls[k]) \in Nat /\ ends[k] \in Nat
      BY <1>2, <1>8, <3>1
    <3>3. /\ ends[k + 1] = ends[k] + 1 + Len(ls[k + 1])
          /\ ends[k + 1] <= Len(flat) /\ ends[k + 1] \in Nat /\ Len(ls[k + 1]) \in Nat
          /\ flat[ends[k] + 1] = "nl"
      BY <1>2, <1>8, <3>1
    <3>4. ends[k] \in 1..Len(text)
      <4> DEFINE x == ends[k - 1]
                 y == ends[k]
                 z == ends[k + 1]
                 c == Len(ls[k])
                 d == Len(ls[k + 1])
                 size == Len(text)
                 all == Len(flat)
      <4>1. /\ x \in Nat /\ y \in Nat /\ z \in Nat /\ c \in Nat /\ d \in Nat /\ all \in Nat
            /\ y = x + 1 + c /\ z = y + 1 + d /\ z <= all /\ size = all - 1
        BY <1>sizes, <3>2, <3>3
      <4> HIDE DEF x, y, z, c, d, size, all
      <4>2. y \in 1..size
        BY <4>1
      <4> QED
        BY <4>2 DEF y, size
    <3>5. text[ends[k]] = "nl"
      BY <1>10, <3>3, <3>4
    <3> QED
      BY <3>4, <3>5 DEF Breaks
  <2> QED
    BY <2>1, <2>2
<1>13. ASSUME NEW i \in Breaks(text)
       PROVE  \E k \in 0..N : i = ends[k]
  <2>1. CASE i = 0
    <3>1. 0 \in 0..N
      BY <1>1
    <3>2. i = ends[0]
      BY <1>9, <2>1
    <3> QED
      BY <3>1, <3>2
  <2>2. CASE i = Len(text) + 1
    <3>1. Len(text) + 1 = ends[N]
      BY <1>9, <1>10
    <3> QED
      BY <1>1, <2>2, <3>1
  <2>3. CASE i \in 1..Len(text) /\ text[i] = "nl"
    <3> DEFINE q == i + 1
    <3>1. /\ q \in Nat /\ ends[0] < q /\ q <= ends[N] /\ i = q - 1 /\ i \in Nat
          /\ flat[q] = "nl"
      BY <1>9, <1>10, <2>3
    <3> HIDE DEF q
    <3>2. PICK k \in 1..N : ends[k - 1] < q /\ q <= ends[k]
      BY <1>1, <3>1, PlaceDivided
    <3>3. /\ ends[k] = ends[k - 1] + 1 + Len(ls[k])
          /\ ends[k - 1] \in Nat /\ Len(ls[k]) \in Nat
          /\ k - 1 \in 0..N
      BY <1>2, <1>8
    <3> DEFINE p == q - ends[k - 1] - 1
    <3>4. p \in 0..Len(ls[k]) /\ q = ends[k - 1] + p + 1
      BY <3>1, <3>2, <3>3, SMTT(30)
    <3> HIDE DEF p
    <3>5. p = 0
      <4>1. p # 0 => p \in 1..Len(ls[k])
        BY <3>4
      <4>2. p # 0 => flat[q] = ls[k][p] /\ ls[k][p] # "nl"
        BY <1>2, <1>8, <3>4, <4>1
      <4> QED
        BY <3>1, <4>2
    <3>6. i = ends[k - 1]
      BY <3>1, <3>3, <3>4, <3>5
    <3> QED
      BY <3>3, <3>6
  <2> QED
    BY <2>1, <2>2, <2>3 DEF Breaks
<1>14. Breaking(text, ends, N)
  <2>1. Breaks(text) = {ends[k] : k \in 0..N}
    BY <1>12, <1>13
  <2>2. ends[N] = Len(text) + 1
    BY <1>9, <1>10
  <2> QED
    BY <1>7, <1>9, <1>11, <2>1, <2>2 DEF Breaking
<1>15. Lines(text) = [k \in 1..N |-> SubSeq(text, ends[k - 1] + 1, ends[k] - 1)]
  <2>1. \A n \in Nat : \A b : Breaking(text, b, n) =>
            Lines(text) = [k \in 1..n |-> SubSeq(text, b[k - 1] + 1, b[k] - 1)]
    BY <1>10, LinesByBreaks
  <2>2. N \in Nat
    BY <1>1
  <2> QED
    BY <1>14, <2>1, <2>2, Zenon
<1>16. ASSUME NEW k \in 1..N
       PROVE  SubSeq(text, ends[k - 1] + 1, ends[k] - 1) = ls[k]
  <2> DEFINE start == ends[k - 1]
             end == ends[k]
             len == Len(ls[k])
             size == Len(text)
             all == Len(flat)
             line == SubSeq(text, start + 1, end - 1)
  <2>1. /\ start \in Nat /\ end \in Nat /\ len \in Nat /\ all \in Nat /\ size = all - 1
        /\ end = start + 1 + len /\ end <= all
    BY <1>2, <1>8, <1>sizes
  <2>2. /\ \A i \in 1..size : text[i] = flat[i + 1]
        /\ \A p \in 1..len : flat[start + p + 1] = ls[k][p]
    BY <1>8, <1>10
  <2> HIDE DEF start, end, len, size, all
  <2>3. /\ start + 1 \in Int /\ end - 1 \in Int /\ (end - 1) - (start + 1) + 1 = len
        /\ (IF start + 1 <= end - 1 THEN (end - 1) - (start + 1) + 1 ELSE 0) = len
        /\ (start + 1)..(end - 1) \subseteq 1..size
        /\ \A p \in 1..len : (start + 1) + p - 1 = start + p /\ start + p \in 1..size
    BY <2>1
  <2>4. \A i \in (start + 1)..(end - 1) : text[i] \in S
    <3>1. \A i \in 1..size : text[i] \in S
      BY <1>10, ElementOfSeq DEF size
    <3> QED
      BY <2>3, <3>1
  <2>5. /\ line \in Seq(S) /\ Len(line) = len
        /\ \A p \in 1..len : line[p] = text[(start + 1) + p - 1]
    BY <2>3, <2>4, SubSeqProperties, SMTT(30)
  <2> HIDE DEF line
  <2>6. ASSUME NEW p \in 1..len
        PROVE  line[p] = ls[k][p]
    BY <2>2, <2>3, <2>5
  <2>7. line = ls[k]
    <3>1. ls[k] \in Seq(S)
      BY <1>2
    <3> QED
      BY <2>5, <2>6, <3>1, SeqEqual DEF len
  <2> QED
    BY <2>7 DEF line, start, end
<1>17. Lines(text) = ls
  <2>1. Lines(text) = [k \in 1..N |-> ls[k]]
    BY <1>15, <1>16
  <2> QED
    BY <1>1, <2>1
<1> QED
  BY <1>10, <1>17 DEF text

-----------------------------------------------------------------------------
(* Replacements. *)

Plain == Symbols \ {"tab"}

(* expandtabs leaves no tab and, as modelled, the length. *)
LEMMA ExpandPlain ==
    ASSUME NEW text \in Seq(Symbols)
    PROVE  /\ Expand(text) \in Seq(Plain)
           /\ Len(Expand(text)) = Len(text)
<1>1. Len(text) \in Nat /\ DOMAIN text = 1..Len(text)
  BY LenProperties
<1>2. \A i \in 1..Len(text) : text[i] \in Symbols
  BY ElementOfSeq
<1>3. Expand(text) = [i \in 1..Len(text) |-> IF text[i] = "tab" THEN "space" ELSE text[i]]
  BY <1>1 DEF Expand
<1>4. Expand(text) \in [1..Len(text) -> Plain]
  BY <1>2, <1>3 DEF Plain, Symbols
<1> QED
  BY <1>1, <1>4

(* A text without tabs is left as it is. *)
LEMMA PlainExpanded ==
    ASSUME NEW text \in Seq(Plain)
    PROVE  Expand(text) = text
<1>1. Len(text) \in Nat /\ text \in [1..Len(text) -> Plain]
  BY LenProperties
<1>2. DOMAIN text = 1..Len(text) /\ text = [i \in 1..Len(text) |-> text[i]]
  BY <1>1
<1>3. \A i \in 1..Len(text) : text[i] # "tab"
  BY <1>1 DEF Plain
<1> QED
  BY <1>2, <1>3 DEF Expand

LEMMA TextsAreSequences == Texts \subseteq Seq(Symbols)
<1>1. MaxText \in Nat
  BY EditAssumption
<1> QED
  BY <1>1 DEF Texts, SeqOf

(* The next occurrence, and the text from i on after the replacement if    *)
(* only one occurrence is counted.                                         *)
NextAt(text, old, i) ==
    CHOOSE q \in Occurrences(text, old) :
        i <= q /\ \A r \in Occurrences(text, old) : i <= r => q <= r

Rest(text, old, new, i) ==
    IF \E q \in Occurrences(text, old) : i <= q
    THEN LET q == NextAt(text, old, i)
         IN  SubSeq(text, i, q - 1) \o new \o SubSeq(text, q + Len(old), Len(text))
    ELSE SubSeq(text, i, Len(text))

(* If there is a later occurrence then there is a next one. *)
LEMMA NextExists ==
    ASSUME NEW S, NEW text \in Seq(S), NEW old \in Seq(S), NEW i \in Nat,
           \E q \in Occurrences(text, old) : i <= q
    PROVE  /\ NextAt(text, old, i) \in Occurrences(text, old)
           /\ i <= NextAt(text, old, i)
           /\ \A r \in Occurrences(text, old) : i <= r => NextAt(text, old, i) <= r
<1> DEFINE occ == Occurrences(text, old)
           later == {q \in occ : i <= q}
<1>1. Len(text) \in Nat /\ occ \subseteq 1..(Len(text) + 1)
  BY LenProperties DEF Occurrences
<1>2. later \in SUBSET Nat /\ later \subseteq 1..(Len(text) + 1) /\ later # {}
  BY <1>1
<1>3. IsFiniteSet(later)
  <2>1. \A c \in Int : IsFiniteSet(1..c)
    BY FS_Interval
  <2>2. Len(text) + 1 \in Int
    BY <1>1
  <2> HIDE DEF later
  <2> QED
    BY <1>2, <2>1, <2>2, FS_Subset
<1>4. PICK e \in later : \A f \in later : e <= f
  <2> HIDE DEF later
  <2> QED
    BY <1>2, <1>3, LeastElement
<1>5. e \in occ /\ i <= e /\ \A r \in occ : i <= r => e <= r
  BY <1>4
<1> HIDE DEF occ, later
<1>6. NextAt(text, old, i) = CHOOSE q \in occ : i <= q /\ \A r \in occ : i <= r => q <= r
  BY DEF NextAt, occ
<1> QED
  BY <1>5, <1>6 DEF occ

(* An occurrence of a text that is not empty ends in the text. *)
LEMMA OccurrencesFit ==
    ASSUME NEW S, NEW text \in Seq(S), NEW old \in Seq(S), old # <<>>,
           NEW q \in Occurrences(text, old)
    PROVE  /\ q \in 1..Len(text)
           /\ q + Len(old) \in (q + 1)..(Len(text) + 1)
           /\ Len(old) \in Nat \ {0} /\ Len(text) \in Nat
<1>1. Len(old) \in Nat \ {0} /\ Len(text) \in Nat
  BY EmptySeq, LenProperties
<1>2. q \in 1..(Len(text) + 1) /\ q + Len(old) - 1 <= Len(text)
  BY DEF Occurrences, OccursAt
<1> QED
  BY <1>1, <1>2

(* Any part of a sequence is one. *)
LEMMA PartType ==
    ASSUME NEW S, NEW text \in Seq(S), NEW m \in Nat \ {0}, NEW n \in Int, n <= Len(text)
    PROVE  SubSeq(text, m, n) \in Seq(S)
<1>1. \A i \in m..n : text[i] \in S
  <2>1. Len(text) \in Nat
    BY LenProperties
  <2>2. \A i \in m..n : i \in 1..Len(text)
    BY <2>1
  <2> QED
    BY <2>2, ElementOfSeq
<1> QED
  BY <1>1, SubSeqProperties

(* What comes before a text can be taken off its first part. *)
Regroups(h, a, n, c) ==
    \A ha, r, t : ha = h \o a /\ r = ha \o n \o c /\ t = a \o n \o c => r = h \o t

LEMMA ConcatFour ==
    ASSUME NEW S, NEW h \in Seq(S), NEW a \in Seq(S), NEW n \in Seq(S), NEW c \in Seq(S)
    PROVE  Regroups(h, a, n, c)
<1>1. (h \o a) \o n = h \o (a \o n)
  BY ConcatAssociative, SMTT(30)
<1>2. a \o n \in Seq(S)
  BY ConcatProperties
<1>3. (h \o (a \o n)) \o c = h \o ((a \o n) \o c)
  BY <1>2, ConcatAssociative, SMTT(30)
<1> QED
  BY <1>1, <1>3 DEF Regroups

(* Rest takes the steps of str.replace. *)
LEMMA RestSolves ==
    ASSUME NEW S, NEW text \in Seq(S), NEW old \in Seq(S), NEW new \in Seq(S),
           old # <<>>, ~Several(text, old), NEW i \in 1..(Len(text) + 1)
    PROVE  /\ Rest(text, old, new, i) \in Seq(S)
           /\ Rest(text, old, new, i) =
                 IF i > Len(text) THEN <<>>
                 ELSE IF OccursAt(text, old, i) THEN new \o Rest(text, old, new, i + Len(old))
                 ELSE <<text[i]>> \o Rest(text, old, new, i + 1)
<1> DEFINE N == Len(text)
           m == Len(old)
           occ == Occurrences(text, old)
           Rst(j) == Rest(text, old, new, j)
<1>1. N \in Nat /\ m \in Nat \ {0}
  BY EmptySeq, LenProperties
<1>2. \A q \in occ : q \in 1..N /\ q + m \in (q + 1)..(N + 1)
  BY OccurrencesFit
<1>3. i \in occ <=> OccursAt(text, old, i)
  BY DEF Occurrences
<1>4. \A j, q \in occ : j # q => ~(j + m <= q)
  BY DEF Several
<1> HIDE DEF N, m, occ
<1>5. ASSUME NEW j \in Nat, ~(\E q \in occ : j <= q)
      PROVE  Rst(j) = SubSeq(text, j, N)
  BY <1>5 DEF Rest, N, occ
<1>6. ASSUME NEW j \in Nat, \E q \in occ : j <= q
      PROVE  LET q == NextAt(text, old, j)
             IN  /\ Rst(j) = SubSeq(text, j, q - 1) \o new \o SubSeq(text, q + m, N)
                 /\ q \in occ /\ j <= q /\ \A r \in occ : j <= r => q <= r
  <2>1. \E q \in Occurrences(text, old) : j <= q
    BY <1>6 DEF occ
  <2> QED
    BY <2>1, NextExists DEF Rest, N, m, occ
<1> HIDE DEF Rst
<1>7. i \in 1..(N + 1) /\ i \in Nat \ {0}
  BY DEF N
<1>8. \A a \in Nat \ {0}, b \in Int : b <= N => SubSeq(text, a, b) \in Seq(S)
  BY PartType DEF N
<1>9. \A a \in Int, b \in Int : b < a => SubSeq(text, a, b) = <<>>
  BY SubSeqEmpty
<1>10. Rst(i) \in Seq(S)
  <2>1. CASE \E q \in occ : i <= q
    <3> DEFINE q == NextAt(text, old, i)
    <3>1. /\ Rst(i) = SubSeq(text, i, q - 1) \o new \o SubSeq(text, q + m, N)
          /\ q \in occ /\ i <= q
      <4>1. i \in Nat
        BY <1>7
      <4> QED
        BY <1>6, <2>1, <4>1
    <3> HIDE DEF q
    <3>2. q \in 1..N /\ q + m \in (q + 1)..(N + 1)
      BY <1>2, <3>1
    <3>3. q + m \in Nat \ {0} /\ q - 1 \in Int /\ q - 1 <= N /\ N \in Int /\ N <= N
      BY <1>1, <3>2
    <3> DEFINE a == SubSeq(text, i, q - 1)
               c == SubSeq(text, q + m, N)
    <3>4. a \in Seq(S)
      BY <1>7, <1>8, <3>3
    <3>5. c \in Seq(S)
      BY <1>8, <3>3
    <3> HIDE DEF a, c
    <3>6. (a \o new) \o c \in Seq(S)
      BY <3>4, <3>5, ConcatProperties
    <3> QED
      BY <3>1, <3>6 DEF a, c
  <2>2. CASE ~(\E q \in occ : i <= q)
    <3>1. Rst(i) = SubSeq(text, i, N)
      BY <1>5, <1>7, <2>2
    <3>2. N \in Int /\ N <= N
      BY <1>1
    <3> QED
      BY <1>7, <1>8, <3>1, <3>2
  <2> QED
    BY <2>1, <2>2
<1>11. CASE i > N
  <2>1. i = N + 1 /\ ~(\E q \in occ : i <= q)
    BY <1>1, <1>2, <1>7, <1>11
  <2>2. Rst(i) = SubSeq(text, i, N)
    BY <1>5, <1>7, <2>1
  <2>3. SubSeq(text, i, N) = <<>>
    BY <1>1, <1>9, <2>1
  <2> QED
    BY <1>10, <1>11, <2>2, <2>3 DEF Rst, N
<1>12. CASE ~(i > N) /\ i \in occ
  <2> DEFINE q == NextAt(text, old, i)
  <2>1. /\ Rst(i) = SubSeq(text, i, q - 1) \o new \o SubSeq(text, q + m, N)
        /\ q \in occ /\ i <= q /\ q <= i
    <3>1. i \in Nat /\ i <= i /\ \E r \in occ : i <= r
      BY <1>7, <1>12
    <3> QED
      BY <1>6, <1>12, <3>1
  <2> HIDE DEF q
  <2>2. q = i
    BY <1>2, <1>7, <2>1
  <2>3. SubSeq(text, i, q - 1) = <<>>
    BY <1>7, <1>9, <2>2
  <2>4. ~(\E r \in occ : i + m <= r) /\ i + m \in Nat \ {0}
    BY <1>1, <1>2, <1>4, <1>7, <1>12
  <2>5. Rst(i + m) = SubSeq(text, i + m, N)
    BY <1>5, <2>4
  <2>6. <<>> \o new = new
    BY ConcatEmptySeq
  <2>7. Rst(i) = new \o Rst(i + m)
    BY <2>1, <2>2, <2>3, <2>5, <2>6
  <2> QED
    BY <1>3, <1>10, <1>12, <2>7 DEF Rst, N, m
<1>13. CASE ~(i > N) /\ i \notin occ
  <2>1. i \in 1..N /\ i \in Nat /\ i + 1 \in Nat
    BY <1>1, <1>7, <1>13
  <2>2. \A r \in occ : i <= r <=> i + 1 <= r
    BY <1>2, <1>13, <2>1
  <2>3. text[i] \in S /\ <<text[i]>> \in Seq(S)
    BY <2>1, ElementOfSeq DEF N
  <2>4. Rst(i) = <<text[i]>> \o Rst(i + 1)
    <3>1. CASE \E q \in occ : i <= q
      <4> DEFINE q == NextAt(text, old, i)
                 p == NextAt(text, old, i + 1)
      <4>1. /\ Rst(i) = SubSeq(text, i, q - 1) \o new \o SubSeq(text, q + m, N)
            /\ q \in occ /\ i <= q /\ \A r \in occ : i <= r => q <= r
        BY <1>6, <2>1, <3>1
      <4>2. /\ Rst(i + 1) = SubSeq(text, i + 1, p - 1) \o new \o SubSeq(text, p + m, N)
            /\ p \in occ /\ i + 1 <= p /\ \A r \in occ : i + 1 <= r => p <= r
        BY <1>6, <2>1, <2>2, <3>1
      <4> HIDE DEF q, p
      <4>3. p = q /\ q \in 1..N /\ i + 1 <= q
        BY <1>2, <2>2, <4>1, <4>2
      <4> DEFINE a == SubSeq(text, i + 1, q - 1)
                 c == SubSeq(text, q + m, N)
      <4>4. SubSeq(text, i, q - 1) = <<text[i]>> \o a
        <5>1. q - 1 \in i..N
          BY <1>1, <2>1, <4>3
        <5> QED
          BY <2>1, <5>1, SubSeqRecursiveFirst DEF N
      <4>5. a \in Seq(S) /\ c \in Seq(S)
        <5>1. /\ q - 1 \in Int /\ q - 1 <= N /\ i + 1 \in Nat \ {0}
              /\ q + m \in Nat \ {0} /\ N \in Int /\ N <= N
          BY <1>1, <2>1, <4>3
        <5>2. a \in Seq(S)
          BY <1>8, <5>1
        <5>3. c \in Seq(S)
          BY <1>8, <5>1
        <5> QED
          BY <5>2, <5>3
      <4> HIDE DEF a, c
      <4> DEFINE head == <<text[i]>>
      <4>6. head \in Seq(S)
        BY <2>3
      <4> HIDE DEF head
      <4>7. /\ SubSeq(text, i, q - 1) = head \o a
            /\ Rst(i) = SubSeq(text, i, q - 1) \o new \o c
            /\ Rst(i + 1) = a \o new \o c
        BY <4>1, <4>2, <4>3, <4>4 DEF a, c, head
      <4>8. Rst(i) = head \o Rst(i + 1)
        <5> DEFINE b == SubSeq(text, i, q - 1)
                   r == Rst(i)
                   t == Rst(i + 1)
        <5>1. b = head \o a /\ r = b \o new \o c /\ t = a \o new \o c
          BY <4>7
        <5>2. a \in Seq(S)
          BY <4>5
        <5>3. c \in Seq(S)
          BY <4>5
        <5>4. new \in Seq(S)
          OBVIOUS
        <5>5. Regroups(head, a, new, c)
          BY <4>6, <5>2, <5>3, <5>4, ConcatFour, Zenon
        <5> HIDE DEF b, r, t
        <5>6. r = head \o t
          BY <5>1, <5>5, Zenon DEF Regroups
        <5> QED
          BY <5>6 DEF r, t
      <4> QED
        BY <4>8 DEF head
    <3>2. CASE ~(\E q \in occ : i <= q)
      <4>1. Rst(i) = SubSeq(text, i, N)
        BY <1>5, <2>1, <3>2
      <4>2. Rst(i + 1) = SubSeq(text, i + 1, N)
        BY <1>5, <2>1, <2>2, <3>2
      <4>3. SubSeq(text, i, N) = <<text[i]>> \o SubSeq(text, i + 1, N)
        <5>1. N \in i..N
          BY <1>1, <2>1
        <5> QED
          BY <2>1, <5>1, SubSeqRecursiveFirst DEF N
      <4> QED
        BY <4>1, <4>2, <4>3
    <3> QED
      BY <3>1, <3>2
  <2> QED
    BY <1>3, <1>10, <1>13, <2>4 DEF Rst, N
<1> QED
  BY <1>11, <1>12, <1>13

(* f is the replaced text from each place on, as str.replace recurses.     *)
Replaces(f, text, old, new) ==
    f = [i \in 1..(Len(text) + 1) |->
            IF i > Len(text) THEN <<>>
            ELSE IF OccursAt(text, old, i) THEN new \o f[i + Len(old)]
            ELSE <<text[i]>> \o f[i + 1]]

(* The recursion of Replaced has a solution, Rest, and its result is that  *)
(* of one.                                                                 *)
LEMMA ReplacedSolves ==
    ASSUME NEW S, NEW text \in Seq(S), NEW old \in Seq(S), NEW new \in Seq(S),
           old # <<>>, ~Several(text, old)
    PROVE  \E f : Replaces(f, text, old, new) /\ Replaced(text, old, new) = f[1]
<1> DEFINE from[i \in 1..(Len(text) + 1)] ==
               IF i > Len(text) THEN <<>>
               ELSE IF OccursAt(text, old, i) THEN new \o from[i + Len(old)]
               ELSE <<text[i]>> \o from[i + 1]
<1>1. \E f : Replaces(f, text, old, new)
  <2> DEFINE D == 1..(Len(text) + 1)
             f == [i \in D |-> Rest(text, old, new, i)]
  <2>1. ASSUME NEW i \in D
        PROVE  f[i] = IF i > Len(text) THEN <<>>
                      ELSE IF OccursAt(text, old, i) THEN new \o f[i + Len(old)]
                      ELSE <<text[i]>> \o f[i + 1]
    <3>1. i > Len(text) \/ i + 1 \in D
      BY LenProperties
    <3>2. OccursAt(text, old, i) => i + Len(old) \in D
      <4>1. OccursAt(text, old, i) => i \in Occurrences(text, old)
        BY DEF Occurrences
      <4>2. \A q \in Occurrences(text, old) : q + Len(old) \in D
        <5> SUFFICES ASSUME NEW q \in Occurrences(text, old)
                     PROVE  q + Len(old) \in D
          OBVIOUS
        <5>1. /\ q \in 1..Len(text) /\ Len(text) \in Nat
              /\ q + Len(old) \in (q + 1)..(Len(text) + 1)
          BY OccurrencesFit
        <5> QED
          BY <5>1
      <4> QED
        BY <4>1, <4>2
    <3>3. \A j \in D : f[j] = Rest(text, old, new, j)
      OBVIOUS
    <3>4. Rest(text, old, new, i) =
              IF i > Len(text) THEN <<>>
              ELSE IF OccursAt(text, old, i) THEN new \o Rest(text, old, new, i + Len(old))
              ELSE <<text[i]>> \o Rest(text, old, new, i + 1)
      BY RestSolves
    <3> HIDE DEF f, D
    <3> QED
      BY <3>1, <3>2, <3>3, <3>4
  <2>2. f = [i \in D |-> f[i]]
    OBVIOUS
  <2> HIDE DEF f
  <2>3. Replaces(f, text, old, new)
    BY <2>1, <2>2 DEF Replaces
  <2> QED
    BY <2>3
<1>2. from = [i \in 1..(Len(text) + 1) |->
                 IF i > Len(text) THEN <<>>
                 ELSE IF OccursAt(text, old, i) THEN new \o from[i + Len(old)]
                 ELSE <<text[i]>> \o from[i + 1]]
  BY <1>1, Zenon DEF Replaces
<1>3. Replaced(text, old, new) = from[1]
  BY DEF Replaced
<1> HIDE DEF from
<1> QED
  BY <1>2, <1>3 DEF Replaces

(* The recursion has no other solution: it only goes up, so there would be *)
(* a last place at which another one differs.                              *)
LEMMA ReplacedIsRest ==
    ASSUME NEW S, NEW text \in Seq(S), NEW old \in Seq(S), NEW new \in Seq(S),
           old # <<>>, ~Several(text, old)
    PROVE  Replaced(text, old, new) = Rest(text, old, new, 1)
<1> DEFINE N == Len(text)
           Rst(i) == Rest(text, old, new, i)
<1>1. PICK f : Replaces(f, text, old, new) /\ Replaced(text, old, new) = f[1]
  BY ReplacedSolves
<1> DEFINE other == {i \in 1..(N + 1) : f[i] # Rst(i)}
<1>2. N \in Nat
  BY LenProperties
<1>3. ASSUME NEW e \in other, \A i \in other : i <= e
      PROVE  FALSE
  <2>1. e \in 1..(N + 1) /\ f[e] # Rst(e)
    OBVIOUS
  <2>2. \A i \in 1..(N + 1) : e < i => f[i] = Rst(i)
    <3> SUFFICES ASSUME NEW i \in 1..(N + 1), e < i, f[i] # Rst(i)
                 PROVE  FALSE
      OBVIOUS
    <3>1. i <= e
      BY <1>3
    <3> HIDE DEF N
    <3> QED
      BY <1>2, <2>1, <3>1
  <2>3. f[e] = IF e > N THEN <<>>
               ELSE IF OccursAt(text, old, e) THEN new \o f[e + Len(old)]
               ELSE <<text[e]>> \o f[e + 1]
    BY <1>1, <2>1 DEF Replaces
  <2>4. Rst(e) = IF e > N THEN <<>>
                 ELSE IF OccursAt(text, old, e) THEN new \o Rst(e + Len(old))
                 ELSE <<text[e]>> \o Rst(e + 1)
    BY <2>1, RestSolves
  <2>5. CASE OccursAt(text, old, e)
    <3>1. e \in Occurrences(text, old)
      BY <2>1, <2>5 DEF Occurrences
    <3>2. e + Len(old) \in (e + 1)..(N + 1) /\ Len(old) \in Nat
      BY <3>1, OccurrencesFit
    <3> HIDE DEF N
    <3>3. e + Len(old) \in 1..(N + 1) /\ e < e + Len(old)
      BY <1>2, <2>1, <3>2
    <3>4. f[e + Len(old)] = Rst(e + Len(old))
      BY <2>2, <3>3
    <3> HIDE DEF Rst
    <3> QED
      BY <2>1, <2>3, <2>4, <2>5, <3>4
  <2>6. CASE ~OccursAt(text, old, e)
    <3> HIDE DEF N
    <3>1. e > N \/ (e + 1 \in 1..(N + 1) /\ e < e + 1)
      BY <1>2, <2>1
    <3>2. e > N \/ f[e + 1] = Rst(e + 1)
      BY <2>2, <3>1
    <3> HIDE DEF Rst
    <3> QED
      BY <2>1, <2>3, <2>4, <2>6, <3>2
  <2> QED
    BY <2>5, <2>6
<1>4. other \in SUBSET Nat /\ IsFiniteSet(other)
  <2>1. other \subseteq 1..(N + 1) /\ other \in SUBSET Nat
    OBVIOUS
  <2>2. \A c \in Int : IsFiniteSet(1..c)
    BY FS_Interval
  <2> HIDE DEF other, N
  <2>3. N + 1 \in Int
    BY <1>2
  <2> QED
    BY <2>1, <2>2, <2>3, FS_Subset
<1>5. other = {}
  <2> HIDE DEF other
  <2> QED
    BY <1>3, <1>4, GreatestElement
<1>6. 1 \in 1..(N + 1)
  BY <1>2
<1> QED
  BY <1>1, <1>5, <1>6

(* The replacement of the only text that str.count counts is made at its   *)
(* first occurrence.                                                       *)
LEMMA ReplacedInPlace ==
    ASSUME NEW S, NEW text \in Seq(S), NEW old \in Seq(S), NEW new \in Seq(S),
           Occurrences(text, old) # {}, ~Several(text, old)
    PROVE  LET first == CHOOSE i \in Occurrences(text, old) :
                            \A j \in Occurrences(text, old) : i <= j
           IN  /\ first \in 1..(Len(text) + 1) /\ OccursAt(text, old, first)
               /\ Replaced(text, old, new) = ReplaceSubSeqAt(first, new, old, text)
               /\ Replaced(text, old, new) \in Seq(S)
<1> DEFINE N == Len(text)
           occ == Occurrences(text, old)
           first == CHOOSE i \in occ : \A j \in occ : i <= j
           next == NextAt(text, old, 1)
<1>1. N \in Nat /\ 1 \in 1..(N + 1) /\ \A q \in occ : q \in Nat /\ 1 <= q
  BY LenProperties DEF Occurrences
<1>2. next \in occ /\ \A r \in occ : next <= r
  <2>1. \E q \in occ : 1 <= q
    BY <1>1
  <2> QED
    BY <1>1, <2>1, NextExists
<1> HIDE DEF occ, next
<1>3. first \in occ /\ \A j \in occ : first <= j
  BY <1>2
<1>4. first = next
  <2> HIDE DEF first
  <2> QED
    BY <1>1, <1>2, <1>3
<1>5. first \in 1..(N + 1) /\ OccursAt(text, old, first)
  BY <1>3 DEF occ, Occurrences
<1>6. /\ Replaced(text, old, new) = ReplaceSubSeqAt(first, new, old, text)
      /\ Replaced(text, old, new) \in Seq(S)
  <2>1. CASE old = <<>>
    <3>1. Len(old) = 0
      BY <2>1
    <3>2. 1 \in occ
      <4>1. SubSeq(text, 1, 0) = <<>>
        BY SubSeqEmpty
      <4> QED
        BY <1>1, <2>1, <3>1, <4>1 DEF occ, Occurrences, OccursAt
    <3>3. first = 1
      <4> HIDE DEF first
      <4> QED
        BY <1>1, <1>3, <3>2
    <3>4. SubSeq(text, 1, 1 - 1) = <<>> /\ SubSeq(text, 1 + 0, Len(text)) = text
      BY SubSeqEmpty, SubSeqFull
    <3>5. ReplaceSubSeqAt(1, new, old, text) = (<<>> \o new) \o text
      BY <3>1, <3>4 DEF ReplaceSubSeqAt
    <3>6. <<>> \o new = new /\ new \o text \in Seq(S)
      BY ConcatEmptySeq, ConcatProperties
    <3>7. Replaced(text, old, new) = new \o text
      BY <2>1 DEF Replaced
    <3> HIDE DEF first
    <3> QED
      BY <3>3, <3>5, <3>6, <3>7
  <2>2. CASE old # <<>>
    <3>1. Replaced(text, old, new) = Rest(text, old, new, 1) /\ Rest(text, old, new, 1) \in Seq(S)
      BY <1>1, <2>2, ReplacedIsRest, RestSolves DEF N
    <3>2. Rest(text, old, new, 1) =
              SubSeq(text, 1, next - 1) \o new \o SubSeq(text, next + Len(old), Len(text))
      BY <1>1, <1>2 DEF Rest, occ, next
    <3> HIDE DEF first
    <3> QED
      BY <1>4, <3>1, <3>2 DEF ReplaceSubSeqAt
  <2> QED
    BY <2>1, <2>2
<1> QED
  BY <1>5, <1>6 DEF occ, N

-----------------------------------------------------------------------------
(* Snippets. *)

(* The lines shown are those of all lines after the first d. *)
ShownFrom(part, lines, d) ==
    \A k \in DOMAIN part : d + k \in DOMAIN lines /\ part[k] = lines[d + k]

(* The snippet of a replacement, and of a view. *)
LEMMA SliceOfLines ==
    ASSUME NEW Q, NEW lines \in Seq(Q), NEW n \in Nat, n <= Len(lines), NEW d \in Nat
    PROVE  /\ Below(Above(lines, n), d) \in Seq(Q)
           /\ ShownFrom(Below(Above(lines, n), d), lines, d)
<1> DEFINE upto == SubSeq(lines, 1, n)
           part == SubSeq(upto, d + 1, n)
<1>1. Len(lines) \in Nat /\ DOMAIN lines = 1..Len(lines)
  BY LenProperties
<1>2. \A i \in 1..n : lines[i] \in Q
  <2>1. \A i \in 1..n : i \in 1..Len(lines)
    BY <1>1
  <2> QED
    BY <2>1, ElementOfSeq
<1>3. /\ upto \in Seq(Q) /\ Len(upto) = n
      /\ \A i \in 1..n : upto[i] = lines[i]
  <2>1. /\ upto \in Seq(Q)
        /\ Len(upto) = IF 1 <= n THEN n - 1 + 1 ELSE 0
        /\ \A i \in 1..(n - 1 + 1) : upto[i] = lines[1 + i - 1]
    BY <1>2, SubSeqProperties
  <2>2. n - 1 + 1 = n /\ \A i \in 1..n : 1 + i - 1 = i
    OBVIOUS
  <2> HIDE DEF upto
  <2> QED
    BY <2>1, <2>2
<1>4. Below(Above(lines, n), d) = part
  BY <1>3 DEF Above, Below
<1> HIDE DEF upto
<1>5. \A i \in (d + 1)..n : upto[i] \in Q
  BY <1>2, <1>3
<1>6. /\ part \in Seq(Q)
      /\ Len(part) = IF d + 1 <= n THEN n - (d + 1) + 1 ELSE 0
      /\ \A k \in 1..(n - (d + 1) + 1) : part[k] = upto[(d + 1) + k - 1]
  BY <1>5, SubSeqProperties
<1>7. DOMAIN part = 1..Len(part)
  BY <1>6, LenProperties
<1> HIDE DEF part
<1>8. ASSUME NEW k \in DOMAIN part
      PROVE  d + k \in DOMAIN lines /\ part[k] = lines[d + k]
  <2>1. k \in 1..(n - (d + 1) + 1) /\ d + k \in 1..n /\ (d + 1) + k - 1 = d + k
    <3> DEFINE l == Len(part)
    <3>1. l = (IF d + 1 <= n THEN n - (d + 1) + 1 ELSE 0) /\ k \in 1..l
      BY <1>6, <1>7
    <3> HIDE DEF l
    <3> QED
      BY <3>1
  <2> QED
    BY <1>1, <1>3, <1>6, <2>1
<1> QED
  BY <1>4, <1>6, <1>8 DEF ShownFrom

(* The snippet of an insertion shows the file after the insertion. *)
LEMMA SliceOfInserted ==
    ASSUME NEW Q, NEW above \in Seq(Q), NEW new \in Seq(Q), NEW below \in Seq(Q),
           NEW d \in 0..Len(above), NEW n \in 0..Len(below)
    PROVE  /\ Below(above, d) \o new \o Above(below, n) \in Seq(Q)
           /\ ShownFrom(Below(above, d) \o new \o Above(below, n), above \o new \o below, d)
<1> DEFINE A == Len(above)
           B == Len(below)
           W == Len(new)
           last == Below(above, d)
           start == Above(below, n)
           all == above \o new \o below
           part == last \o new \o start
<1>1. A \in Nat /\ B \in Nat /\ W \in Nat /\ d \in Nat /\ d <= A /\ n \in Nat /\ n <= B
  BY LenProperties
<1>2. /\ last \in Seq(Q) /\ Len(last) = A - d
      /\ \A i \in 1..(A - d) : last[i] = above[d + i]
  <2>1. \A i \in (d + 1)..A : above[i] \in Q
    <3>1. \A i \in (d + 1)..A : i \in 1..Len(above)
      BY <1>1
    <3> QED
      BY <3>1, ElementOfSeq
  <2>2. d + 1 \in Int /\ A \in Int
    BY <1>1
  <2> HIDE DEF A
  <2>3. /\ SubSeq(above, d + 1, A) \in Seq(Q)
        /\ Len(SubSeq(above, d + 1, A)) = IF d + 1 <= A THEN A - (d + 1) + 1 ELSE 0
        /\ \A i \in 1..(A - (d + 1) + 1) : SubSeq(above, d + 1, A)[i] = above[(d + 1) + i - 1]
    BY <2>1, <2>2, SubSeqProperties, SMTT(30)
  <2>4. last = SubSeq(above, d + 1, A)
    BY DEF Below, A
  <2> HIDE DEF last
  <2>5. /\ (IF d + 1 <= A THEN A - (d + 1) + 1 ELSE 0) = A - d
        /\ A - (d + 1) + 1 = A - d
        /\ \A i \in Int : (d + 1) + i - 1 = d + i
    BY <1>1
  <2> QED
    BY <2>3, <2>4, <2>5
<1>3. /\ start \in Seq(Q) /\ Len(start) = n
      /\ \A i \in 1..n : start[i] = below[i]
  <2>1. \A i \in 1..n : below[i] \in Q
    <3>1. \A i \in 1..n : i \in 1..Len(below)
      BY <1>1
    <3> QED
      BY <3>1, ElementOfSeq
  <2>2. /\ SubSeq(below, 1, n) \in Seq(Q)
        /\ Len(SubSeq(below, 1, n)) = IF 1 <= n THEN n - 1 + 1 ELSE 0
        /\ \A i \in 1..(n - 1 + 1) : SubSeq(below, 1, n)[i] = below[1 + i - 1]
    BY <1>1, <2>1, SubSeqProperties
  <2>3. start = SubSeq(below, 1, n)
    BY DEF Above
  <2> HIDE DEF start
  <2>4. /\ (IF 1 <= n THEN n - 1 + 1 ELSE 0) = n
        /\ n - 1 + 1 = n
        /\ \A i \in Int : 1 + i - 1 = i
    BY <1>1
  <2> QED
    BY <2>2, <2>3, <2>4
<1> HIDE DEF last, start
<1> DEFINE an == above \o new
           ln == last \o new
<1>4. /\ an \in Seq(Q) /\ Len(an) = A + W
      /\ \A i \in 1..(A + W) : an[i] = IF i <= A THEN above[i] ELSE new[i - A]
  BY ConcatProperties
<1>5. /\ ln \in Seq(Q) /\ Len(ln) = Len(last) + W
      /\ \A i \in 1..(Len(last) + W) : ln[i] = IF i <= Len(last) THEN last[i] ELSE new[i - Len(last)]
  BY <1>2, ConcatProperties
<1>6. all = an \o below /\ part = ln \o start
  OBVIOUS
<1> HIDE DEF an, ln
<1>7. /\ Len(an \o below) = Len(an) + B
      /\ (an \o below) \in Seq(Q)
      /\ \A i \in 1..(Len(an) + B) :
            (an \o below)[i] = IF i <= Len(an) THEN an[i] ELSE below[i - Len(an)]
  <2>1. an \in Seq(Q)
    BY <1>4
  <2> QED
    BY <2>1, ConcatProperties
<1>8. /\ Len(ln \o start) = Len(ln) + Len(start)
      /\ (ln \o start) \in Seq(Q)
      /\ \A i \in 1..(Len(ln) + Len(start)) :
            (ln \o start)[i] = IF i <= Len(ln) THEN ln[i] ELSE start[i - Len(ln)]
  <2>1. ln \in Seq(Q)
    BY <1>5
  <2>2. start \in Seq(Q)
    BY <1>3
  <2> QED
    BY <2>1, <2>2, ConcatProperties
<1>9. /\ DOMAIN (an \o below) = 1..Len(an \o below)
      /\ DOMAIN (ln \o start) = 1..Len(ln \o start)
  BY <1>7, <1>8, LenProperties
<1> DEFINE a == an \o below
           p == ln \o start
<1>10. /\ all = a /\ part = p
       /\ a \in Seq(Q) /\ p \in Seq(Q)
       /\ DOMAIN a = 1..(A + W + B) /\ DOMAIN p = 1..(A - d + W + n)
       /\ \A i \in 1..(A + W + B) : a[i] = IF i <= A + W THEN an[i] ELSE below[i - (A + W)]
       /\ \A i \in 1..(A - d + W + n) : p[i] = IF i <= A - d + W THEN ln[i] ELSE start[i - (A - d + W)]
  BY <1>2, <1>3, <1>4, <1>5, <1>6, <1>7, <1>8, <1>9
<1>11. \A i \in 1..(A - d + W) : ln[i] = IF i <= A - d THEN last[i] ELSE new[i - (A - d)]
  BY <1>2, <1>5
<1> HIDE DEF a, p, all, part, A, B, W
<1>12. ASSUME NEW k \in DOMAIN p
       PROVE  d + k \in DOMAIN a /\ p[k] = a[d + k]
  <2>1. k \in 1..(A - d + W + n) /\ d + k \in 1..(A + W + B)
    BY <1>1, <1>10
  <2>2. CASE k <= A - d
    <3>1. /\ k \in 1..(A - d) /\ k \in 1..(A - d + W) /\ k <= A - d + W
          /\ d + k <= A /\ d + k <= A + W /\ d + k \in 1..(A + W)
      BY <1>1, <2>1, <2>2
    <3>2. p[k] = above[d + k]
      BY <1>2, <1>10, <1>11, <2>1, <2>2, <3>1
    <3>3. a[d + k] = above[d + k]
      BY <1>4, <1>10, <2>1, <3>1
    <3> QED
      BY <1>10, <2>1, <3>2, <3>3
  <2>3. CASE ~(k <= A - d) /\ k <= A - d + W
    <3>1. /\ k \in 1..(A - d + W)
          /\ ~(d + k <= A) /\ d + k <= A + W /\ d + k \in 1..(A + W)
          /\ (d + k) - A = k - (A - d)
      BY <1>1, <2>1, <2>3
    <3>2. p[k] = new[k - (A - d)]
      BY <1>10, <1>11, <2>1, <2>3, <3>1
    <3>3. a[d + k] = new[(d + k) - A]
      BY <1>4, <1>10, <2>1, <3>1
    <3> QED
      BY <1>10, <2>1, <3>1, <3>2, <3>3
  <2>4. CASE ~(k <= A - d + W)
    <3>1. /\ ~(d + k <= A + W) /\ k - (A - d + W) \in 1..n
          /\ (d + k) - (A + W) = k - (A - d + W)
      BY <1>1, <2>1, <2>4
    <3>2. p[k] = below[k - (A - d + W)]
      BY <1>3, <1>10, <2>1, <2>4, <3>1
    <3>3. a[d + k] = below[(d + k) - (A + W)]
      BY <1>10, <2>1, <3>1
    <3> QED
      BY <1>10, <2>1, <3>1, <3>2, <3>3
  <2> QED
    BY <2>2, <2>3, <2>4
<1> QED
  BY <1>10, <1>12 DEF all, part, last, start, ShownFrom

-----------------------------------------------------------------------------
(* An output shows the file as it is, until the next step shows it anew.   *)
EditInv == EditTypeOK /\ LinesNumbered

LEMMA PartsOfSymbols ==
    /\ Seq(Plain) \subseteq Seq(Symbols)
    /\ Seq(Seq(Plain \ {"nl"})) \subseteq Seq(Seq(Symbols))
    /\ Seq(Seq(Symbols \ {"nl"})) \subseteq Seq(Seq(Symbols))
    /\ "nl" \in Plain
<1>1. Plain \subseteq Symbols /\ "nl" \in Plain
  BY DEF Plain, Symbols
<1>2. \A S, T : S \subseteq T => Seq(S) \subseteq Seq(T)
  BY SeqMonotonic
<1>3. /\ Seq(Plain) \subseteq Seq(Symbols)
      /\ Seq(Plain \ {"nl"}) \subseteq Seq(Symbols)
      /\ Seq(Symbols \ {"nl"}) \subseteq Seq(Symbols)
  <2>1. Plain \ {"nl"} \subseteq Symbols /\ Symbols \ {"nl"} \subseteq Symbols
    BY <1>1
  <2> QED
    BY <1>1, <1>2, <2>1
<1> QED
  BY <1>1, <1>2, <1>3

(* Lines without tabs that are in the file are shown as they are.          *)
LEMMA ShownAsTheyAre ==
    ASSUME NEW text \in Seq(Plain), NEW first \in Nat, NEW d \in Nat, first = d + 1,
           NEW lines \in Seq(Seq(Plain \ {"nl"})),
           ShownFrom(lines, Lines(text), d)
    PROVE  /\ lines \in Seq(Seq(Symbols))
           /\ \A k \in DOMAIN lines :
                 /\ first + k - 1 \in DOMAIN Lines(text)
                 /\ lines[k] = Expand(Lines(text)[first + k - 1])
<1>1. lines \in Seq(Seq(Symbols))
  BY PartsOfSymbols
<1>2. ASSUME NEW k \in DOMAIN lines
      PROVE  /\ first + k - 1 \in DOMAIN Lines(text)
             /\ lines[k] = Expand(Lines(text)[first + k - 1])
  <2>1. DOMAIN lines = 1..Len(lines) /\ Len(lines) \in Nat
    BY LenProperties
  <2>2. first + k - 1 = d + k
    BY <2>1
  <2>3. lines[k] \in Seq(Plain \ {"nl"})
    BY <2>1, ElementOfSeq
  <2>4. lines[k] \in Seq(Plain)
    <3>1. Plain \ {"nl"} \subseteq Plain
      OBVIOUS
    <3> QED
      BY <2>3, <3>1, SeqMonotonic
  <2>5. Expand(lines[k]) = lines[k]
    BY <2>4, PlainExpanded
  <2> QED
    BY <2>2, <2>5 DEF ShownFrom
<1> QED
  BY <1>1, <1>2

LEMMA EditStart == EditInit => EditInv
<1> SUFFICES ASSUME EditInit
             PROVE  EditInv
  OBVIOUS
<1>1. file = <<>> /\ shown = Nothing /\ exists = FALSE
  BY DEF EditInit
<1>2. EditTypeOK
  <2>1. MaxFile \in Nat
    BY EditAssumption
  <2>2. /\ <<>> \in Seq(Symbols) /\ <<>> \in Seq(Seq(Symbols))
        /\ Len(<<>>) = 0
    BY EmptySeq
  <2>3. file \in Seq(Symbols) /\ Len(file) <= MaxFile
    BY <1>1, <2>1, <2>2
  <2>4. shown.first \in Nat /\ shown.lines \in Seq(Seq(Symbols))
    BY <1>1, <2>2 DEF Nothing
  <2> QED
    BY <1>1, <2>3, <2>4 DEF EditTypeOK
<1>3. LinesNumbered
  BY <1>1 DEF LinesNumbered, Nothing
<1> QED
  BY <1>2, <1>3 DEF EditInv

LEMMA CreateEdit == ASSUME EditInv, Create PROVE EditInv'
<1>1. PICK text \in Texts : Write(text)
  BY DEF Create
<1>2. exists' = TRUE /\ file' = text /\ Len(text) <= MaxFile /\ shown' = Nothing
  BY <1>1 DEF Create, Write
<1>3. EditTypeOK'
  BY <1>2, TextsAreSequences DEF EditTypeOK, Nothing
<1>4. LinesNumbered'
  BY <1>2 DEF LinesNumbered, Nothing
<1> QED
  BY <1>3, <1>4 DEF EditInv

(* What a replacement does to the file.                                    *)
Replacement(o, n) ==
    LET old == Expand(o)
        new == Expand(n)
        text == Expand(file)
        first == CHOOSE i \in Occurrences(text, old) :
                    \A j \in Occurrences(text, old) : i <= j
    IN  /\ Write(Replaced(text, old, new))
        /\ shown' = IF old = <<>> THEN Nothing
                    ELSE ReplaceSnippet(file', SubSeq(text, 1, first - 1), new)
        /\ edit' = [old |-> old, new |-> new, done |-> TRUE]
        /\ first \in 1..(Len(text) + 1) /\ OccursAt(text, old, first)
        /\ file' = ReplaceSubSeqAt(first, new, old, text)
        /\ file' \in Seq(Plain) /\ Len(file') <= MaxFile /\ exists'
        /\ text \in Seq(Plain) /\ new \in Seq(Plain)

LEMMA ReplacesOnce ==
    ASSUME EditInv, StrReplace
    PROVE  \E o, n \in Texts : Replacement(o, n)
<1>1. PICK o \in Texts, n \in Texts :
          LET old == Expand(o)
              new == Expand(n)
              text == Expand(file)
              first == CHOOSE i \in Occurrences(text, old) :
                          \A j \in Occurrences(text, old) : i <= j
          IN  /\ Occurrences(text, old) # {}
              /\ ~Several(text, old)
              /\ Write(Replaced(text, old, new))
              /\ shown' = IF old = <<>> THEN Nothing
                          ELSE ReplaceSnippet(file', SubSeq(text, 1, first - 1), new)
              /\ edit' = [old |-> old, new |-> new, done |-> TRUE]
  BY DEF StrReplace
<1> DEFINE old == Expand(o)
           new == Expand(n)
           text == Expand(file)
           first == CHOOSE i \in Occurrences(text, old) :
                       \A j \in Occurrences(text, old) : i <= j
<1>2. old \in Seq(Plain) /\ new \in Seq(Plain) /\ text \in Seq(Plain)
  <2>1. o \in Seq(Symbols) /\ n \in Seq(Symbols) /\ file \in Seq(Symbols)
    BY TextsAreSequences DEF EditInv, EditTypeOK
  <2> QED
    BY <2>1, ExpandPlain
<1>3. /\ Occurrences(text, old) # {} /\ ~Several(text, old)
      /\ Write(Replaced(text, old, new))
      /\ shown' = IF old = <<>> THEN Nothing
                  ELSE ReplaceSnippet(file', SubSeq(text, 1, first - 1), new)
      /\ edit' = [old |-> old, new |-> new, done |-> TRUE]
  BY <1>1
<1>4. file' = Replaced(text, old, new) /\ Len(file') <= MaxFile /\ exists'
  BY <1>3 DEF Write
<1> HIDE DEF old, new, text
<1>5. /\ first \in 1..(Len(text) + 1) /\ OccursAt(text, old, first)
      /\ Replaced(text, old, new) = ReplaceSubSeqAt(first, new, old, text)
      /\ Replaced(text, old, new) \in Seq(Plain)
  BY <1>2, <1>3, ReplacedInPlace
<1> QED
  BY <1>2, <1>3, <1>4, <1>5 DEF Replacement, old, new, text

(* The snippet of a replacement is taken from the file that was written. *)
LEMMA StrReplaceEdit == ASSUME EditInv, StrReplace PROVE EditInv'
<1>1. PICK o \in Texts, n \in Texts : Replacement(o, n)
  BY ReplacesOnce
<1> DEFINE old == Expand(o)
           new == Expand(n)
           text == Expand(file)
           first == CHOOSE i \in Occurrences(text, old) :
                       \A j \in Occurrences(text, old) : i <= j
           before == SubSeq(text, 1, first - 1)
<1>2. /\ first \in 1..(Len(text) + 1)
      /\ file' \in Seq(Plain) /\ Len(file') <= MaxFile /\ exists'
      /\ text \in Seq(Plain) /\ new \in Seq(Plain)
      /\ shown' = IF old = <<>> THEN Nothing ELSE ReplaceSnippet(file', before, new)
      /\ exists' = TRUE
  BY <1>1 DEF Replacement, Write
<1> HIDE DEF old, new, text, first
<1>3. before \in Seq(Plain)
  <2>1. first - 1 \in Int /\ first - 1 <= Len(text)
    BY <1>2, LenProperties
  <2> QED
    BY <1>2, <2>1, PartType
<1>4. CASE old = <<>>
  BY <1>2, <1>4, PartsOfSymbols DEF EditInv, EditTypeOK, LinesNumbered, Nothing
<1>5. CASE old # <<>>
  <2> DEFINE line == Len(Lines(before)) - 1
             start == AtLeast(0, line - SnippetLines)
             end == line + SnippetLines + Len(Lines(new))
             upto == AtMost(Len(Lines(file')), end)
             lines == Below(Above(Lines(file'), upto), start)
  <2>1. shown' = [first |-> start + 1, lines |-> lines]
    BY <1>2, <1>5 DEF ReplaceSnippet
  <2>2. /\ line \in Nat /\ SnippetLines \in Nat
        /\ Len(Lines(new)) \in Nat /\ Len(Lines(file')) \in Nat
        /\ Lines(file') \in Seq(Seq(Plain \ {"nl"}))
    <3> HIDE DEF before
    <3>1. /\ Len(Lines(before)) \in Nat \ {0}
          /\ Len(Lines(new)) \in Nat \ {0} /\ Len(Lines(file')) \in Nat \ {0}
          /\ Lines(file') \in Seq(Seq(Plain \ {"nl"}))
      BY <1>2, <1>3, LinesOfText
    <3> QED
      BY <3>1, EditAssumption
  <2>3. start \in Nat /\ upto \in Nat /\ upto <= Len(Lines(file'))
    <3> DEFINE l == Len(Lines(file'))
               w == Len(Lines(new))
    <3>1. l \in Nat /\ w \in Nat
      BY <2>2
    <3> HIDE DEF l, w, line
    <3>2. start \in Nat /\ line + SnippetLines + w \in Nat
      BY <2>2, <3>1 DEF AtLeast
    <3>3. AtMost(l, line + SnippetLines + w) \in Nat /\ AtMost(l, line + SnippetLines + w) <= l
      BY <3>1, <3>2 DEF AtMost
    <3> QED
      BY <3>2, <3>3 DEF l, w
  <2> HIDE DEF start, upto
  <2>4. lines \in Seq(Seq(Plain \ {"nl"})) /\ ShownFrom(lines, Lines(file'), start)
    BY <2>2, <2>3, SliceOfLines
  <2> HIDE DEF lines
  <2>5. /\ lines \in Seq(Seq(Symbols))
        /\ \A k \in DOMAIN lines :
              /\ (start + 1) + k - 1 \in DOMAIN Lines(file')
              /\ lines[k] = Expand(Lines(file')[(start + 1) + k - 1])
    <3>1. start + 1 \in Nat
      BY <2>3
    <3> QED
      BY <1>2, <2>3, <2>4, <3>1, ShownAsTheyAre
  <2>6. EditTypeOK'
    BY <1>2, <2>1, <2>3, <2>5, PartsOfSymbols DEF EditTypeOK
  <2>7. LinesNumbered'
    BY <2>1, <2>5 DEF LinesNumbered
  <2> QED
    BY <2>6, <2>7 DEF EditInv
<1> QED
  BY <1>4, <1>5

(* The snippet of an insertion is put together from the lines that were    *)
(* joined.                                                                 *)
LEMMA InsertEdit == ASSUME EditInv, Insert PROVE EditInv'
<1> DEFINE Q == Seq(Plain \ {"nl"})
           old == Lines(Expand(file))
<1>1. PICK n \in Texts, line \in 0..Len(old) :
          LET new == Lines(Expand(n))
              above == Above(old, line)
              below == Below(old, line)
          IN  /\ Write(Joined(above \o new \o below))
              /\ shown' = [first |-> FirstInserted(line),
                           lines |-> Below(above, AtLeast(0, line - SnippetLines))
                                       \o new
                                       \o Above(below, AtMost(Len(below), SnippetLines))]
  BY DEF Insert
<1> DEFINE new == Lines(Expand(n))
           above == Above(old, line)
           below == Below(old, line)
           all == above \o new \o below
           d == AtLeast(0, line - SnippetLines)
           rest == AtMost(Len(below), SnippetLines)
           part == Below(above, d) \o new \o Above(below, rest)
<1>2. /\ exists' = TRUE /\ file' = Joined(all) /\ Len(file') <= MaxFile
      /\ shown' = [first |-> FirstInserted(line), lines |-> part]
  BY <1>1 DEF Write
<1>3. /\ old \in Seq(Q) /\ Len(old) \in Nat \ {0}
      /\ new \in Seq(Q) /\ Len(new) \in Nat \ {0}
  <2>1. n \in Seq(Symbols) /\ file \in Seq(Symbols)
    BY TextsAreSequences DEF EditInv, EditTypeOK
  <2>2. Expand(n) \in Seq(Plain) /\ Expand(file) \in Seq(Plain)
    BY <2>1, ExpandPlain
  <2> QED
    BY <2>2, LinesOfText
<1> HIDE DEF old, new
<1>4. line \in Nat /\ line <= Len(old) /\ SnippetLines \in Nat \ {0}
  BY <1>3, EditAssumption
<1>5. above \in Seq(Q) /\ Len(above) = line
  <2> HIDE DEF Q
  <2>1. \A i \in 1..line : old[i] \in Q
    <3>1. \A i \in 1..line : i \in 1..Len(old)
      BY <1>3, <1>4
    <3> QED
      BY <1>3, <3>1, ElementOfSeq
  <2>2. /\ SubSeq(old, 1, line) \in Seq(Q)
        /\ Len(SubSeq(old, 1, line)) = IF 1 <= line THEN line - 1 + 1 ELSE 0
    BY <1>4, <2>1, SubSeqProperties
  <2>3. (IF 1 <= line THEN line - 1 + 1 ELSE 0) = line
    BY <1>4
  <2> QED
    BY <2>2, <2>3 DEF Above
<1>6. below \in Seq(Q) /\ Len(below) \in Nat
  <2> HIDE DEF Q
  <2>1. line + 1 \in Nat \ {0} /\ Len(old) \in Int /\ Len(old) <= Len(old)
    BY <1>3, <1>4
  <2>2. SubSeq(old, line + 1, Len(old)) \in Seq(Q)
    BY <1>3, <2>1, PartType
  <2> QED
    BY <2>2, LenProperties DEF Below
<1> HIDE DEF above, below
<1>7. d \in 0..Len(above) /\ d \in Nat /\ rest \in 0..Len(below)
  <2> DEFINE b == Len(below)
  <2>1. b \in Nat
    BY <1>6
  <2> HIDE DEF b
  <2>2. AtMost(b, SnippetLines) \in 0..b
    BY <1>4, <2>1 DEF AtMost
  <2>3. d \in 0..line
    BY <1>4 DEF AtLeast
  <2> QED
    BY <1>5, <2>2, <2>3 DEF b
<1>8. FirstInserted(line) = d + 1 /\ d + 1 \in Nat
  <2>1. d \in Nat
    BY <1>7
  <2> QED
    BY <1>4, <2>1 DEF FirstInserted, AtLeast
<1> HIDE DEF d, rest
<1>9. part \in Seq(Q) /\ ShownFrom(part, all, d)
  <2> HIDE DEF Q
  <2> QED
    BY <1>3, <1>5, <1>6, <1>7, SliceOfInserted
<1>10. all \in Seq(Q) /\ all # <<>>
  <2> HIDE DEF Q
  <2> DEFINE an == above \o new
  <2>1. an \in Seq(Q) /\ Len(an) = Len(above) + Len(new)
    BY <1>3, <1>5, ConcatProperties
  <2>2. all = an \o below
    OBVIOUS
  <2> HIDE DEF an, all
  <2>3. Len(an) \in Nat \ {0}
    BY <1>3, <1>4, <1>5, <2>1
  <2>4. an \o below \in Seq(Q) /\ Len(an \o below) = Len(an) + Len(below)
    BY <1>6, <2>1, ConcatProperties
  <2>5. Len(all) # 0
    <3> DEFINE a == Len(an)
               b == Len(below)
    <3>1. a \in Nat \ {0} /\ b \in Nat /\ Len(all) = a + b
      BY <1>6, <2>2, <2>3, <2>4
    <3> HIDE DEF a, b
    <3> QED
      BY <3>1
  <2>6. all # <<>>
    <3>1. Len(<<>>) = 0
      OBVIOUS
    <3> QED
      BY <2>5, <3>1
  <2> QED
    BY <2>2, <2>4, <2>6
<1> HIDE DEF all, part
<1>11. Joined(all) \in Seq(Plain) /\ Lines(Joined(all)) = all
  BY <1>10, LinesOfJoined, PartsOfSymbols
<1>12. /\ part \in Seq(Seq(Symbols))
       /\ \A k \in DOMAIN part :
             /\ (d + 1) + k - 1 \in DOMAIN Lines(Joined(all))
             /\ part[k] = Expand(Lines(Joined(all))[(d + 1) + k - 1])
  <2> DEFINE text == Joined(all)
             first == d + 1
  <2>1. /\ text \in Seq(Plain) /\ first = d + 1 /\ first \in Nat /\ d \in Nat
        /\ part \in Seq(Seq(Plain \ {"nl"}))
        /\ ShownFrom(part, Lines(text), d)
    BY <1>7, <1>8, <1>9, <1>11
  <2> HIDE DEF text, first
  <2>2. /\ part \in Seq(Seq(Symbols))
        /\ \A k \in DOMAIN part :
              /\ first + k - 1 \in DOMAIN Lines(text)
              /\ part[k] = Expand(Lines(text)[first + k - 1])
    BY <2>1, ShownAsTheyAre
  <2> QED
    BY <2>2 DEF text, first
<1>13. EditTypeOK'
  BY <1>2, <1>8, <1>11, <1>12, PartsOfSymbols DEF EditTypeOK
<1>14. LinesNumbered'
  BY <1>2, <1>8, <1>12 DEF LinesNumbered
<1> QED
  BY <1>13, <1>14 DEF EditInv

(* A view shows a range of the lines of the file. *)
LEMMA ViewEdit == ASSUME EditInv, View PROVE EditInv'
<1> DEFINE lines == Lines(file)
           expanded == [k \in DOMAIN lines |-> Expand(lines[k])]
<1>1. PICK from \in DOMAIN lines, to \in {-1} \cup DOMAIN lines :
          shown' = [first |-> from,
                    lines |-> Below(Above(expanded, IF to = -1 THEN Len(lines) ELSE to), from - 1)]
  BY DEF View
<1>2. UNCHANGED <<exists, file>>
  BY DEF View
<1> DEFINE upto == IF to = -1 THEN Len(lines) ELSE to
           d == from - 1
           part == Below(Above(expanded, upto), d)
<1>3. file \in Seq(Symbols) /\ Len(file) <= MaxFile /\ exists \in BOOLEAN
  BY DEF EditInv, EditTypeOK
<1>4. /\ lines \in Seq(Seq(Symbols)) /\ Len(lines) \in Nat \ {0}
      /\ DOMAIN lines = 1..Len(lines)
  BY <1>3, LinesOfText, PartsOfSymbols
<1> HIDE DEF lines
<1>5. expanded \in Seq(Seq(Symbols)) /\ Len(expanded) = Len(lines) /\ DOMAIN expanded = DOMAIN lines
  <2>1. \A k \in 1..Len(lines) : Expand(lines[k]) \in Seq(Symbols)
    <3>1. \A k \in 1..Len(lines) : lines[k] \in Seq(Symbols)
      BY <1>4, ElementOfSeq
    <3> QED
      BY <3>1, ExpandPlain, PartsOfSymbols
  <2>2. expanded = [k \in 1..Len(lines) |-> Expand(lines[k])]
    BY <1>4
  <2>3. expanded \in [1..Len(lines) -> Seq(Symbols)]
    BY <2>1, <2>2
  <2>4. DOMAIN expanded = DOMAIN lines
    OBVIOUS
  <2> DEFINE l == Len(lines)
  <2>5. l \in Nat /\ expanded \in [1..l -> Seq(Symbols)] /\ DOMAIN expanded = 1..l
    BY <1>4, <2>3, <2>4
  <2> HIDE DEF expanded, l
  <2>6. expanded \in Seq(Seq(Symbols)) /\ Len(expanded) = l
    BY <2>5
  <2> QED
    BY <2>4, <2>6 DEF l
<1>6. \A k \in DOMAIN lines : expanded[k] = Expand(lines[k])
  OBVIOUS
<1> HIDE DEF expanded
<1>7. /\ upto \in Nat /\ upto <= Len(expanded)
      /\ d \in Nat /\ from = d + 1 /\ from \in Nat
  BY <1>4, <1>5
<1>8. shown' = [first |-> from, lines |-> part]
  BY <1>1
<1> HIDE DEF upto, d
<1>9. part \in Seq(Seq(Symbols)) /\ ShownFrom(part, expanded, d)
  BY <1>5, <1>7, SliceOfLines
<1> HIDE DEF part
<1>10. ASSUME NEW k \in DOMAIN part
       PROVE  from + k - 1 \in DOMAIN lines /\ part[k] = Expand(lines[from + k - 1])
  <2>1. k \in Nat
    BY <1>9, LenProperties
  <2>2. from + k - 1 = d + k
    BY <1>7, <2>1
  <2>3. d + k \in DOMAIN lines /\ part[k] = expanded[d + k]
    BY <1>5, <1>9 DEF ShownFrom
  <2> QED
    BY <1>6, <2>2, <2>3
<1>11. EditTypeOK'
  BY <1>2, <1>3, <1>7, <1>8, <1>9 DEF EditTypeOK
<1>12. LinesNumbered'
  <2>1. Lines(file)' = lines
    BY <1>2 DEF lines
  <2>2. shown'.lines = part /\ shown'.first = from /\ file' = file
    BY <1>2, <1>8
  <2> QED
    BY <1>10, <2>2 DEF LinesNumbered, lines
<1> QED
  BY <1>11, <1>12 DEF EditInv

LEMMA EditStep == EditInv /\ [Next]_vars => EditInv'
<1> SUFFICES ASSUME EditInv, [Next]_vars
             PROVE  EditInv'
  OBVIOUS
<1>1. CASE EditNext
  BY <1>1, CreateEdit, StrReplaceEdit, InsertEdit, ViewEdit DEF EditNext
<1>2. CASE UNCHANGED editVars
  BY <1>2 DEF editVars, EditInv, EditTypeOK, LinesNumbered
<1> QED
  BY <1>1, <1>2 DEF Next, vars

(* The only step that reports a replacement is str_replace, which makes    *)
(* one.                                                                    *)
LEMMA ReplaceStep ==
    EditInv /\ [Next]_vars =>
        [ edit'.done =>
              \E i \in 1..(Len(file) + 1) :
                  /\ OccursAt(Expand(file), edit'.old, i)
                  /\ file' = ReplaceSubSeqAt(i, edit'.new, edit'.old, Expand(file)) ]_editVars
<1> SUFFICES ASSUME EditInv, [Next]_vars, editVars' # editVars, edit'.done
             PROVE  \E i \in 1..(Len(file) + 1) :
                        /\ OccursAt(Expand(file), edit'.old, i)
                        /\ file' = ReplaceSubSeqAt(i, edit'.new, edit'.old, Expand(file))
  OBVIOUS
<1>1. StrReplace
  <2>1. EditNext
    BY DEF Next, vars
  <2>2. edit' # NoEdit
    BY DEF NoEdit
  <2> QED
    BY <2>1, <2>2 DEF EditNext, Create, Insert, View
<1>2. PICK o \in Texts, n \in Texts : Replacement(o, n)
  BY <1>1, ReplacesOnce
<1> DEFINE text == Expand(file)
           first == CHOOSE i \in Occurrences(text, Expand(o)) :
                       \A j \in Occurrences(text, Expand(o)) : i <= j
<1>3. /\ first \in 1..(Len(text) + 1)
      /\ OccursAt(text, Expand(o), first)
      /\ file' = ReplaceSubSeqAt(first, Expand(n), Expand(o), text)
      /\ edit' = [old |-> Expand(o), new |-> Expand(n), done |-> TRUE]
  BY <1>2 DEF Replacement
<1>4. Len(text) = Len(file)
  BY ExpandPlain DEF EditInv, EditTypeOK
<1>5. edit'.old = Expand(o) /\ edit'.new = Expand(n)
  BY <1>3
<1> HIDE DEF text, first
<1> QED
  BY <1>3, <1>4, <1>5 DEF text

(* The line numbers of an output are those of the file, at each of its     *)
(* ends too (edit.py: str_replace counts the line ends before the text     *)
(* that is replaced, insert those above the line, view takes a range): the *)
(* lines below a change are taken from the text that was written.          *)
THEOREM LinesAreNumbered == Spec => []LinesNumbered
<1>1. Init => EditInv
  BY EditStart DEF Init
<1>2. EditInv => LinesNumbered
  BY DEF EditInv
<1> QED
  BY <1>1, <1>2, EditStep, PTL DEF Spec

(* A replacement changes one place only (edit.py, str_replace: count,      *)
(* which does not count occurrences that overlap, refuses a second one;    *)
(* replace then replaces what count has counted).                          *)
THEOREM ReplacesOnePlace == Spec => OnePlaceReplaced
<1>1. Init => EditInv
  BY EditStart DEF Init
<1> QED
  BY <1>1, EditStep, ReplaceStep, PTL DEF Spec, OnePlaceReplaced

(* The state of each of the tools keeps its type (tools/collection.py runs *)
(* one call at a time).                                                    *)
THEOREM ToolsTypes == Spec => []TypeOK
<1>1. Init => ShellInv /\ EditInv /\ PointerInv
  BY ShellInit, EditStart, PointerInit DEF Init
<1>2. ShellInv /\ EditInv /\ PointerInv => TypeOK
  BY DEF ShellInv, EditInv, PointerInv, TypeOK
<1> QED
  BY <1>1, <1>2, ShellStep, EditStep, PointerStep, PTL DEF Spec
=============================================================================
