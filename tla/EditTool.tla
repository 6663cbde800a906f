------------------------------ MODULE EditTool ------------------------------
(***************************************************************************)
(* The demo's edit tool (computer_use_demo/tools/edit.py) and one file: a  *)
(* text is a sequence of symbols.  Tabs expand to spaces, here one for     *)
(* each; the refusals of validate_path are guards.                         *)
(***************************************************************************)
EXTENDS Integers, FiniteSets, SequencesExt

CONSTANTS MaxText,      \* bound: symbols in an argument
          MaxFile,      \* bound: symbols in the file
          SnippetLines  \* SNIPPET_LINES, 4 in the code

ASSUME EditAssumption == {MaxText, MaxFile, SnippetLines} \subseteq Nat \ {0}

VARIABLES exists, file, \* the file
          shown,        \* numbered lines of the last output: first number, lines
          edit          \* history: texts of the edit that gave the output

editVars == <<exists, file, shown, edit>>

Symbols == {"x", "space", "tab", "nl"}
Texts == SeqOf(Symbols, MaxText)

Nothing == [first |-> 1, lines |-> <<>>]
NoEdit == [old |-> <<>>, new |-> <<>>, done |-> FALSE]

EditInit == exists = FALSE /\ file = <<>> /\ shown = Nothing /\ edit = NoEdit

(* expandtabs *)
Expand(text) == [i \in DOMAIN text |-> IF text[i] = "tab" THEN "space" ELSE text[i]]

(* split and join at line ends *)
Lines(text) ==
    LET breaks == {i \in 1..Len(text) : text[i] = "nl"} \cup {0, Len(text) + 1}
        At(k) == CHOOSE i \in breaks : Cardinality({j \in breaks : j < i}) = k
    IN  [k \in 1..(Cardinality(breaks) - 1) |-> SubSeq(text, At(k - 1) + 1, At(k) - 1)]
Joined(lines) == Tail(FlattenSeq([k \in DOMAIN lines |-> <<"nl">> \o lines[k]]))

Above(lines, n) == SubSeq(lines, 1, n)
Below(lines, n) == SubSeq(lines, n + 1, Len(lines))
AtLeast(least, n) == IF n < least THEN least ELSE n
AtMost(most, n) == IF n > most THEN most ELSE n

OccursAt(text, old, i) ==
    i + Len(old) - 1 <= Len(text) /\ SubSeq(text, i, i + Len(old) - 1) = old
Occurrences(text, old) == {i \in 1..(Len(text) + 1) : OccursAt(text, old, i)}

(* Mutant of Several: as soon as two lines have it. *)
SeveralLines(text, old) ==
    Cardinality({k \in DOMAIN Lines(text) : Occurrences(Lines(text)[k], old) # {}}) > 1

(* str.count is over 1; it does not count overlapping occurrences. *)
Several(text, old) ==
    \E i, j \in Occurrences(text, old) : i # j /\ i + Len(old) <= j

(* str.replace, which replaces every occurrence that str.count counts. *)
Replaced(text, old, new) ==
    LET from[i \in 1..(Len(text) + 1)] ==
            IF i > Len(text) THEN <<>>
            ELSE IF OccursAt(text, old, i) THEN new \o from[i + Len(old)]
            ELSE <<text[i]>> \o from[i + 1]
    IN  IF old = <<>> THEN new \o text ELSE from[1]

-----------------------------------------------------------------------------
Write(text) ==
    /\ Len(text) <= MaxFile
    /\ file' = text
    /\ exists' = TRUE

Create ==
    /\ ~exists
    /\ \E text \in Texts : Write(text)
    /\ shown' = Nothing
    /\ edit' = NoEdit

(* The lines before, in and after the change, with the first one's number. *)
ReplaceSnippet(text, before, new) ==
    LET line == Len(Lines(before)) - 1
        start == AtLeast(0, line - SnippetLines)
        end == line + SnippetLines + Len(Lines(new))
        lines == Lines(text)
    IN  [first |-> start + 1, lines |-> Below(Above(lines, AtMost(Len(lines), end)), start)]

(* The first occurrence of a text that is empty is refused by split, but   *)
(* only after the file has been written.                                   *)
StrReplace ==
    /\ exists
    /\ \E o, n \in Texts :
          LET old == Expand(o)
              new == Expand(n)
              text == Expand(file)
              first == CHOOSE i \in Occurrences(text, old) :
                          \A j \in Occurrences(text, old) : i <= j
          IN  /\ Occurrences(text, old) # {}
              /\ ~Several(text, old)
              /\ Write(Replaced(text, old, new))
              /\ shown' = IF old = <<>> THEN Nothing
                          ELSE ReplaceSnippet(file', SubSeq(text, 1, first - 1), new)
              /\ edit' = [old |-> old, new |-> new, done |-> TRUE]

(* Mutant of FirstInserted: one line too far up. *)
FirstAbove(line) == AtLeast(1, line - SnippetLines)

(* The number of the first line of insert's snippet. *)
FirstInserted(line) == AtLeast(1, line - SnippetLines + 1)

Insert ==
    /\ exists
    /\ \E n \in Texts, line \in 0..Len(Lines(Expand(file))) :
          LET old == Lines(Expand(file))
              new == Lines(Expand(n))
              above == Above(old, line)
              below == Below(old, line)
          IN  /\ Write(Joined(above \o new \o below))
              /\ shown' = [first |-> FirstInserted(line),
                           lines |-> Below(above, AtLeast(0, line - SnippetLines))
                                       \o new
                                       \o Above(below, AtMost(Len(below), SnippetLines))]
    /\ edit' = NoEdit

(* view, of a range of lines; to = -1 is the last one. *)
View ==
    /\ exists
    /\ LET lines == Lines(file)
       IN  \E from \in DOMAIN lines, to \in {-1} \cup DOMAIN lines :
              /\ to # -1 => from <= to
              /\ shown' = [first |-> from,
                           lines |-> Below(Above([k \in DOMAIN lines |-> Expand(lines[k])],
                                                 IF to = -1 THEN Len(lines) ELSE to), from - 1)]
    /\ edit' = NoEdit
    /\ UNCHANGED <<exists, file>>

EditNext == Create \/ StrReplace \/ Insert \/ View

-----------------------------------------------------------------------------
EditTypeOK ==
    /\ exists \in BOOLEAN
    /\ file \in Seq(Symbols) /\ Len(file) <= MaxFile
    /\ shown.first \in Nat /\ shown.lines \in Seq(Seq(Symbols))

(* The line numbers of an output are those of the file: the model counts   *)
(* on them for its next insert and view, also when the lines shown begin   *)
(* or end with the file.                                                   *)
LinesNumbered ==
    \A k \in DOMAIN shown.lines :
        /\ shown.first + k - 1 \in DOMAIN Lines(file)
        /\ shown.lines[k] = Expand(Lines(file)[shown.first + k - 1])

(* A replacement changes the file in one place, except for tabs elsewhere, *)
(* although str.replace would replace all that str.count counts.           *)
OnePlaceReplaced ==
    [][ edit'.done =>
            \E i \in 1..(Len(file) + 1) :
                /\ OccursAt(Expand(file), edit'.old, i)
                /\ file' = ReplaceSubSeqAt(i, edit'.new, edit'.old, Expand(file)) ]_editVars
=============================================================================
