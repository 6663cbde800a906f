---------------------------- MODULE ComputerTool ----------------------------
(***************************************************************************)
(* The demo's computer tool (computer_use_demo/tools/computer.py) as far   *)
(* as coordinates go: the model points in the display it was told of, and  *)
(* the tool scales to the screen and back.  Floats are rationals whose     *)
(* rounding may go either way at a tie.                                    *)
(***************************************************************************)
EXTENDS Integers

CONSTANTS Widths, Heights,      \* of screens: WIDTH and HEIGHT
          Probes                \* coordinates tried

ASSUME ScreenAssumption ==
    /\ Widths \cup Heights \subseteq Nat \ {0}
    /\ Probes \subseteq Nat

VARIABLES width, height,        \* the screen
          pointer,              \* where the mouse is on it
          asked,                \* where the model has put it last
          reported              \* what cursor_position has told of it

computerVars == <<width, height, pointer, asked, reported>>

Nowhere == <<>>

ComputerInit ==
    /\ width \in Widths
    /\ height \in Heights
    /\ pointer = <<0, 0>>
    /\ asked = Nowhere
    /\ reported = Nowhere

(* MAX_SCALING_TARGETS *)
Targets == {<<1024, 768>>, <<1280, 800>>, <<1366, 768>>}

Distance(a, b) == IF a < b THEN b - a ELSE a - b

(* Targets whose aspect ratio differs by less than 0.02: at most one. *)
Fitting == {t \in Targets : 50 * Distance(t[1] * height, t[2] * width) < t[2] * height}
Scaled == \E t \in Fitting : t[1] < width
Target == IF Scaled THEN CHOOSE t \in Fitting : TRUE ELSE <<width, height>>

(* Mutant of Round: cut off. *)
Cut(n, d) == {n \div d}

(* round of n / d *)
Round(n, d) == {q \in {n \div d, n \div d + 1} : 2 * Distance(n, q * d) <= d}

(* scale_coordinates, from the model's display and from the screen. *)
FromApi(x, y) ==
    Round(x * width, Target[1]) \X Round(y * height, Target[2])
FromComputer(x, y) ==
    Round(x * Target[1], width) \X Round(y * Target[2], height)

(* Only if it scales, and by the screen, not the display. *)
OutOfBounds(x, y) == Scaled /\ (x > width \/ y > height)

(* The X server keeps the pointer on the screen. *)
OnScreen(p) ==
    <<IF p[1] < width THEN p[1] ELSE width - 1, IF p[2] < height THEN p[2] ELSE height - 1>>

(* mouse_move, and the clicks, scrolls and drags that move first. *)
PointAt ==
    \E x, y \in Probes :
        /\ ~OutOfBounds(x, y)
        /\ \E p \in FromApi(x, y) : pointer' = OnScreen(p)
        /\ asked' = <<x, y>>
        /\ reported' = Nowhere
        /\ UNCHANGED <<width, height>>

(* cursor_position *)
CursorPosition ==
    /\ reported' \in FromComputer(pointer[1], pointer[2])
    /\ UNCHANGED <<width, height, pointer, asked>>

(* A person moves the mouse through VNC. *)
PersonMoves ==
    /\ \E x, y \in Probes : pointer' = OnScreen(<<x, y>>)
    /\ asked' = Nowhere
    /\ reported' = Nowhere
    /\ UNCHANGED <<width, height>>

ComputerNext == PointAt \/ CursorPosition \/ PersonMoves

-----------------------------------------------------------------------------
ComputerTypeOK ==
    /\ pointer \in (0..(width - 1)) \X (0..(height - 1))
    /\ asked \in (Probes \X Probes) \cup {Nowhere}
    /\ reported \in (Nat \X Nat) \cup {Nowhere}

(* Where the model has put the mouse in its display, cursor_position finds *)
(* it again, for any rounding on the way to the screen and back.  An axis  *)
(* that is scaled to a smaller screen than the target (an aspect ratio     *)
(* within the tolerance) is exempt.                                        *)
PointerFound ==
    reported # Nowhere /\ asked # Nowhere =>
        (asked[1] < Target[1] /\ asked[2] < Target[2] /\ Target[2] <= height
            => reported = asked)
=============================================================================
