------------------------------ MODULE EventFeed ------------------------------
(***************************************************************************)
(* What the event path promises a reader of one session's feed, whatever   *)
(* replay, live delivery, overflow and reconnects do underneath: events    *)
(* are committed to the log, and the reader's view grows by events of the  *)
(* log.  It never passes one over, except those that are excused: their    *)
(* publication failed, or an append that began later was committed before  *)
(* theirs was done.                                                        *)
(***************************************************************************)
EXTENDS Integers

VARIABLES log,          \* ids of the committed events
          view,         \* ids the reader has been shown
          excused       \* ids that may be passed over

feedVars == <<log, view, excused>>

(* Every other committed event up to the last one shown has been shown. *)
Gapless == \A e \in log \ excused, v \in view : e < v => e \in view

Init == log = {} /\ view = {} /\ excused = {}

Commit ==
    /\ \E e \in log' \ log : log' = log \cup {e}
    /\ excused \subseteq excused'
    /\ UNCHANGED view

Lose ==
    /\ excused \subseteq excused'
    /\ UNCHANGED <<log, view>>

Deliver ==
    /\ view \subseteq view'
    /\ view' \subseteq log
    /\ UNCHANGED <<log, excused>>

Next == (Commit \/ Lose \/ Deliver) /\ Gapless'

Spec == Init /\ [][Next]_feedVars
=============================================================================
