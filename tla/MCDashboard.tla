----------------------------- MODULE MCDashboard -----------------------------
(* Instances of Dashboard for TLC. *)
EXTENDS Dashboard, TLC

(* Sessions are interchangeable, and no liveness is checked. *)
Symmetry == Permutations(Sessions)
=============================================================================
