--------------------------- MODULE MCControlPlane ---------------------------
(* Instances of ControlPlane for TLC. *)
EXTENDS ControlPlane, TLC

(* Sessions, runs and requests are interchangeable (runs that check no     *)
(* liveness).                                                              *)
Symmetry == Permutations(Sessions) \cup Permutations(Runs) \cup Permutations(Requests)
=============================================================================
