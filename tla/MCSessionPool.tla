---------------------------- MODULE MCSessionPool ----------------------------
(* Model-checking instances of SessionPool. *)
EXTENDS SessionPool, TLC

(* p.capPer of a multiplexed pool. *)
MuxCap == -1

(* Callers and connections are interchangeable. *)
Symmetry == Permutations(Callers) \cup Permutations(Sessions)
=============================================================================
