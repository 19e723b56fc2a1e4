-------------------------- MODULE MCServerLifecycle --------------------------
(* Instances of ServerLifecycle for TLC. *)
EXTENDS ServerLifecycle, TLC

Symmetry == Permutations(Runners) \cup Permutations(Stoppers)
              \cup Permutations(Surfaces)

=============================================================================
