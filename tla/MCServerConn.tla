---------------------------- MODULE MCServerConn -----------------------------
(* Instances of ServerConn for TLC. *)
EXTENDS ServerConn, TLC

Symmetry == Permutations(Conns) \cup Permutations(Calls)

=============================================================================
