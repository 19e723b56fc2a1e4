---------------------------- MODULE MCClientCall -----------------------------
(* Instances of ClientCall for TLC. *)
EXTENDS ClientCall

(* Every chain of at most two filters. *)
AllChains == UNION {[1..n -> Behaviours] : n \in 0..2}

=============================================================================
