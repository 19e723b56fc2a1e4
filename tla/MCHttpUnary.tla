---------------------------- MODULE MCHttpUnary ----------------------------
(***************************************************************************)
(* Instances of HttpUnary: two calls on one endpoint handle, one that may  *)
(* go wrong in every way and one plain neighbour.                          *)
(***************************************************************************)
EXTENDS HttpUnary, TLC

CONSTANTS k1, k2
MCCodes == k1 :> {"OK", "FailedPrecondition"} @@ k2 :> {"OK", "Unknown"}
MCVerbs == k1 :> {"POST", "GET"} @@ k2 :> {"GET"}
=============================================================================
