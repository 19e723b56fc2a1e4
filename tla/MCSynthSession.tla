--------------------------- MODULE MCSynthSession ---------------------------
(***************************************************************************)
(* SynthSession with two calls, the first with a message more than the     *)
(* server's inbox holds, so that recvLoop is caught with an item in hand.  *)
(***************************************************************************)
EXTENDS SynthSession

MCMaxUp == <<2, 0>>
MCMaxDown == <<2, 0>>
=============================================================================
