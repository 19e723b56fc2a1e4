--------------------------- MODULE MCRespSession ---------------------------
(***************************************************************************)
(* Instances of RespSession: two calls, so that one can inherit what the   *)
(* other left on the connection; the password agreed on, missing on either *)
(* side, or wrong.                                                         *)
(***************************************************************************)
EXTENDS RespSession

MCMethods == <<{"GET", "SUBSCRIBE", "BOGUS"}, {"GET"}>>
MCPasswords == {<<"p", "p">>, <<"p", NoPw>>, <<NoPw, "p">>, <<"q", "p">>}
=============================================================================
