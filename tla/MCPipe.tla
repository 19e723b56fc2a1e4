------------------------------- MODULE MCPipe -------------------------------
(***************************************************************************)
(* Instances of Pipe.  Serve, Dial, Shutdown and Close calls are model     *)
(* values given in the .cfg files; each is made at most once, so a run     *)
(* ends when all have returned.                                            *)
(***************************************************************************)
EXTENDS Pipe

\* Two associations, so that one can replace another; one connection elsewhere.
MCNConns == [k \in Kinds |-> IF k = "udp" THEN 2 ELSE 1]
=============================================================================
