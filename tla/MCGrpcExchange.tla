--------------------------- MODULE MCGrpcExchange ---------------------------
(* Instances of GrpcExchange for TLC.                                      *)
EXTENDS GrpcExchange

\* Each kind of item on its own (a message cut right behind its header too), a
\* message behind a rejected one, and bytes that are no frame behind a message.
MCBodies == {<<>>, <<"big">>, <<"big", "msg">>, <<"fat">>, <<"enc">>, <<"cut">>,
             <<"junk">>, <<"msg">>, <<"msg", "junk">>, <<"hdr">>}

=============================================================================
