--------------------------- MODULE MCCallMetadata ---------------------------
(* Instances of CallMetadata for TLC. *)
EXTENDS CallMetadata

MCUnit == [n |-> 1, u |-> 4, m |-> 16, S |-> 64, M |-> 128, H |-> 256]

Get == [service |-> <<"s">>, name |-> "Get"]
Put == [service |-> <<"s">>, name |-> "Put"]
Deep == [service |-> <<"s", "t">>, name |-> "Get"]
Odd == [service |-> <<"s">>, name |-> "a?b"]
Unlisted == [list |-> {}, send |-> "identity"]
Gzip == [list |-> {"gzip"}, send |-> "gzip"]
Both == [list |-> {"gzip", "zstd"}, send |-> "zstd"]

Base == [axis |-> "grpc", method |-> Get, bindings |-> <<>>, preset |-> NoMetadata,
         timeout |-> Nil, client |-> Gzip, server |-> Gzip, foreign |-> <<>>]

\* Every duration, and one that is already over.
Deadlines == {[Base EXCEPT !.timeout = d] : d \in (-1)..MaxDuration}
Compressors == {[Base EXCEPT !.client = c, !.server = s] : c, s \in {Unlisted, Gzip, Both}}
\* Binary values joined by a comma, and one that does not decode.
Peers == {[Base EXCEPT !.foreign = <<Header("key-bin", w)>>] :
             w \in {<<Value("peer", "h", NoProto), Value("peer", "h", "NotFound")>>,
                    <<Value("peer", "h", NoProto), Malformed>>}}

Bind(m, v, p) == [method |-> m, verb |-> v, pattern |-> p]
\* Patterns that overlap, that repeat a variable, that have a nameless one, and
\* a method bound twice.
Tables ==
    {<<Bind(Get, "GET", <<Literal("a"), Variable("x")>>), Bind(Put, "PUT", <<Variable("x"), Literal("b")>>)>>,
     <<Bind(Get, "GET", <<Literal("a"), Variable("x")>>), Bind(Put, "GET", <<Variable("y"), Literal("b")>>)>>,
     <<Bind(Get, "GET", <<Variable("x"), Variable("y")>>), Bind(Put, "PUT", <<Variable("x"), Variable("y")>>)>>,
     <<Bind(Get, "GET", <<Variable("x"), Variable("x")>>), Bind(Put, "PUT", <<Literal("a")>>)>>,
     <<Bind(Get, "GET", <<Variable("x")>>), Bind(Put, "GET", <<Literal("a"), Variable("")>>),
       Bind(Deep, "GET", <<Literal("a"), Literal("b")>>)>>,
     <<Bind(Get, "GET", <<Variable("x")>>), Bind(Get, "PUT", <<Literal("a"), Variable("x")>>)>>,
     <<Bind(Get, "GET", <<Variable("x"), Variable("y")>>), Bind(Put, "GET", <<Literal("a")>>)>>}
\* Values a URL escapes, one that divides a segment, one that ends the path, one
\* that is escaped already, one that is a bad escape, and none.
PathValues == {"a", "b", "a/b", "a?b", "a b", "a%20b", "a%", ""}
Presets == {NoMetadata} \cup {PathKey("x") :> <<v>> : v \in PathValues}
           \cup {(PathKey("x") :> <<v>>) @@ (PathKey("y") :> <<w>>) : v, w \in PathValues}
Routes == {[Base EXCEPT !.axis = "rest", !.bindings = t, !.method = m, !.preset = md] :
              t \in Tables, m \in {Get, Put, Deep}, md \in Presets}
          \cup {[Base EXCEPT !.axis = a, !.method = m] : a \in {"rpc", "grpc"}, m \in {Get, Deep, Odd}}

MCRequests == Deadlines \cup Compressors \cup Peers \cup Routes

MCKeys == [request |-> {"Key", "key", "key-bin", "te", AcceptKey}, header |-> {"key", "te"},
           trailer |-> {"key", DetailsKey}]

\* Bound: the handler's side is explored for one request of each axis, without
\* metadata of its own, and metadata is added to these requests and to one whose
\* server has a compressor that only the application lists.
Served == {Base, [Base EXCEPT !.axis = "rpc"]}
Explored ==
    /\ (\E p \in Procs : added[p] # {}) => rq \in Served \cup {[Base EXCEPT !.server = Both]}
    /\ IsAccepted => rq \in Served /\ cmd.headers = NoMetadata

NotFound == [code |-> "NotFound", msg |-> "text", details |-> {"d"}]
MCErrors == {Nil, NotFound, [NotFound EXCEPT !.msg = "not utf-8"], [NotFound EXCEPT !.msg = ""],
             [NotFound EXCEPT !.code = "OK"]}

=============================================================================
