---------------------------- MODULE CallMetadata ----------------------------
(***************************************************************************)
(* What one call carries besides its messages, end to end: the metadata    *)
(* handle (metadata/call.go) that filters and handlers use from any        *)
(* goroutine, the request preface the client's axis builds from it and     *)
(* the server's axis parses, and the headers, trailers and status that     *)
(* come back.  A handle is written under its mutex, but the axes read it   *)
(* and freeze it in two steps, with the wire in between.                   *)
(***************************************************************************)
EXTENDS WireCodec

CONSTANTS
    Requests,    \* the calls to try, records:
                 \*   axis      "grpc", "rpc" or "rest" (httpunary's two routers)
                 \*   method    the method called
                 \*   bindings  the REST bindings of both sides
                 \*   preset    metadata set before the call is opened
                 \*   timeout   time left on the caller's deadline, or Nil
                 \*   client    [list, send]: its compressors, the one it uses
                 \*   server    [list, send]
                 \*   foreign   headers another kind of client adds on the wire
    Keys,        \* keys of the application's metadata: [request, header, trailer]
    Errors,      \* what a handler may return, Nil among them
    Relayed,     \* codes of statuses that a handler passes on as a trailer
    Named,       \* compressors that a value of the application's lists
    MaxInbound   \* MaxInboundMetadataSize, in values

Opener == "opener"     \* the goroutine in client.Open
Filter == "filter"     \* a goroutine of a client open filter
Handler == "handler"   \* the goroutine that runs the handler, then Finish
Helper == "helper"     \* a goroutine the handler started
ClientProcs == {Opener, Filter}
ServerProcs == {Handler, Helper}
Procs == ClientProcs \cup ServerProcs

\* Values name the goroutine that added them.  An axis may read one as a status
\* or as a list of compressors, by the key it comes under.
Value(p, kind, code) ==
    [by |-> p, kind |-> kind, code |-> code, msg |-> "relayed", details |-> {}, lists |-> Named]
OwnValues == {Value(p, kind, code) : p \in Procs, kind \in {"h", "t"}, code \in {NoProto} \cup Relayed}

\* What is added is not a path variable: those are set before the call.
AppKeys == Keys.request \cup Keys.header \cup Keys.trailer
ASSUME KeyAssumption == AppKeys \cap PathKeys = {}

\* A request as the axes take it: a caller's deadline is a Duration, newRESTRouter
\* refuses a table that binds a verb and a pattern twice, what is set before the
\* call has keys of its own, and another kind of client adds neither the headers
\* of this one nor its values.
PresetValues(r) == UNION {ToSet(r.preset[k]) : k \in DOMAIN r.preset}
ForeignValues(r) == UNION {ToSet(ValuesOfKey(r.axis, h.name, h)) : h \in ToSet(r.foreign)}
IsRequest(r) ==
    /\ r.axis \in {"grpc", "rpc", "rest"}
    /\ r.method \in [service : Seq(STRING), name : STRING]
    /\ r.bindings \in Seq([method : [service : Seq(STRING), name : STRING], verb : STRING,
                          pattern : Seq([var : BOOLEAN, name : STRING])])
    /\ ~IsDuplicate(r.bindings)
    /\ r.timeout # Nil => r.timeout \in Int /\ r.timeout <= MaxDuration
    /\ IsFiniteSet(DOMAIN r.preset) /\ Malformed \notin PresetValues(r)
    /\ \A k \in DOMAIN r.preset :
          /\ r.preset[k] \in Seq(PresetValues(r))
          /\ \A j \in AppKeys : Lower(j) # Lower(k)
    /\ r.foreign \in Seq(ToSet(r.foreign)) /\ ForeignValues(r) \cap OwnValues = {}
    /\ \A h \in ToSet(r.foreign) :
          /\ h.name \notin {"grpc-timeout", "grpc-encoding", AcceptKey}
          /\ ValuesOfKey(r.axis, h.name, h) \in Seq(ForeignValues(r))
ASSUME RequestAssumption == MaxInbound \in Nat /\ \A r \in Requests : IsRequest(r)

\* A value decodes as base64, and a code is one that a protobuf can say.
ASSUME ErrorAssumption ==
    /\ Malformed \notin OwnValues
    /\ NoProto \notin Relayed \cup {e.code : e \in Errors \ {Nil}}
    /\ \A e \in Errors \ {Nil} : e = [code |-> e.code, msg |-> e.msg, details |-> e.details]

VARIABLES
    rq,       \* the call, one of Requests
    cmd,      \* the client's callMD, and the status its Recv returned
    smd,      \* the server's callMD
    pc, snap, \* per goroutine: where it is, the snapshot it holds
    req,      \* the request on the wire
    acc,      \* what AcceptCall made of it
    scall,     \* the server's call
    resp,     \* the response on the wire; sent says that headers are
    late,     \* values accepted while another goroutine's snapshot was out
    added     \* what each goroutine has added

metadataVars == <<rq, cmd, smd, pc, snap, req, acc, scall, resp, late, added>>

NewHandle == [headers |-> NoMetadata, trailers |-> NoMetadata, headersFrozen |-> FALSE,
              headersSent |-> FALSE, trailersFrozen |-> FALSE,
              inHeaders |-> Nil, inTrailers |-> Nil]

MetadataInit ==
    /\ rq \in Requests
    /\ cmd = [headers |-> rq.preset, trailers |-> NoMetadata, headersFrozen |-> FALSE,
              headersSent |-> FALSE, trailersFrozen |-> FALSE,
              inHeaders |-> Nil, inTrailers |-> Nil, read |-> "no", status |-> Nil]
    /\ smd = NewHandle
    /\ pc = [p \in Procs |-> "idle"]
    /\ snap = [p \in Procs |-> Nil]
    /\ req = Nil
    /\ acc = Nil
    /\ scall = [headersSent |-> FALSE, finished |-> FALSE, sendErr |-> FALSE, error |-> Nil,
               once |-> "no", headersErr |-> FALSE, initial |-> FALSE]
    /\ resp = [sent |-> FALSE, headers |-> <<>>, trailers |-> <<>>, ended |-> FALSE]
    /\ late = {}
    /\ added = [p \in Procs |-> {}]

IsGrpc == rq.axis = "grpc"
Orders(md) == SetToSeqs(DOMAIN md)
At(p, pl) == pc[p] = pl
Goto(p, pl) == pc' = [pc EXCEPT ![p] = pl]
IsAccepted == acc # Nil /\ acc.ok

\* httpunary's EncodeMetadata and DecodeMetadata: no binary keys.
UnaryHeaders(md, order) == EncodeMetadata(rq.axis, md, order)
UnaryMetadata(hs) == DecodeMetadata(rq.axis, hs)

-----------------------------------------------------------------------------
(* The handle.                                                             *)

\* A snapshot is out between a goroutine's getter and its freeze.
HeadersOut == {"write", "mark", "freeze", "open 2", "unary 2"}
TrailersOut == {"finish 2"}
SnapshotOut(ps, where) == \E p \in ps : pc[p] \in where

\* AddOutgoingHeader; a frozen handle answers with an error and nothing changes.
ClientAdds(p, k) ==
    /\ At(p, "idle") /\ "h" \notin added[p] /\ ~cmd.headersFrozen
    /\ cmd' = [cmd EXCEPT !.headers = With(@, k, <<Value(p, "h", NoProto)>>)]
    /\ late' = IF SnapshotOut(ClientProcs, HeadersOut) THEN late \cup {<<"h", p>>} ELSE late
    /\ added' = [added EXCEPT ![p] = @ \cup {"h"}]
    /\ UNCHANGED <<rq, smd, pc, snap, req, acc, scall, resp>>
ServerAdds(p, k) ==
    /\ IsAccepted /\ At(p, "idle") /\ "h" \notin added[p]
    /\ ~smd.headersFrozen
    /\ smd' = [smd EXCEPT !.headers = With(@, k, <<Value(p, "h", NoProto)>>)]
    /\ late' = IF SnapshotOut(ServerProcs, HeadersOut) THEN late \cup {<<"h", p>>} ELSE late
    /\ added' = [added EXCEPT ![p] = @ \cup {"h"}]
    /\ UNCHANGED <<rq, cmd, pc, snap, req, acc, scall, resp>>
\* AddOutgoingTrailer, which the initiator may not call.
ServerAddsTrailer(p, k, code) ==
    /\ IsAccepted /\ At(p, "idle") /\ "t" \notin added[p]
    /\ ~smd.trailersFrozen
    /\ smd' = [smd EXCEPT !.trailers = With(@, k, <<Value(p, "t", code)>>)]
    /\ late' = IF SnapshotOut(ServerProcs, TrailersOut) THEN late \cup {<<"t", p>>} ELSE late
    /\ added' = [added EXCEPT ![p] = @ \cup {"t"}]
    /\ UNCHANGED <<rq, cmd, pc, snap, req, acc, scall, resp>>

\* FreezeOutgoingHeaders and FreezeOutgoingTrailers.
FrozenHeaders(md) == [md EXCEPT !.headersFrozen = TRUE]
FrozenTrailers(md) == [md EXCEPT !.trailersFrozen = TRUE]

-----------------------------------------------------------------------------
(* OpenCall of both axes, as far as the wire.                              *)

OpenSnapshots ==
    /\ At(Opener, "idle") /\ req = Nil
    /\ snap' = [snap EXCEPT ![Opener] = cmd.headers]
    /\ Goto(Opener, "open 2")
    /\ UNCHANGED <<rq, cmd, smd, req, acc, scall, resp, late, added>>
OpenFreezes ==
    /\ At(Opener, "open 2")
    /\ cmd' = FrozenHeaders(cmd)
    /\ Goto(Opener, "open 3")
    /\ UNCHANGED <<rq, smd, snap, req, acc, scall, resp, late, added>>

\* BuildRequestPreface.  An expired deadline is not sent at all.
Preface(verb, target, headers) ==
    [failed |-> FALSE, verb |-> verb, target |-> target, headers |-> headers]
GrpcPreface(md, order) ==
    LET send == ResolveSendCompressor(rq.client.list, rq.client.send, {}, FALSE)
        own == (IF rq.timeout = Nil \/ rq.timeout <= 0 THEN <<>>
                ELSE <<Header("grpc-timeout", EncodeTimeout(rq.timeout))>>)
               \o (IF send = "identity" THEN <<>> ELSE <<Header("grpc-encoding", send)>>)
               \o <<Header(AcceptKey, [lists |-> rq.client.list])>>
    IN  Preface("POST", MethodPath(rq.method), own \o EncodeMetadata("grpc", md, order))
\* rpcRouter.BuildPreface, restRouter.BuildPreface.
RpcPreface(md, order) ==
    Preface("POST", MethodPath(rq.method), UnaryHeaders(md, order))
Table == ByMethod(rq.bindings)
Binding == Table[rq.method]
RestPreface(md, order) ==
    LET target == IF rq.method \notin DOMAIN Table THEN Nil
                  ELSE BuildPath(Binding.pattern, md)
    IN  IF target = Nil THEN [failed |-> TRUE]
        ELSE Preface(Binding.verb, target, UnaryHeaders(md, order))

OpenBuilds(order) ==
    /\ At(Opener, "open 3")
    /\ LET preface == CASE IsGrpc -> GrpcPreface(snap[Opener], order)
                        [] rq.axis = "rpc" -> RpcPreface(snap[Opener], order)
                        [] rq.axis = "rest" -> RestPreface(snap[Opener], order)
       IN  req' = IF preface.failed THEN preface
                  ELSE [preface EXCEPT !.headers = @ \o rq.foreign]
    /\ snap' = [snap EXCEPT ![Opener] = Nil]
    /\ Goto(Opener, "sent")
    /\ UNCHANGED <<rq, cmd, smd, acc, scall, resp, late, added>>

-----------------------------------------------------------------------------
(* AcceptCall of both axes.                                                *)

Rejected == [ok |-> FALSE]
\* The axis reads the last grpc-accept-encoding, whoever sent it, and shows none
\* to the application.
UserHeaders == Only(req.headers, {h \in ToSet(req.headers) : h.name # AcceptKey})
Accepts == IF HasField(req.headers, AcceptKey) THEN Field(req.headers, AcceptKey).lists ELSE {}

\* ParseRequestHeaders, and what AcceptCall derives from it.
GrpcAccepts ==
    /\ IsGrpc
    /\ LET m == ParseMethodPath(OverURL(req.target))
           md == DecodeMetadata("grpc", UserHeaders)
       IN  IF m = Nil \/ AnyMalformed("grpc", UserHeaders) \/ OverLimit(md, MaxInbound)
           THEN acc' = Rejected /\ UNCHANGED smd
           ELSE /\ acc' = [ok |-> TRUE, method |-> m,
                           timeout |-> IF HasField(req.headers, "grpc-timeout")
                                       THEN DecodeTimeout(Field(req.headers, "grpc-timeout")) ELSE Nil,
                           peerEnc |-> IF HasField(req.headers, "grpc-encoding")
                                       THEN Field(req.headers, "grpc-encoding") ELSE Nil,
                           send |-> ResolveSendCompressor(rq.server.list, rq.server.send, Accepts, TRUE)]
                /\ smd' = [smd EXCEPT !.inHeaders = md]
\* Where both routers of httpunary look: rpcRouter.ResolveAccept.
AcceptedPath == PathOnly(OverURL(req.target))
RpcMethod(path) == ParseMethodPath(path)
\* DecodeMetadata, ResolveAccept of the axis's router, checkInboundMeta.
UnaryAccepts(order) ==
    /\ ~IsGrpc
    /\ LET in == UnaryMetadata(req.headers)
           m == IF rq.axis = "rpc" THEN RpcMethod(AcceptedPath)
                ELSE RoutedMethod(Table, req.verb, AcceptedPath, order)
           md == IF rq.axis = "rpc" THEN in ELSE RoutedMetadata(Table, AcceptedPath, order, in)
       IN  IF m = Nil \/ OverLimit(md, MaxInbound)
           THEN acc' = Rejected /\ UNCHANGED smd
           ELSE /\ acc' = [ok |-> TRUE, method |-> m, timeout |-> Nil, peerEnc |-> Nil,
                           send |-> "identity"]
                /\ smd' = [smd EXCEPT !.inHeaders = md]
AcceptCall(order) ==
    /\ req # Nil /\ ~req.failed /\ acc = Nil
    /\ GrpcAccepts \/ UnaryAccepts(order)
    /\ UNCHANGED <<rq, cmd, pc, snap, req, scall, resp, late, added>>

-----------------------------------------------------------------------------
(* The response's headers: callMD.SendHeaders, call.SendHeaders, Send.     *)

\* The handle's own checks.  The snapshot it takes is not used: the function
\* server/conn.go gives it asks the call, which reads the handle again.  On
\* httpunary the call answers Unimplemented and nothing is frozen.
MdSendHeaders(p) ==
    /\ IsAccepted /\ IsGrpc /\ At(p, "idle") /\ "s" \notin added[p]
    /\ ~smd.headersSent /\ ~smd.headersFrozen
    /\ added' = [added EXCEPT ![p] = @ \cup {"s"}]
    /\ Goto(p, "md check")
    /\ UNCHANGED <<rq, cmd, smd, snap, req, acc, scall, resp, late>>
\* Send: maybeAutoHeaders sees no headers yet.
SendWantsHeaders(p) ==
    /\ IsAccepted /\ IsGrpc /\ At(p, "idle") /\ "s" \notin added[p]
    /\ ~scall.headersSent /\ ~scall.finished /\ ~scall.sendErr
    /\ scall.once # "send" /\ \A q \in ServerProcs : pc[q] \notin {"send check", "send once"}
    /\ added' = [added EXCEPT ![p] = @ \cup {"s"}]
    /\ Goto(p, "send check")
    /\ UNCHANGED <<rq, cmd, smd, snap, req, acc, scall, resp, late>>
\* call.SendHeaders: ErrHeadersAlreadySent, errSendFinished, or the Once.
CallSendHeaders(p) ==
    /\ pc[p] \in {"md check", "send check"}
    /\ Goto(p, IF scall.headersSent \/ scall.finished THEN "idle"
               ELSE IF At(p, "md check") THEN "md once" ELSE "send once")
    /\ UNCHANGED <<rq, cmd, smd, snap, req, acc, scall, resp, late, added>>

\* writeResponseHeadersOnce: the goroutine inside the Once ...
OnceSnapshots(p) ==
    /\ pc[p] \in {"md once", "send once"} /\ scall.once = "no"
    /\ snap' = [snap EXCEPT ![p] = smd.headers]
    /\ scall' = [scall EXCEPT !.once = IF At(p, "md once") THEN "md" ELSE "send"]
    /\ Goto(p, "write")
    /\ UNCHANGED <<rq, cmd, smd, req, acc, resp, late, added>>
ResponseHeaders(md, order) ==
    (IF acc.send = "identity" THEN <<>> ELSE <<Header("grpc-encoding", acc.send)>>)
    \o EncodeMetadata("grpc", md, order)
OnceWrites(p, order) ==
    /\ At(p, "write")
    /\ IF ~resp.sent
       THEN /\ resp' = [resp EXCEPT !.sent = TRUE, !.headers = ResponseHeaders(snap[p], order)]
            /\ Goto(p, "mark")
            /\ UNCHANGED scall
       ELSE /\ scall' = [scall EXCEPT !.headersErr = TRUE, !.once = "done", !.sendErr = TRUE]
            /\ Goto(p, "idle")
            /\ UNCHANGED resp
    /\ snap' = [snap EXCEPT ![p] = Nil]
    /\ UNCHANGED <<rq, cmd, smd, req, acc, late, added>>
OnceMarks(p) ==
    /\ At(p, "mark")
    /\ scall' = [scall EXCEPT !.headersSent = TRUE]
    /\ Goto(p, "freeze")
    /\ UNCHANGED <<rq, cmd, smd, snap, req, acc, resp, late, added>>
\* Mutant: the handle stays open after the headers are out.
OnceFreezesNothing(p) ==
    /\ At(p, "freeze")
    /\ scall' = [scall EXCEPT !.once = "done"]
    /\ Goto(p, IF scall.once = "md" THEN "commit" ELSE "idle")
    /\ UNCHANGED <<rq, cmd, smd, snap, req, acc, resp, late, added>>
OnceFreezes(p) ==
    /\ At(p, "freeze")
    /\ smd' = FrozenHeaders(smd)
    /\ scall' = [scall EXCEPT !.once = "done"]
    /\ Goto(p, IF scall.once = "md" THEN "commit" ELSE "idle")
    /\ UNCHANGED <<rq, cmd, snap, req, acc, resp, late, added>>
\* ... and one that waited for it: the same result, and sendFailed on an error.
OnceWaited(p) ==
    /\ pc[p] \in {"md once", "send once"} /\ scall.once = "done"
    /\ scall' = [scall EXCEPT !.sendErr = @ \/ scall.headersErr]
    /\ Goto(p, IF At(p, "md once") /\ ~scall.headersErr THEN "commit" ELSE "idle")
    /\ UNCHANGED <<rq, cmd, smd, snap, req, acc, resp, late, added>>
\* callMD.SendHeaders locks again to commit.
MdCommits(p) ==
    /\ At(p, "commit")
    /\ smd' = IF smd.headersSent THEN smd
              ELSE [smd EXCEPT !.headersFrozen = TRUE, !.headersSent = TRUE]
    /\ Goto(p, "idle")
    /\ UNCHANGED <<rq, cmd, snap, req, acc, scall, resp, late, added>>

-----------------------------------------------------------------------------
(* Finish of both axes, by the goroutine that ran the handler.             *)

FinishStarts(e) ==
    /\ IsAccepted /\ At(Handler, "idle") /\ ~scall.finished
    /\ scall' = [scall EXCEPT !.initial = ~scall.headersSent, !.error = e]
    /\ Goto(Handler, IF scall.sendErr THEN "left" ELSE IF IsGrpc THEN "finish 1" ELSE "unary 1")
    /\ UNCHANGED <<rq, cmd, smd, snap, req, acc, resp, late, added>>
\* grpc: trailers are read and frozen, headers are frozen and then read.
FinishSnapshots ==
    /\ At(Handler, "finish 1")
    /\ snap' = [snap EXCEPT ![Handler] = smd.trailers]
    /\ Goto(Handler, "finish 2")
    /\ UNCHANGED <<rq, cmd, smd, req, acc, scall, resp, late, added>>
FinishFreezesTrailers ==
    /\ At(Handler, "finish 2")
    /\ smd' = FrozenTrailers(smd)
    /\ Goto(Handler, "finish 3")
    /\ UNCHANGED <<rq, cmd, snap, req, acc, scall, resp, late, added>>
FinishFreezesHeaders ==
    /\ At(Handler, "finish 3")
    /\ smd' = FrozenHeaders(smd)
    /\ Goto(Handler, "finish 4")
    /\ UNCHANGED <<rq, cmd, snap, req, acc, scall, resp, late, added>>
\* The carrier decides whether the headers are already out.
FinishWrites(ho, to) ==
    /\ At(Handler, "finish 4")
    /\ LET initial == IF scall.initial THEN ResponseHeaders(smd.headers, ho) ELSE <<>>
           trailers == EncodeStatusTrailers(scall.error, snap[Handler], to)
       IN  resp' = IF ~resp.sent
                   THEN [sent |-> TRUE, headers |-> initial \o trailers, trailers |-> <<>>, ended |-> TRUE]
                   ELSE [resp EXCEPT !.trailers = trailers, !.ended = TRUE]
    /\ snap' = [snap EXCEPT ![Handler] = Nil]
    /\ Goto(Handler, "finish 5")
    /\ UNCHANGED <<rq, cmd, smd, req, acc, scall, late, added>>
\* httpunary: one response, and no trailers in it.
UnarySnapshots ==
    /\ At(Handler, "unary 1")
    /\ snap' = [snap EXCEPT ![Handler] = smd.headers]
    /\ Goto(Handler, "unary 2")
    /\ UNCHANGED <<rq, cmd, smd, req, acc, scall, resp, late, added>>
UnaryFreezes ==
    /\ At(Handler, "unary 2")
    /\ smd' = FrozenHeaders(smd)
    /\ Goto(Handler, "unary 3")
    /\ UNCHANGED <<rq, cmd, snap, req, acc, scall, resp, late, added>>
UnaryWrites(order) ==
    /\ At(Handler, "unary 3")
    /\ smd' = FrozenTrailers(smd)
    /\ resp' = [sent |-> TRUE, headers |-> UnaryHeaders(snap[Handler], order), trailers |-> <<>>,
                ended |-> TRUE]
    /\ snap' = [snap EXCEPT ![Handler] = Nil]
    /\ Goto(Handler, "finish 5")
    /\ UNCHANGED <<rq, cmd, req, acc, scall, late, added>>
FinishMarks ==
    /\ At(Handler, "finish 5")
    /\ scall' = [scall EXCEPT !.finished = TRUE, !.headersSent = TRUE]
    /\ Goto(Handler, "left")
    /\ UNCHANGED <<rq, cmd, smd, snap, req, acc, resp, late, added>>

-----------------------------------------------------------------------------
(* The client reads the response.                                          *)

\* ensureResponseHeaders, recvClient.
RecvHeaders ==
    /\ resp.sent /\ cmd.inHeaders = Nil /\ cmd.read = "no"
    /\ LET md == DecodeMetadata(rq.axis, resp.headers)
       IN  cmd' = IF OverLimit(md, MaxInbound) THEN [cmd EXCEPT !.read = "limit"]
                  ELSE [cmd EXCEPT !.inHeaders = md]
    /\ UNCHANGED <<rq, smd, pc, snap, req, acc, scall, resp, late, added>>
\* finishClientRecv: a key that only the headers have counts as a trailer too.
RecvFinish ==
    /\ IsGrpc /\ resp.ended /\ cmd.inHeaders # Nil /\ cmd.read = "no"
    /\ LET ts == DecodeMetadata("grpc", resp.trailers)
       IN  cmd' = IF OverLimit(ts, MaxInbound) THEN [cmd EXCEPT !.read = "limit"]
                  ELSE [cmd EXCEPT !.read = "status", !.inTrailers = Merged(ts, DecodeMetadata("grpc", resp.headers)),
                                   !.status = ResolveCallStatus(resp.headers, resp.trailers)]
    /\ UNCHANGED <<rq, smd, pc, snap, req, acc, scall, resp, late, added>>

MetadataNext ==
    \/ \E p \in ClientProcs, k \in Keys.request : ClientAdds(p, k)
    \/ \E p \in ServerProcs, k \in Keys.header : ServerAdds(p, k)
    \/ \E p \in ServerProcs, k \in Keys.trailer, code \in {NoProto} \cup Relayed :
          (code # NoProto => k = DetailsKey) /\ ServerAddsTrailer(p, k, code)
    \/ OpenSnapshots \/ OpenFreezes
    \/ At(Opener, "open 3") /\ \E o \in Orders(snap[Opener]) : OpenBuilds(o)
    \/ \E o \in Orders(Table) : AcceptCall(o)
    \/ \E p \in ServerProcs :
          \/ MdSendHeaders(p) \/ SendWantsHeaders(p) \/ CallSendHeaders(p)
          \/ OnceSnapshots(p) \/ OnceMarks(p) \/ OnceFreezes(p) \/ OnceWaited(p) \/ MdCommits(p)
          \/ At(p, "write") /\ \E o \in Orders(snap[p]) : OnceWrites(p, o)
    \/ \E e \in Errors : FinishStarts(e)
    \/ FinishSnapshots \/ FinishFreezesTrailers \/ FinishFreezesHeaders
    \/ At(Handler, "finish 4") /\ \E ho \in Orders(smd.headers), to \in Orders(snap[Handler]) :
          FinishWrites(ho, to)
    \/ UnarySnapshots \/ UnaryFreezes
    \/ At(Handler, "unary 3") /\ \E o \in Orders(snap[Handler]) : UnaryWrites(o)
    \/ FinishMarks \/ RecvHeaders \/ RecvFinish

MetadataSpec == MetadataInit /\ [][MetadataNext]_metadataVars

-----------------------------------------------------------------------------
(* Properties.                                                             *)

\* The values accepted under each key arrive in their order, and one that does
\* not was accepted while the snapshot that went out had already been taken.
Kept(md, arrived, taken) ==
    \A k \in DOMAIN md \cap AppKeys : Lower(k) \notin Reserved(rq.axis) \cup taken =>
        LET got == Only(Values(arrived, Lower(k)), ToSet(md[k]))
        IN  /\ IsPrefix(got, md[k])
            /\ \A v \in ToSet(md[k]) \ ToSet(got) : <<v.kind, v.by>> \in late

\* Metadata that a handle accepted reaches the peer's handle: request headers,
\* response headers and, on grpc, trailers, whichever of SendHeaders, the first
\* Send and Finish puts them on the wire and whichever goroutine does.  The
\* only values lost are those added between the getter and the freeze of the
\* axes (grpc/call.go:405-415, 569-570, httpunary/call.go:266-267) and, of a
\* grpc request, the grpc-accept-encoding that its reader takes out, although
\* reserved.go:6-8 lets it pass (preface.go:90-91).
MetadataArrives ==
    /\ IsAccepted => Kept(cmd.headers, smd.inHeaders, IF IsGrpc THEN {AcceptKey} ELSE {})
    /\ cmd.inHeaders # Nil => Kept(smd.headers, cmd.inHeaders, {})
    /\ cmd.inTrailers # Nil => Kept(smd.trailers, cmd.inTrailers, {})

\* The timeouts a header can say, as durations.
Sayable == {Wrapped(IF c * Unit[l] > MaxDuration THEN MaxDuration ELSE c * Unit[l]) :
               c \in 0..MaxTimeout, l \in DOMAIN Unit}

\* The server's deadline is never before the caller's, and is the nearest one
\* that eight digits and a unit can say; a long one never wraps around into the
\* past (timeout.go).
DeadlineNearest ==
    IsAccepted /\ IsGrpc =>
        IF rq.timeout = Nil \/ rq.timeout <= 0 THEN acc.timeout = Nil
        ELSE acc.timeout = Min({t \in Sayable : t >= rq.timeout})

\* The method the server finds is the caller's, if its name needs no escape: no
\* axis undoes one.
PathFaithful == (\A i \in 1..Len(rq.method.service) + 1 : Plain(MethodPath(rq.method)[i]))
                => acc.method = rq.method

\* REST.  The method found has the caller's verb and a pattern that matches the
\* path, and every variable is what one of the matching patterns makes of it.
\* Where the caller's pattern matches, no other with its verb makes the method
\* the caller's; and a variable that only it binds arrives as the caller's value
\* does over a URL, if no value has a slash.  It does match then, unless a value
\* ends the path early (router_rest.go:57-61, 118-121, 133-155).
Matching == {m \in DOMAIN Table : Matches(Table[m].pattern, AcceptedPath)}
Binding1(m) == PathVars(Table[m].pattern, AcceptedPath)
Givers(k) == {m \in Matching : k \in DOMAIN Binding1(m)}
Undivided == Len(req.target) = Len(Binding.pattern)
Reachable == \A i \in 1..Len(Binding.pattern) :
    LET s == Binding.pattern[i] IN IF s.var THEN s.name # "" ELSE Plain(s.name)
RestFaithful ==
    /\ acc.method \in Matching /\ Table[acc.method].verb = Binding.verb
    /\ \A k \in PathKeys : Givers(k) # {} =>
          \E m \in Givers(k) : smd.inHeaders[k] = Binding1(m)[k]
    /\ rq.method \in Matching =>
          /\ (\A m \in Matching \ {rq.method} : Table[m].verb # Binding.verb)
             => acc.method = rq.method
          /\ Undivided => \A k \in PathKeys : Givers(k) = {rq.method} =>
                smd.inHeaders[k] = <<Arriving(req.target, Values(cmd.headers, k)[1])>>
    /\ Undivided /\ Len(AcceptedPath) = Len(req.target) /\ Reachable => rq.method \in Matching
RouteFaithful == IsAccepted => IF rq.axis = "rest" THEN RestFaithful ELSE PathFaithful

\* A response is never compressed in a way its reader cannot undo: the server
\* uses what the client listed, or what the application said in its place
\* (compress.go, preface.go:90-91).
SaidValues == UNION {ToSet(cmd.headers[k]) : k \in {j \in DOMAIN cmd.headers : Lower(j) = AcceptKey}}
CompressionAgreed ==
    IsAccepted /\ IsGrpc =>
        acc.send \in {"identity"} \cup rq.client.list \cup UNION {v.lists : v \in SaidValues}

\* What AcceptCall makes of the request is what the caller asked for.
RequestFaithful == DeadlineNearest /\ RouteFaithful /\ CompressionAgreed

\* What the caller can expect of a handler's error.  One of code OK is none.
Expected(e) ==
    IF CodeOf(e) = "OK" THEN Nil
    ELSE [code |-> e.code, msg |-> OverWire(StatusMessage(e)),
          details |-> IF e.msg = "not utf-8" THEN {} ELSE e.details]

\* What the application's own grpc-status-details-bin, which is not reserved,
\* can make of the status: none of the details arrive, the codes do not match,
\* or a status of the same code takes the place of the handler's.
GivenDetails == ToSet(Values(smd.headers, DetailsKey)) \cup ToSet(Values(smd.trailers, DetailsKey))
Overridden(e) ==
    \/ cmd.status = Fallback(CodeOf(e), IF e = Nil THEN "" ELSE OverWire(StatusMessage(e)))
    \/ cmd.status = Mismatch /\ \E v \in GivenDetails : v.code \notin {NoProto, CodeOf(e)}
    \/ \E v \in GivenDetails : /\ v.code = CodeOf(e)
                              /\ cmd.status = [code |-> v.code, msg |-> v.msg, details |-> v.details]

\* The caller's status is the handler's, in trailers or in a response that is
\* trailers only, with its details if its message is text; only details that
\* the application gave itself may change it, and they may: a record of code OK,
\* or an empty one, ends a call that went well in an error of code OK
\* (statuswire.go, details.go:79-94).
StatusArrives ==
    cmd.read = "status" =>
        \/ cmd.status = Expected(scall.error)
        \/ GivenDetails # {} /\ Overridden(scall.error)

=============================================================================
