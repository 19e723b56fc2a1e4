----------------------------- MODULE HttpUnary -----------------------------
(***************************************************************************)
(* transport/httpunary over transport/http1: unary calls as HTTP/1.1       *)
(* requests.  The calls of one endpoint share a client session and its     *)
(* StreamConn handle, and each has an exchange of its own: a round-trip    *)
(* goroutine, a carrier the handle tracks so that it can abort it, and a   *)
(* request that the server sees as a connection with a single call.  The   *)
(* server's answer is committed in one piece at Finish (WriteResponse), or *)
(* is the 408 its Abort writes.                                            *)
(*                                                                         *)
(* Send only fills a buffer that HalfClose writes; a call's user calls one *)
(* operation at a time, Close comes from anywhere.                         *)
(***************************************************************************)
EXTENDS Naturals, FiniteSets

CONSTANTS
    Calls,       \* calls on one endpoint handle
    Codes,       \* per call, the status codes handlers and router answer with
    Verbs,       \* per call, the HTTP methods of its binding: "POST", "GET"
    Oversized,   \* the calls whose response may exceed a limit of the client
    Plain,       \* the calls whose caller only calls Recv, and then Close
    MaxEvents,   \* bound: session closes, network failures and server aborts
    None

ASSUME HttpAssumption ==
    /\ MaxEvents \in Nat /\ Oversized \subseteq Calls /\ Plain \subseteq Calls
    /\ IsFiniteSet(Calls)

\* httpstatus.go
ToHTTP(c) ==
    CASE c = "OK" -> 200 [] c = "Canceled" -> 499
      [] c \in {"InvalidArgument", "FailedPrecondition", "OutOfRange"} -> 400
      [] c = "DeadlineExceeded" -> 504 [] c = "NotFound" -> 404
      [] c \in {"AlreadyExists", "Aborted"} -> 409 [] c = "PermissionDenied" -> 403
      [] c = "ResourceExhausted" -> 429 [] c = "Unimplemented" -> 501
      [] c = "Unavailable" -> 503 [] c = "Unauthenticated" -> 401
      [] OTHER -> 500
FromHTTP(h) ==
    CASE h = 200 -> "OK" [] h = 400 -> "InvalidArgument" [] h = 401 -> "Unauthenticated"
      [] h = 403 -> "PermissionDenied" [] h = 404 -> "NotFound"
      [] h \in {408, 499} -> "Canceled" [] h = 409 -> "AlreadyExists"
      [] h = 429 -> "ResourceExhausted" [] h = 501 -> "Unimplemented"
      [] h = 503 -> "Unavailable" [] h = 504 -> "DeadlineExceeded"
      [] OTHER -> "Unknown"

\* The codes a server ends with or FromHTTP yields, and what Recv can report: a
\* message with its body, the remote's status, a limit of ours, or a failure.
Statuses ==
    (UNION {Codes[k] : k \in Calls}) \cup
    {"OK", "InvalidArgument", "Unauthenticated", "PermissionDenied", "NotFound", "Canceled",
     "AlreadyExists", "ResourceExhausted", "Unimplemented", "Unavailable",
     "DeadlineExceeded", "Unknown"}
BodyKinds == {"message", "json", "cut", "big", "none"}
Results ==
    [kind : {"message", "status", "limit", "failure"}, code : Statuses \cup BodyKinds]

ASSUME NoResultAssumption == None \notin Results

VARIABLES
    sess,     \* the client session: closed, reusable, inFlight
    handle,   \* its streamConn: closed, carriers, what Close still has to abort
    call,     \* per call: the call's fields and where its user is
    car,      \* per call: the clientCarrier and its round trip
    srv,      \* per call: the server's side of the exchange
    resp,     \* per call: the response on the wire
    result,   \* per call: what Recv returned
    cause,    \* an exchange broke, or a call left its response unread
    events

vars == <<sess, handle, call, car, srv, resp, result, cause, events>>

NewCall == [pc |-> "new", verb |-> None, reqBuf |-> FALSE, halfClosed |-> FALSE,
            closed |-> FALSE, terminal |-> FALSE, closing |-> "no"]
\* ready: the response has arrived or never will; body: the request body.
NewCar == [ready |-> "no", aborted |-> FALSE, trip |-> "none", body |-> "none"]
NewSrv == [pc |-> "none", aborted |-> FALSE, code |-> None]

Init ==
    /\ sess = [closed |-> FALSE, reusable |-> TRUE, inFlight |-> 0]
    /\ handle = [closed |-> FALSE, carriers |-> {}, sweep |-> "no", doomed |-> {}]
    /\ call = [k \in Calls |-> NewCall]
    /\ car = [k \in Calls |-> NewCar]
    /\ srv = [k \in Calls |-> NewSrv]
    /\ resp = [k \in Calls |-> None]
    /\ result = [k \in Calls |-> None]
    /\ cause = FALSE
    /\ events = 0

Event == events < MaxEvents /\ events' = events + 1
At(k, pl) == call[k].pc = pl
Goto(k, pl) == call' = [call EXCEPT ![k].pc = pl]
Blame == cause' = TRUE

-----------------------------------------------------------------------------
(* clientSession.OpenCall and streamConn.OpenStream.                       *)

\* endFlight, which stops at zero.
Landed == IF sess.inFlight > 0 THEN sess.inFlight - 1 ELSE 0

OpenCall(k, v) ==
    /\ At(k, "new") /\ ~sess.closed /\ sess.reusable
    /\ sess' = [sess EXCEPT !.inFlight = @ + 1]
    /\ call' = [call EXCEPT ![k] = [@ EXCEPT !.pc = "preface", !.verb = v]]
    /\ UNCHANGED <<handle, car, srv, resp, result, cause, events>>
\* BuildPreface: no binding for the method, or a path variable is missing.
PrefaceFails(k) ==
    /\ At(k, "preface")
    /\ sess' = [sess EXCEPT !.inFlight = Landed]
    /\ Goto(k, "failed")
    /\ UNCHANGED <<handle, car, srv, resp, result, cause, events>>
\* OpenStream's two looks at closed, without and with the handle's mutex.
StreamChecks(k) ==
    /\ At(k, "preface")
    /\ Goto(k, IF handle.closed THEN "refused" ELSE "track")
    /\ UNCHANGED <<sess, handle, car, srv, resp, result, cause, events>>
\* The carrier with its round trip started: a GET has no body to write to.
Started(k) ==
    [car[k] EXCEPT !.trip = "running",
                   !.body = IF call[k].verb = "GET" THEN "none" ELSE "open"]
\* Mutant: the second look is forgotten.
StreamTracksBlind(k) ==
    /\ At(k, "track")
    /\ handle' = [handle EXCEPT !.carriers = @ \cup {k}]
    /\ car' = [car EXCEPT ![k] = Started(k)]
    /\ Goto(k, "user")
    /\ UNCHANGED <<sess, srv, resp, result, cause, events>>
StreamTracks(k) ==
    /\ At(k, "track")
    /\ IF handle.closed
       THEN Goto(k, "refused") /\ UNCHANGED <<handle, car>>
       ELSE /\ handle' = [handle EXCEPT !.carriers = @ \cup {k}]
            /\ car' = [car EXCEPT ![k] = Started(k)]
            /\ Goto(k, "user")
    /\ UNCHANGED <<sess, srv, resp, result, cause, events>>
\* OpenCall's error path: endFlight, then markBad.
OpenRefused(k) ==
    /\ At(k, "refused")
    /\ sess' = [sess EXCEPT !.inFlight = Landed]
    /\ Goto(k, "refused2")
    /\ UNCHANGED <<handle, car, srv, resp, result, cause, events>>
OpenMarksBad(k) ==
    /\ At(k, "refused2")
    /\ sess' = [sess EXCEPT !.reusable = FALSE]
    /\ Goto(k, "failed")
    /\ UNCHANGED <<handle, car, srv, resp, result, cause, events>>

-----------------------------------------------------------------------------
(* The clientCarrier.                                                      *)

\* finish: the first result of the round trip wins; net/http reads no more of
\* the request body.
Finished(k, r) ==
    [car[k] EXCEPT !.ready = IF @ = "no" THEN r ELSE @,
                   !.trip = "done",
                   !.body = IF @ = "open" THEN "dead" ELSE @]
Untracked(ks) == [handle EXCEPT !.carriers = @ \ ks]

\* Do: the response headers arrive ...
DoReturns(k) ==
    /\ car[k].trip = "running" /\ resp[k] # None
    /\ car' = [car EXCEPT ![k] = Finished(k, "resp")]
    /\ UNCHANGED <<sess, handle, call, srv, resp, result, cause, events>>
\* ... or the round trip fails: the network, the caller's context, an Abort.
DoFails(k) ==
    /\ car[k].trip = "running"
    /\ IF car[k].aborted THEN UNCHANGED events ELSE Event
    /\ car' = [car EXCEPT ![k] = Finished(k, "err")]
    /\ handle' = IF car[k].ready = "no" THEN Untracked({k}) ELSE handle
    /\ Blame
    /\ UNCHANGED <<sess, call, srv, resp, result>>

\* Abort of the carriers ks: cancel, close the pipes and the response body,
\* finish(errAborted), untrack.
Aborted(ks) ==
    [k \in Calls |->
        IF k \notin ks \/ car[k].aborted THEN car[k]
        ELSE [car[k] EXCEPT !.aborted = TRUE,
                            !.ready = IF @ = "no" THEN "err" ELSE @,
                            !.body = IF @ = "open" THEN "dead" ELSE @]]

\* receiveOpen: whether a response can still be read after a failed write.
ReceiveOpen(k) == ~car[k].aborted /\ car[k].ready # "err"

-----------------------------------------------------------------------------
(* The client call.                                                        *)

\* An empty payload leaves the buffer nil, as if nothing had been sent.
Send(k) ==
    /\ k \notin Plain
    /\ At(k, "user") /\ ~call[k].closed /\ ~call[k].halfClosed /\ ~call[k].reqBuf
    /\ call' = [call EXCEPT ![k].reqBuf = TRUE]
    /\ UNCHANGED <<sess, handle, car, srv, resp, result, cause, events>>

\* A second HalfClose does nothing but repeat the first one's result.
HalfClose(k) ==
    /\ k \notin Plain
    /\ At(k, "user") /\ ~call[k].closed /\ ~call[k].halfClosed
    /\ call' = [call EXCEPT ![k] = [@ EXCEPT !.halfClosed = TRUE, !.pc = "write"]]
    /\ UNCHANGED <<sess, handle, car, srv, resp, result, cause, events>>
\* The body is written and ended; a GET has no body to write to.
HalfCloseWrites(k) ==
    /\ At(k, "write")
    /\ car[k].body = "open" \/ ~call[k].reqBuf
    /\ car' = [car EXCEPT ![k].body = IF @ # "open" THEN @
                                      ELSE IF call[k].reqBuf THEN "whole" ELSE "empty"]
    /\ Goto(k, "user")
    /\ UNCHANGED <<sess, handle, srv, resp, result, cause, events>>
\* sendFailed: only an exchange that can give no response spoils the session.
HalfCloseFails(k) ==
    /\ At(k, "write") /\ car[k].body # "open" /\ call[k].reqBuf
    /\ call' = [call EXCEPT ![k].pc = IF ReceiveOpen(k) THEN "user" ELSE "markBad"]
    /\ IF ReceiveOpen(k) THEN UNCHANGED cause ELSE Blame
    /\ UNCHANGED <<sess, handle, car, srv, resp, result, events>>

MarkBad(k) ==
    /\ At(k, "markBad")
    /\ sess' = [sess EXCEPT !.reusable = FALSE]
    /\ Goto(k, "user")
    /\ UNCHANGED <<handle, car, srv, resp, result, cause, events>>

\* Recv; a caller stops at the first error.
Recv(k) ==
    /\ At(k, "user") /\ ~call[k].closed /\ result[k] = None
    /\ Goto(k, "recv")
    /\ UNCHANGED <<sess, handle, car, srv, resp, result, cause, events>>

\* Mutant: the HTTP status decides, whatever the body says.
DecodeErrorBodyByStatus(r) == FromHTTP(r.http)
\* DecodeErrorBody: the code in the body, unless the body is cut or missing.
DecodeErrorBody(r) == IF r.body = "json" THEN r.code ELSE FromHTTP(r.http)
\* recvClient on a response: a limit of ours (headers or body too large), the
\* remote status, or the message.
RecvResult(r) ==
    IF r.body = "big" THEN [kind |-> "limit", code |-> "ResourceExhausted"]
    ELSE IF r.http # 200 THEN [kind |-> "status", code |-> DecodeErrorBody(r)]
    ELSE [kind |-> "message", code |-> r.body]
RecvReturns(k) ==
    /\ At(k, "recv") /\ car[k].ready = "resp" /\ ~car[k].aborted
    /\ LET r == RecvResult(resp[k]) IN
       /\ result' = [result EXCEPT ![k] = r]
       /\ call' = [call EXCEPT ![k] = [@ EXCEPT !.pc = "user", !.terminal = r.kind # "limit"]]
       /\ handle' = IF r.kind = "limit" THEN handle ELSE Untracked({k})
    /\ UNCHANGED <<sess, car, srv, resp, cause, events>>
\* No response, or its body breaks off.
RecvFails(k) ==
    /\ At(k, "recv")
    /\ \/ (car[k].ready = "err" \/ car[k].aborted) /\ UNCHANGED events
       \/ car[k].ready = "resp" /\ Event
    /\ result' = [result EXCEPT ![k] = [kind |-> "failure", code |-> "Unavailable"]]
    /\ Goto(k, "markBad")
    /\ handle' = IF car[k].ready = "resp" THEN Untracked({k}) ELSE handle
    /\ Blame
    /\ UNCHANGED <<sess, car, srv, resp>>

\* Close: the flag, markBad unless the end was seen, Abort, endFlight.
CloseCall(k) ==
    /\ call[k].pc \in {"user", "write", "recv", "markBad"} /\ ~call[k].closed
    /\ k \in Plain => At(k, "user") /\ result[k] # None
    /\ call' = [call EXCEPT ![k] = [@ EXCEPT
                   !.closed = TRUE, !.closing = IF call[k].terminal THEN "abort" ELSE "spoil"]]
    /\ IF call[k].terminal \/ (result[k] # None /\ result[k].kind = "limit")
       THEN UNCHANGED cause ELSE Blame
    /\ UNCHANGED <<sess, handle, car, srv, resp, result, events>>
CloseSpoils(k) ==
    /\ call[k].closing = "spoil"
    /\ sess' = [sess EXCEPT !.reusable = FALSE]
    /\ call' = [call EXCEPT ![k].closing = "abort"]
    /\ UNCHANGED <<handle, car, srv, resp, result, cause, events>>
\* Mutant: Close leaves the exchange to run out.
CloseAbortsNothing(k) ==
    /\ call[k].closing = "abort"
    /\ call' = [call EXCEPT ![k].closing = "land"]
    /\ UNCHANGED <<sess, handle, car, srv, resp, result, cause, events>>
CloseAborts(k) ==
    /\ call[k].closing = "abort"
    /\ car' = Aborted({k})
    /\ handle' = Untracked({k})
    /\ call' = [call EXCEPT ![k].closing = "land"]
    /\ UNCHANGED <<sess, srv, resp, result, cause, events>>
CloseLands(k) ==
    /\ call[k].closing = "land"
    /\ sess' = [sess EXCEPT !.inFlight = Landed]
    /\ call' = [call EXCEPT ![k].closing = "done"]
    /\ UNCHANGED <<handle, car, srv, resp, result, cause, events>>

\* clientSession.Close, then streamConn.Close: the swap, the snapshot under the
\* mutex, and one Abort after the other.
SessionClose ==
    /\ ~sess.closed /\ Event
    /\ sess' = [sess EXCEPT !.closed = TRUE, !.reusable = FALSE]
    /\ UNCHANGED <<handle, call, car, srv, resp, result, cause>>
HandleCloses ==
    /\ sess.closed /\ ~handle.closed
    /\ handle' = [handle EXCEPT !.closed = TRUE]
    /\ UNCHANGED <<sess, call, car, srv, resp, result, cause, events>>
HandleSnapshots ==
    /\ handle.closed /\ handle.sweep = "no"
    /\ handle' = [handle EXCEPT !.doomed = handle.carriers, !.carriers = {}, !.sweep = "aborting"]
    /\ UNCHANGED <<sess, call, car, srv, resp, result, cause, events>>
HandleAborts ==
    /\ handle.sweep = "aborting"
    /\ IF handle.doomed = {}
       THEN handle' = [handle EXCEPT !.sweep = "done"] /\ UNCHANGED <<car, cause>>
       ELSE \E k \in handle.doomed :
               /\ car' = Aborted({k})
               /\ Blame
               /\ handle' = [handle EXCEPT !.doomed = @ \ {k}]
    /\ UNCHANGED <<sess, call, srv, resp, result, events>>

-----------------------------------------------------------------------------
(* The server: one exchange, one call (serverSession, serverCarrier).  Its *)
(* side stops with the client's Abort: what it does then reaches nobody.   *)

\* The request reaches the server and AcceptCall: the router knows the target,
\* or the call is rejected and only Finish is left to do.
AcceptCall(k) ==
    /\ car[k].trip = "running" /\ ~car[k].aborted /\ srv[k].pc = "none"
    /\ \/ srv' = [srv EXCEPT ![k].pc = "handler"]
       \/ \E c \in Codes[k] \ {"OK"} :
             srv' = [srv EXCEPT ![k] = [@ EXCEPT !.pc = "finish", !.code = c]]
    /\ UNCHANGED <<sess, handle, call, car, resp, result, cause, events>>
\* The handler reads its one request (a GET has none) and returns; it can only
\* fail when the body broke off or the exchange was aborted, and may fail early.
RequestRead(k) ==
    /\ ~srv[k].aborted
    /\ car[k].body \in {"whole", "empty"} \/ call[k].verb = "GET"
HandlerReturns(k) ==
    /\ srv[k].pc = "handler" /\ ~car[k].aborted
    /\ \E c \in Codes[k] :
          /\ c = "OK" => RequestRead(k)
          /\ srv' = [srv EXCEPT ![k] = [@ EXCEPT !.pc = "finish", !.code = c]]
    /\ UNCHANGED <<sess, handle, call, car, resp, result, cause, events>>

\* Finish: EncodeErrorBody may have to cut its JSON; a success has the body the
\* handler sent; headers or body may exceed a limit of the client (big).
\* WriteResponse commits it unless the carrier was aborted.
\* The net/http handler then returns (markHandlerDone, the connection's Close),
\* and no later Abort writes.
Bodies(k) ==
    (IF srv[k].code = "OK" THEN {"message"} ELSE {"json", "cut"})
        \cup {"big" : x \in Oversized \cap {k}}
Finish(k) ==
    /\ srv[k].pc = "finish" /\ ~car[k].aborted
    /\ srv' = [srv EXCEPT ![k] = [@ EXCEPT !.pc = "gone", !.aborted = TRUE]]
    /\ IF srv[k].aborted
       THEN UNCHANGED resp
       ELSE \E b \in Bodies(k) :
                resp' = [resp EXCEPT ![k] = [http |-> ToHTTP(srv[k].code), body |-> b,
                                             code |-> srv[k].code]]
    /\ UNCHANGED <<sess, handle, call, car, result, cause, events>>
\* Abort from outside (Shutdown's sweep, a stalled connection): a response not
\* yet committed becomes a 408 without a body.
ServerAborts(k) ==
    /\ srv[k].pc \notin {"none", "gone"} /\ ~srv[k].aborted /\ ~car[k].aborted /\ Event
    /\ srv' = [srv EXCEPT ![k].aborted = TRUE]
    /\ resp' = [resp EXCEPT ![k] = [http |-> 408, body |-> "none", code |-> "Canceled"]]
    /\ UNCHANGED <<sess, handle, call, car, result, cause>>

-----------------------------------------------------------------------------
Opening(k) == PrefaceFails(k) \/ StreamChecks(k) \/ StreamTracks(k) \/ OpenRefused(k)
              \/ OpenMarksBad(k)
Trip(k) == DoReturns(k) \/ DoFails(k)
Using(k) == HalfCloseWrites(k) \/ HalfCloseFails(k) \/ MarkBad(k) \/ RecvReturns(k)
            \/ RecvFails(k)
Closing(k) == CloseSpoils(k) \/ CloseAborts(k) \/ CloseLands(k)
Sweep == HandleCloses \/ HandleSnapshots \/ HandleAborts

Next ==
    \/ SessionClose \/ Sweep
    \/ \E k \in Calls :
        \/ \E v \in Verbs[k] : OpenCall(k, v)
        \/ Opening(k) \/ Trip(k) \/ Using(k) \/ Closing(k)
        \/ Send(k) \/ HalfClose(k) \/ Recv(k) \/ CloseCall(k)
        \/ AcceptCall(k) \/ HandlerReturns(k) \/ Finish(k)
        \/ ServerAborts(k)

Spec == Init /\ [][Next]_vars

-----------------------------------------------------------------------------
(* Properties.                                                             *)

\* What Recv reports is what the server did: a message only when the server
\* committed 200 with it; a status with the code its handler (or its router)
\* ended with, coarsened by ToHTTP and FromHTTP only when the JSON body was cut,
\* and Canceled when an abort wrote 408 in its place.
AnswerTruthful ==
    \A k \in Calls :
        result[k] # None =>
            CASE result[k].kind = "message" -> srv[k].code = "OK" /\ resp[k].http = 200
              [] result[k].kind = "status" ->
                    \/ result[k].code = srv[k].code
                    \/ resp[k].body = "cut" /\ result[k].code = FromHTTP(ToHTTP(srv[k].code))
                    \/ resp[k].http = 408 /\ result[k].code = "Canceled"
              [] OTHER -> TRUE

\* The handle's books: inFlight counts the calls between OpenCall and the end of
\* Close, on every error path; only live exchanges are tracked; and once the
\* session's Close has swept, no exchange is left that nobody aborted, however
\* the OpenStreams interleaved with it.
HandleAccounted ==
    /\ sess.inFlight = Cardinality({k \in Calls :
            \/ call[k].pc \in {"preface", "track", "refused"}
            \/ call[k].pc \in {"user", "write", "recv", "markBad"} /\ call[k].closing # "done"})
    /\ \A k \in handle.carriers : car[k].trip # "none" /\ ~car[k].aborted
    /\ handle.sweep = "done" =>
         /\ handle.carriers = {}
         /\ \A k \in Calls : car[k].trip = "running" => car[k].aborted

\* The shared handle is given up only for cause: it was closed, an exchange on
\* it broke, or a call left its response unread.  A response over a limit the
\* client itself set is no cause, as long as its call is open.
SpoiledForCause ==
    ~sess.reusable =>
        \/ sess.closed
        \/ cause
        \/ \E k \in Calls : call[k].closed /\ ~call[k].terminal

\* The shared handle's state is right: its books, and whether it is lent again.
HandleSound == HandleAccounted /\ SpoiledForCause

\* Nobody is left waiting: when a call's Close or the session's has returned, an
\* operation still under way finds its request body or its exchange at an end,
\* whichever of them came first, tracked by the handle or no longer.
NoWaiterStranded ==
    \A k \in Calls :
        call[k].closing = "done" \/ handle.sweep = "done" =>
            /\ At(k, "write") => car[k].body # "open"
            /\ At(k, "recv") => ~ReceiveOpen(k)
=============================================================================
