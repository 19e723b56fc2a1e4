---------------------------- MODULE GrpcExchange ----------------------------
(***************************************************************************)
(* A gRPC client session (transport/grpc) over one http2 endpoint handle:  *)
(* its calls, the HTTP/2 exchange below each call (transport/http2), and   *)
(* the peer.  The peer is either an argos server, that is a responder call *)
(* over http2's serverCarrier whose connection may be aborted from outside *)
(* (the sweep of Shutdown or Close), or any other server, which may answer *)
(* what it likes: no grpc-status, bodies that are not gRPC, messages over  *)
(* the limits or cut short.  net/http is external: it hands over the       *)
(* response when its headers arrive, gives the body and then the trailers, *)
(* stops reading the request body once the response is over, and ends the  *)
(* stream when the handler returns.                                        *)
(*                                                                         *)
(* Per call there is one sender, one receiver and one closer on the client *)
(* and one handler on the server.  A step is one critical section or one   *)
(* blocking call.                                                          *)
(***************************************************************************)
EXTENDS Naturals, Sequences, FiniteSets

CONSTANTS
    Calls,       \* the calls of the session
    Peers,       \* which peers to check: a subset of {"argos", "foreign"}
    Expiring,    \* bound: the peers whose calls' ctx may end
    Heads,       \* bound: what the headers of foreign responses carry
    Bodies,      \* bound: the bodies of foreign responses, with their prefixes
    MaxSends     \* bound: messages an argos handler sends

\* What ReadLPMLimited and Recv tell apart in a body: a message, one over the
\* frame limit ("big"), one over the message limit ("fat"), one in an encoding
\* that is not enabled ("enc"), bytes that are no frame ("junk"), a frame the
\* body ends in ("cut"), and one it ends in right behind the header ("hdr").
BodyItems == {"msg", "big", "fat", "enc", "junk", "cut", "hdr"}

\* Response headers: 200 without grpc-status, with it, or another HTTP status.
HeadKinds == {"plain", "ok", "err", "http"}

ASSUME ExchangeAssumption ==
    /\ IsFiniteSet(Calls)
    /\ Peers \subseteq {"argos", "foreign"}
    /\ Expiring \subseteq Peers
    /\ Heads \subseteq HeadKinds
    /\ Bodies \subseteq Seq(BodyItems)
    /\ MaxSends \in Nat

VARIABLES
    peer,        \* who answers each call
    sess,        \* clientSession and its streamConn
    call,        \* the client's calls
    car,         \* their clientCarriers
    wire,        \* the response as it has arrived
    resp         \* serverCarrier, serverConn and the responder's call

vars == <<peer, sess, call, car, wire, resp>>

Sess == [at: {"open", "closed", "sweep"},                 \* Close
         reusable: BOOLEAN, inFlight: Nat,
         carriers: SUBSET Calls,
         todo: SUBSET Calls]          \* carriers Close still has to abort

Call == [at: {"none", "stream", "open", "refused"},    \* OpenCall
         half: BOOLEAN, sendFailed: BOOLEAN,
         term: BOOLEAN,               \* sawTerminal
         statusReturned: BOOLEAN, headersSeen: BOOLEAN,
         sending: BOOLEAN,            \* in the write of Send
         recving: {"idle", "headers", "body", "finish"},
         closing: {"no", "bad", "abort", "aborting", "flight", "done"},
         out: {"none", "ok", "status", "error"},       \* last result of Recv
         got: Nat,                    \* frames read off the body
         hasty: BOOLEAN,              \* given up before its end, or while in use
         reread: BOOLEAN]             \* Recv was called after the body's end

Car == [ready: {"pending", "resp", "err"},             \* what finish recorded
        doing: BOOLEAN,               \* the goroutine in client.Do
        abort: {"no", "marked", "done"}, by: {"none", "call", "session"},
        hadResp: BOOLEAN,             \* Abort saw a response to close
        bodyClosed: BOOLEAN,
        eof: BOOLEAN,                 \* read to its end: the trailers are there
        expired: BOOLEAN]             \* the ctx of the call has ended

Wire == [head: {"none"} \cup HeadKinds,
         meta: {"fine", "headers", "trailers"},        \* metadata over the limit
         data: Seq(BodyItems),
         end: {"none", "ok", "err", "bare", "rst"}]    \* trailers, none, reset

Resp == [at: {"none", "run", "lpm", "closing", "closed", "left", "over"},
         written: BOOLEAN,            \* headersWritten
         finished: {"no", "ok", "err", "408"},
         aborted: BOOLEAN, failed: BOOLEAN,            \* failed: sendErr is set
         closed: BOOLEAN,             \* serverConn.closed
         sweep: {"no", "abort", "held", "done"}]

TypeOK ==
    /\ peer \in [Calls -> Peers]
    /\ sess \in Sess
    /\ call \in [Calls -> Call]
    /\ car \in [Calls -> Car]
    /\ wire \in [Calls -> Wire]
    /\ resp \in [Calls -> Resp]

\* NewClientSession: a reusable session with no calls.
Init ==
    /\ peer \in [Calls -> Peers]
    /\ sess = [at |-> "open", reusable |-> TRUE, inFlight |-> 0,
               carriers |-> {}, todo |-> {}]
    /\ call = [x \in Calls |->
                [at |-> "none", half |-> FALSE, sendFailed |-> FALSE,
                 term |-> FALSE, statusReturned |-> FALSE,
                 headersSeen |-> FALSE, sending |-> FALSE, recving |-> "idle",
                 closing |-> "no", out |-> "none", got |-> 0,
                 hasty |-> FALSE, reread |-> FALSE]]
    /\ car = [x \in Calls |->
                [ready |-> "pending", doing |-> FALSE, abort |-> "no",
                 by |-> "none", hadResp |-> FALSE, bodyClosed |-> FALSE,
                 eof |-> FALSE, expired |-> FALSE]]
    /\ wire = [x \in Calls |-> [head |-> "none", meta |-> "fine",
                                data |-> <<>>, end |-> "none"]]
    /\ resp = [x \in Calls |->
                [at |-> "none", written |-> FALSE, finished |-> "no",
                 aborted |-> FALSE, failed |-> FALSE, closed |-> FALSE,
                 sweep |-> "no"]]

-----------------------------------------------------------------------------
(* Opening a call.                                                         *)

\* OpenCall under the session's lock: refused, or counted in flight.
OpenCall(x) ==
    /\ call[x].at = "none"
    /\ IF sess.at = "open" /\ sess.reusable
       THEN /\ call' = [call EXCEPT ![x].at = "stream"]
            /\ sess' = [sess EXCEPT !.inFlight = @ + 1]
       ELSE /\ call' = [call EXCEPT ![x].at = "refused"]
            /\ UNCHANGED sess
    /\ UNCHANGED <<peer, car, wire, resp>>

\* Mutation: the handle's closed flag is not looked at again under the lock.
HandleOpenUnchecked == TRUE

\* The look at the handle's closed flag under its lock.
HandleOpen == sess.at \in {"open", "closed"}

\* OpenStream under the handle's lock: a handle that has been closed refuses,
\* and OpenCall takes the call out of flight and spoils the session; otherwise
\* the carrier is tracked and the request goes out.
OpenStream(x) ==
    /\ call[x].at = "stream"
    /\ IF HandleOpen
       THEN /\ call' = [call EXCEPT ![x].at = "open"]
            /\ sess' = [sess EXCEPT !.carriers = @ \cup {x}]
            /\ car' = [car EXCEPT ![x].doing = TRUE]
       ELSE /\ call' = [call EXCEPT ![x].at = "refused"]
            /\ sess' = [sess EXCEPT !.inFlight = @ - 1, !.reusable = FALSE]
            /\ UNCHANGED car
    /\ UNCHANGED <<peer, wire, resp>>

\* Mutation: finish only announces a response, and nobody learns of an error.
FinishDropsErrors(x, r) ==
    [car[x] EXCEPT !.ready = IF @ = "pending" /\ r = "resp" THEN r ELSE @]

\* finish: the first result wins; an error ends the tracking of the carrier.
Finish(x, r) == [car[x] EXCEPT !.ready = IF @ = "pending" THEN r ELSE @]
Untrack(x) == [sess EXCEPT !.carriers = @ \ {x}]

\* The ctx of the call, and with it the request's, is cancelled or meets its
\* deadline.  Behind the call's status nothing looks at it any more, and a Close
\* under way cancels the request itself.
CtxEnds(x) ==
    /\ call[x].at \in {"stream", "open"} /\ call[x].closing = "no"
    /\ call[x].out \notin {"ok", "status"}
    /\ ~car[x].expired /\ peer[x] \in Expiring
    /\ car' = [car EXCEPT ![x].expired = TRUE]
    /\ UNCHANGED <<peer, sess, call, wire, resp>>

\* client.Do returns: with the response once its headers are there, or with an
\* error when the request was cancelled, its ctx has ended, or the stream was
\* reset, before that.  A response that lost against Abort is closed on the spot.
DoReturns(x) ==
    /\ car[x].doing
    /\ \/ /\ wire[x].head # "none"
          /\ car' = [car EXCEPT ![x] =
                [Finish(x, "resp") EXCEPT
                    !.doing = FALSE,
                    !.bodyClosed = car[x].bodyClosed \/ car[x].ready # "pending"]]
          /\ UNCHANGED sess
       \/ /\ \/ car[x].abort = "done" \/ car[x].expired
             \/ wire[x].head = "none" /\ wire[x].end = "rst"
          /\ car' = [car EXCEPT ![x] = [Finish(x, "err") EXCEPT !.doing = FALSE]]
          /\ sess' = IF car[x].ready = "pending" THEN Untrack(x) ELSE sess
    /\ UNCHANGED <<peer, call, wire, resp>>

-----------------------------------------------------------------------------
(* Sending.                                                                *)

\* The guards Send and HalfClose share: not closed, not failed, not finished;
\* and a call has one sender.
MaySend(x) ==
    /\ call[x].at = "open" /\ call[x].closing = "no"
    /\ ~call[x].sendFailed /\ ~call[x].half /\ ~call[x].sending

SendStarts(x) ==
    /\ MaySend(x)
    /\ call' = [call EXCEPT ![x].sending = TRUE]
    /\ UNCHANGED <<peer, sess, car, wire, resp>>

\* sendErr (http2): whether a failed write leaves the response readable.
ReceiveOpen(x) == car[x].abort = "no" /\ car[x].ready # "err"

\* Mutation: a failed write always counts against the session.
SendFailureNever(x) == FALSE

\* sendFailure: the failed write is this stream's business only.
SendFailure(x) == ReceiveOpen(x)

\* The write into the request body returns.  It fails once the body is read no
\* longer: aborted, no round trip, its ctx has ended, or the response is over.
\* sendFailed keeps the error, and spoils the session if the exchange is dead.
SendReturns(x) ==
    /\ call[x].sending
    /\ \/ /\ car[x].abort # "done" /\ car[x].ready # "err"
          /\ call' = [call EXCEPT ![x].sending = FALSE]
          /\ UNCHANGED sess
       \/ /\ \/ car[x].abort = "done" \/ car[x].ready = "err"
             \/ car[x].expired \/ wire[x].end # "none"
          /\ call' = [call EXCEPT ![x] = [@ EXCEPT !.sending = FALSE, !.sendFailed = TRUE]]
          /\ sess' = [sess EXCEPT !.reusable = @ /\ SendFailure(x)]
    /\ UNCHANGED <<peer, car, wire, resp>>

\* HalfClose: the request body ends; closing the pipe cannot fail.
HalfClose(x) ==
    /\ MaySend(x)
    /\ call' = [call EXCEPT ![x].half = TRUE]
    /\ UNCHANGED <<peer, sess, car, wire, resp>>

-----------------------------------------------------------------------------
(* Receiving.                                                              *)

\* Recv's guards: not closed, and the status not returned yet (then it says
\* EOF and nothing changes).  The response headers are waited for once.
RecvStarts(x) ==
    /\ call[x].at = "open" /\ call[x].closing = "no"
    /\ call[x].recving = "idle" /\ ~call[x].statusReturned
    /\ call' = [call EXCEPT ![x] = [@ EXCEPT
                   !.recving = IF call[x].headersSeen THEN "body" ELSE "headers",
                   !.reread = call[x].reread \/ car[x].bodyClosed]]
    /\ UNCHANGED <<peer, sess, car, wire, resp>>

Spoiled == [sess EXCEPT !.reusable = FALSE]
RecvFails(x) == [call[x] EXCEPT !.recving = "idle", !.out = "error"]

\* ensureResponseHeaders: without a response the session is spoiled; metadata
\* over the inbound limit is this call's business only.
RecvHeaders(x) ==
    /\ call[x].recving = "headers" /\ car[x].ready # "pending"
    /\ \/ /\ car[x].ready = "err"
          /\ call' = [call EXCEPT ![x] = RecvFails(x)]
          /\ sess' = Spoiled
       \/ /\ car[x].ready = "resp" /\ wire[x].meta = "headers"
          /\ call' = [call EXCEPT ![x] = RecvFails(x)]
          /\ UNCHANGED sess
       \/ /\ car[x].ready = "resp" /\ wire[x].meta # "headers"
          /\ call' = [call EXCEPT ![x] = [@ EXCEPT !.headersSeen = TRUE, !.recving = "body"]]
          /\ UNCHANGED sess
    /\ UNCHANGED <<peer, car, wire, resp>>

\* Reads of the response body fail: it is closed, or the request cancelled.
BodyDead(x) == car[x].bodyClosed \/ car[x].abort = "done"

\* Whether a read fails: once the ctx has ended it may, or still find what had
\* arrived before.
ReadsDead(x) == {BodyDead(x), BodyDead(x) \/ car[x].expired}

Next1(x) == wire[x].data[call[x].got + 1]
More(x) == call[x].got < Len(wire[x].data)
Received(x) == \E i \in 1 .. call[x].got : wire[x].data[i] = "msg"

\* A whole frame is there: ReadLPMLimited takes it, and Recv checks it.  One
\* over the frame limit ends the call for Close; an encoding that is not
\* enabled spoils the session.
RecvFrame(x) ==
    /\ call[x].recving = "body" /\ ~BodyDead(x)
    /\ More(x) /\ Next1(x) \in {"msg", "big", "fat", "enc"}
    /\ call' = [call EXCEPT ![x] = [@ EXCEPT
          !.recving = "idle", !.got = call[x].got + 1,
          !.out = IF Next1(x) = "msg" THEN call[x].out ELSE "error",
          !.term = call[x].term \/ Next1(x) = "big"]]
    /\ sess' = IF Next1(x) = "enc" THEN Spoiled ELSE sess
    /\ UNCHANGED <<peer, car, wire, resp>>

\* Bytes that are no frame: before any message they are taken for the body of
\* an HTTP error and the status is looked up; after one they are an error.
RecvJunk(x) ==
    /\ call[x].recving = "body" /\ ~BodyDead(x)
    /\ More(x) /\ Next1(x) = "junk"
    /\ \/ /\ ~Received(x)
          /\ call' = [call EXCEPT ![x].recving = "finish"]
          /\ UNCHANGED sess
       \/ /\ Received(x)
          /\ call' = [call EXCEPT ![x] = RecvFails(x)]
          /\ sess' = Spoiled
    /\ UNCHANGED <<peer, car, wire, resp>>

\* clientCarrier.Read at the end of the body, or of the exchange: the body is
\* closed and the carrier untracked.  At EOF between two frames the status is
\* looked up (io.ReadFull says EOF, too, when nothing follows a header); a
\* reset, an abort, the end of the ctx or a cut frame spoils the session.
RecvEnd(x) ==
    /\ call[x].recving = "body"
    /\ \E dead \in ReadsDead(x) :
          /\ \/ dead
             \/ wire[x].end # "none" /\ (More(x) => Next1(x) \in {"cut", "hdr"})
          /\ LET atEOF == ~dead /\ wire[x].end # "rst"
                 clean == atEOF /\ (More(x) => Next1(x) = "hdr")
             IN /\ call' = [call EXCEPT ![x] =
                       IF clean THEN [@ EXCEPT !.recving = "finish"] ELSE RecvFails(x)]
                /\ car' = [car EXCEPT ![x] = [@ EXCEPT !.bodyClosed = TRUE,
                                                        !.eof = car[x].eof \/ atEOF]]
                /\ sess' = [Untrack(x) EXCEPT !.reusable = @ /\ clean]
    /\ UNCHANGED <<peer, wire, resp>>

\* httpstatus.FromHTTP, as far as success goes: 200 and only 200 is OK.
FromHTTP(head) == IF head = "plain" THEN "ok" ELSE "err"

\* Mutation: a 200 without grpc-status counts as success.
HttpFallbackTrusts200(head) == FromHTTP(head)

\* httpFallbackStatus: no grpc-status is never success, whatever HTTP says.
HttpFallbackStatus(head) == IF head = "plain" THEN "err" ELSE FromHTTP(head)

\* resolveCallStatus: the trailers, then the headers, then HTTP.
ResolveCallStatus(head, trailers) ==
    IF trailers \in {"ok", "err"} THEN trailers
    ELSE IF head \in {"ok", "err"} THEN head
    ELSE HttpFallbackStatus(head)

\* finishClientRecv: drains what is left of the body and closes it, then
\* resolves the status.  The trailers are there if the body was read to its
\* end; over the inbound limit, they are an error that ends nothing.
RecvFinish(x) ==
    /\ call[x].recving = "finish"
    /\ \E dead \in ReadsDead(x) :
          /\ dead \/ wire[x].end # "none"
          /\ LET eof == car[x].eof \/ (~dead /\ wire[x].end # "rst")
                 status == ResolveCallStatus(wire[x].head,
                                             IF eof THEN wire[x].end ELSE "none")
             IN /\ car' = [car EXCEPT ![x] = [@ EXCEPT !.eof = eof, !.bodyClosed = TRUE]]
                /\ call' = [call EXCEPT ![x] =
                      IF eof /\ wire[x].meta = "trailers" THEN RecvFails(x)
                      ELSE [@ EXCEPT !.recving = "idle", !.term = TRUE,
                                     !.statusReturned = status = "err",
                                     !.out = IF status = "ok" THEN "ok" ELSE "status"]]
    /\ sess' = Untrack(x)
    /\ UNCHANGED <<peer, wire, resp>>

-----------------------------------------------------------------------------
(* Closing a call, and the session.                                        *)

\* The Close every call owes: behind its end, behind a Recv that failed, or
\* (hasty) before either or under a running Send or Recv.
CallClose(x) ==
    /\ call[x].at = "open" /\ call[x].closing = "no"
    /\ call' = [call EXCEPT ![x] = [@ EXCEPT
          !.closing = IF call[x].term THEN "abort" ELSE "bad",
          !.hasty = \/ ~call[x].term /\ call[x].out # "error"
                    \/ call[x].sending \/ call[x].recving # "idle"]]
    /\ UNCHANGED <<peer, sess, car, wire, resp>>

\* A call closed with sawTerminal unset spoils the session.
CloseMarksBad(x) ==
    /\ call[x].closing = "bad"
    /\ call' = [call EXCEPT ![x].closing = "abort"]
    /\ sess' = Spoiled
    /\ UNCHANGED <<peer, car, wire, resp>>

\* Abort's first section: one caller gets to do the rest.
AbortMark(x, who) ==
    car' = [car EXCEPT ![x] = [@ EXCEPT !.abort = "marked", !.by = who,
                                         !.hadResp = car[x].ready = "resp"]]

CallAborts(x) ==
    /\ call[x].closing = "abort"
    /\ IF car[x].abort = "no"
       THEN AbortMark(x, "call") /\ call' = [call EXCEPT ![x].closing = "aborting"]
       ELSE call' = [call EXCEPT ![x].closing = "flight"] /\ UNCHANGED car
    /\ UNCHANGED <<peer, sess, wire, resp>>

\* What Abort leaves: the request cancelled, the pipes closed, the response it
\* saw closed, and an error recorded unless the response was faster.
AbortResult(x) ==
    [Finish(x, "err") EXCEPT !.abort = "done", !.hadResp = FALSE,
                             !.bodyClosed = @ \/ car[x].hadResp]

\* The rest of Abort, by whoever marked it.
AbortRest(x) ==
    /\ car[x].abort = "marked"
    /\ car' = [car EXCEPT ![x] = AbortResult(x)]
    /\ sess' = [Untrack(x) EXCEPT !.todo = IF car[x].by = "session" THEN @ \ {x}
                                           ELSE @]
    /\ call' = IF car[x].by = "call"
               THEN [call EXCEPT ![x].closing = "flight"] ELSE call
    /\ UNCHANGED <<peer, wire, resp>>

EndFlight(x) ==
    /\ call[x].closing = "flight"
    /\ call' = [call EXCEPT ![x].closing = "done"]
    /\ sess' = [sess EXCEPT !.inFlight = @ - 1]
    /\ UNCHANGED <<peer, car, wire, resp>>

\* clientSession.Close under its lock; then streamConn.Close: the flag is set
\* and the carriers are taken out of the map (nobody but OpenStream looks at
\* the flag, and it does so under the lock), and each of them is aborted.
SessionClose ==
    /\ sess.at = "open"
    /\ sess' = [sess EXCEPT !.at = "closed", !.reusable = FALSE]
    /\ UNCHANGED <<peer, call, car, wire, resp>>

HandleClose ==
    /\ sess.at = "closed"
    /\ sess' = [sess EXCEPT !.at = "sweep", !.todo = sess.carriers,
                            !.carriers = {}]
    /\ UNCHANGED <<peer, call, car, wire, resp>>

HandleAborts(x) ==
    /\ sess.at = "sweep" /\ x \in sess.todo
    /\ \A y \in sess.todo : ~(car[y].abort = "marked" /\ car[y].by = "session")
    /\ IF car[x].abort = "no" THEN AbortMark(x, "session") /\ UNCHANGED sess
       ELSE sess' = [sess EXCEPT !.todo = @ \ {x}] /\ UNCHANGED car
    /\ UNCHANGED <<peer, call, wire, resp>>

\* The session's Close has returned.
SessionDone == sess.at = "sweep" /\ sess.todo = {}

-----------------------------------------------------------------------------
(* Another server's response.  It states its grpc-status once, and what it *)
(* does after the request was cancelled, or its ctx has ended, no longer    *)
(* matters.                                                                *)

Answering(x) ==
    /\ peer[x] = "foreign" /\ call[x].at = "open"
    /\ car[x].abort # "done" /\ ~car[x].expired /\ wire[x].end = "none"

PeerHead(x) ==
    /\ Answering(x) /\ wire[x].head = "none"
    /\ \E h \in Heads, m \in {"fine", "headers"} :
          wire' = [wire EXCEPT ![x] = [@ EXCEPT !.head = h, !.meta = m]]
    /\ UNCHANGED <<peer, sess, call, car, resp>>

PeerData(x) ==
    /\ Answering(x) /\ wire[x].head # "none"
    /\ \E d \in BodyItems : /\ Append(wire[x].data, d) \in Bodies
                            /\ wire' = [wire EXCEPT ![x].data = Append(@, d)]
    /\ UNCHANGED <<peer, sess, call, car, resp>>

PeerEnd(x) ==
    /\ Answering(x)
    /\ \E e \in {"ok", "err", "bare", "rst"} :
          /\ wire[x].head = "none" => e = "rst"
          /\ wire[x].head \in {"ok", "err"} => e \in {"bare", "rst"}
          /\ \/ wire' = [wire EXCEPT ![x].end = e]
             \/ /\ e \in {"ok", "err"} /\ wire[x].meta = "fine"
                /\ wire' = [wire EXCEPT ![x] = [@ EXCEPT !.end = e, !.meta = "trailers"]]
    /\ UNCHANGED <<peer, sess, call, car, resp>>

-----------------------------------------------------------------------------
(* An argos server's response: onConn over serverConn and serverCarrier.   *)

\* The carrier's lock is free.
Unlocked(x) == resp[x].sweep # "held"

\* A request arrives: its call is accepted (a rejected one is finished with its
\* error, like one whose handler failed), or its connection turned away
\* before that (server/conn.go: too many connections, Run over, no handshake).
HandlerStarts(x) ==
    /\ peer[x] = "argos" /\ call[x].at = "open" /\ car[x].abort # "done"
    /\ resp[x].at = "none"
    /\ \E a \in {"run", "closing"} : resp' = [resp EXCEPT ![x].at = a]
    /\ UNCHANGED <<peer, sess, call, car, wire>>

\* The call's headersSent: WriteHeaders has flushed them.
HeadersSent(x) == wire[x].head # "none"

\* SendHeaders, by the handler or by its first Send: WriteHeaders flushes them,
\* or reports the abort, which ends the send direction.
HandlerSendHeaders(x) ==
    /\ resp[x].at = "run" /\ ~HeadersSent(x) /\ ~resp[x].failed /\ Unlocked(x)
    /\ IF resp[x].aborted
       THEN resp' = [resp EXCEPT ![x].failed = TRUE] /\ UNCHANGED wire
       ELSE /\ resp' = [resp EXCEPT ![x].written = TRUE]
            /\ wire' = [wire EXCEPT ![x].head = "plain"]
    /\ UNCHANGED <<peer, sess, call, car>>

\* Send, once the headers are out: WriteLPM writes the frame's header and then
\* its payload.  Each write is refused after an abort, and may fail once the
\* peer has cancelled; a failure ends the send direction.
WriteMayFail(x) == resp[x].aborted \/ car[x].abort = "done" \/ car[x].expired

HandlerSends(x) ==
    /\ resp[x].at = "run" /\ HeadersSent(x) /\ ~resp[x].failed /\ Unlocked(x)
    /\ \/ /\ WriteMayFail(x)
          /\ resp' = [resp EXCEPT ![x].failed = TRUE] /\ UNCHANGED wire
       \/ /\ ~resp[x].aborted /\ Len(wire[x].data) < MaxSends
          /\ resp' = [resp EXCEPT ![x].at = "lpm"]
          /\ wire' = [wire EXCEPT ![x].data = Append(@, "hdr")]
    /\ UNCHANGED <<peer, sess, call, car>>

HandlerSendsPayload(x) ==
    /\ resp[x].at = "lpm" /\ Unlocked(x)
    /\ \/ /\ WriteMayFail(x)
          /\ resp' = [resp EXCEPT ![x] = [@ EXCEPT !.at = "run", !.failed = TRUE]]
          /\ UNCHANGED wire
       \/ /\ ~resp[x].aborted
          /\ resp' = [resp EXCEPT ![x].at = "run"]
          /\ wire' = [wire EXCEPT ![x].data[Len(wire[x].data)] = "msg"]
    /\ UNCHANGED <<peer, sess, call, car>>

\* Finish at the end of handleCall: refused when the send direction has failed
\* or the exchange is aborted (nobody looks at the send direction after it).
\* Nothing is flushed before the handler returns.
HandlerFinishes(x) ==
    /\ resp[x].at = "run" /\ Unlocked(x)
    /\ \E v \in {"ok", "err"} :
          resp' = [resp EXCEPT ![x] = [@ EXCEPT
             !.at = "closing",
             !.finished = IF resp[x].failed \/ resp[x].aborted THEN resp[x].finished ELSE v]]
    /\ UNCHANGED <<peer, sess, call, car, wire>>

\* onConn closes its connection: Close returns at once when the sweep was
\* there first, and aborts the exchange otherwise.
HandlerCloses(x) ==
    /\ resp[x].at = "closing"
    /\ \/ /\ resp[x].closed
          /\ resp' = [resp EXCEPT ![x].at = "closed"]
       \/ /\ ~resp[x].closed /\ Unlocked(x)
          /\ LET answer == ~resp[x].written /\ resp[x].finished = "no"
             IN resp' = [resp EXCEPT ![x] = [@ EXCEPT
                   !.at = "closed", !.closed = TRUE, !.aborted = TRUE,
                   !.written = resp[x].written \/ answer,
                   !.finished = IF answer THEN "408" ELSE resp[x].finished]]
    /\ UNCHANGED <<peer, sess, call, car, wire>>

\* handleRequest's deferred calls: markHandlerDone, then out of the map.
HandlerLeaves(x) ==
    /\ resp[x].at = "closed"
    /\ resp' = [resp EXCEPT ![x].at = "left"]
    /\ UNCHANGED <<peer, sess, call, car, wire>>

\* net/http ends the response: the trailers if the headers are out, both at
\* once if not, and 200 if the handler wrote nothing.
Ended(x) ==
    LET f == resp[x].finished
    IN IF f = "408" THEN [wire[x] EXCEPT !.head = "http", !.end = "bare"]
       ELSE IF wire[x].head # "none"
       THEN [wire[x] EXCEPT !.end = IF f = "no" THEN "bare" ELSE f]
       ELSE [wire[x] EXCEPT !.head = IF f = "no" THEN "plain" ELSE f,
                            !.end = "bare"]

HandlerOver(x) ==
    /\ resp[x].at = "left"
    /\ resp' = [resp EXCEPT ![x].at = "over"]
    /\ wire' = [wire EXCEPT ![x] = Ended(x)]
    /\ UNCHANGED <<peer, sess, call, car>>

\* closeAllServerConns closes a tracked connection it has collected.  (One
\* that its handler has closed since is left alone.)
SweepCloses(x) ==
    /\ resp[x].at \in {"run", "lpm", "closing"} /\ ~resp[x].closed
    /\ resp' = [resp EXCEPT ![x] = [@ EXCEPT !.sweep = "abort", !.closed = TRUE]]
    /\ UNCHANGED <<peer, sess, call, car, wire>>

\* Abort up to its look at handlerDone, with the lock: the answer is still due
\* while the handler is there.
SweepAborts(x) ==
    /\ resp[x].sweep = "abort"
    /\ resp' = [resp EXCEPT ![x] = [@ EXCEPT
          !.aborted = TRUE,
          !.sweep = IF /\ ~resp[x].written /\ resp[x].finished = "no"
                       /\ resp[x].at \notin {"left", "over"}
                    THEN "held" ELSE "done"]]
    /\ UNCHANGED <<peer, sess, call, car, wire>>

\* ... and the WriteHeader after it, on whatever the response writer is now: the
\* handler may have left since, and net/http panics on a retired writer.
SweepAnswers(x) ==
    /\ resp[x].sweep = "held"
    /\ resp' = [resp EXCEPT ![x] = [@ EXCEPT
          !.sweep = "done", !.written = TRUE, !.finished = "408"]]
    /\ UNCHANGED <<peer, sess, call, car, wire>>

-----------------------------------------------------------------------------
ClientSteps(x) ==
    \/ OpenStream(x) \/ DoReturns(x) \/ SendReturns(x)
    \/ RecvHeaders(x) \/ RecvFrame(x) \/ RecvJunk(x) \/ RecvEnd(x) \/ RecvFinish(x)
    \/ CloseMarksBad(x) \/ CallAborts(x) \/ AbortRest(x) \/ EndFlight(x)

ClientStarts(x) ==
    \/ OpenCall(x) \/ SendStarts(x) \/ HalfClose(x) \/ RecvStarts(x) \/ CallClose(x)
    \/ CtxEnds(x)

PeerSteps(x) == PeerHead(x) \/ PeerData(x) \/ PeerEnd(x)

ServerSteps(x) ==
    \/ HandlerStarts(x) \/ HandlerSendHeaders(x) \/ HandlerSends(x)
    \/ HandlerSendsPayload(x) \/ HandlerFinishes(x) \/ HandlerCloses(x)
    \/ HandlerLeaves(x) \/ HandlerOver(x)
    \/ SweepCloses(x) \/ SweepAborts(x) \/ SweepAnswers(x)

Next ==
    \/ \E x \in Calls : \/ ClientStarts(x) \/ ClientSteps(x) \/ HandleAborts(x)
                        \/ PeerSteps(x) \/ ServerSteps(x)
    \/ SessionClose \/ HandleClose

Spec == Init /\ [][Next]_vars

\* Goroutines inside the client's code run on: whatever they wait for, they
\* wait for it in net/http, which answers when the exchange ends or the request
\* is cancelled.  Nobody has to start an operation, and no peer to answer.
FairSpec ==
    /\ Spec
    /\ \A x \in Calls :
          /\ WF_vars(OpenStream(x)) /\ WF_vars(DoReturns(x))
          /\ WF_vars(SendReturns(x))
          /\ WF_vars(\/ RecvHeaders(x) \/ RecvFrame(x) \/ RecvJunk(x)
                     \/ RecvEnd(x) \/ RecvFinish(x))
          /\ WF_vars(CloseMarksBad(x) \/ CallAborts(x) \/ EndFlight(x))
          /\ WF_vars(AbortRest(x)) /\ WF_vars(HandleAborts(x))
    /\ WF_vars(HandleClose)

-----------------------------------------------------------------------------
(* Properties.                                                             *)

\* The grpc-status a response carries, if any.
StatusOnWire(x) ==
    IF wire[x].end \in {"ok", "err"} THEN wire[x].end
    ELSE IF wire[x].head \in {"ok", "err"} THEN wire[x].head ELSE "none"

\* A call that Recv reports as successful was declared successful by the peer
\* (by an argos server's own Finish(nil)), and every message before the end of
\* the body, or before bytes that are no frame, has been received; no HTTP 200,
\* reset, cut frame, abort or sweep is turned into success, with one exception:
\* a message cut right behind its header is dropped (lpm.go:105, where io.EOF
\* also means that nothing followed the header).  A status error is
\* never made up while the peer's OK is there to be read, unless this side
\* aborted the exchange, its ctx ended or the stream was reset.
AnswerFaithful ==
    \A x \in Calls :
        /\ call[x].out = "ok" =>
              /\ StatusOnWire(x) = "ok"
              /\ peer[x] = "argos" => resp[x].finished = "ok"
              /\ call[x].got < Len(wire[x].data) => Next1(x) \in {"junk", "hdr"}
        /\ call[x].out = "status" =>
              \/ StatusOnWire(x) # "ok" \/ wire[x].end = "rst"
              \/ car[x].abort # "no" \/ car[x].expired

\* The response itself is damaged: a reset or a body that is not gRPC.
Damaged(x) ==
    \/ wire[x].end = "rst"
    \/ \E i \in DOMAIN wire[x].data : wire[x].data[i] \in {"enc", "junk", "cut"}

\* Metadata over the inbound limit, or a message over the message limit.  Unlike
\* a frame over the frame limit these do not set sawTerminal, so the Close the
\* call owes spoils the session, although such a limit is meant to stay the
\* call's own business (call.go:333-336, 613-616).
OverLimit(x) ==
    \/ wire[x].meta # "fine"
    \/ \E i \in DOMAIN wire[x].data : i <= call[x].got /\ wire[x].data[i] = "fat"

\* An open session stays reusable whatever happens to single calls (error
\* statuses, early answers that fail a Send, frames over the frame limit, other
\* limits while the call is not closed, a server that turns the request away)
\* unless the application gave a call up before its end, closed it under a
\* running Send or Recv, or read it past its end; or a call's ctx ended before
\* its status; or its response was damaged; or it met a limit that its Close then
\* makes everybody's business.  Calls share the session, so a call that spoils
\* it without cause costs all later ones a new connection.
SessionKept ==
    sess.at = "open" /\ ~sess.reusable =>
        \E x \in Calls : \/ call[x].hasty \/ call[x].reread \/ car[x].expired
                         \/ Damaged(x)
                         \/ call[x].closing # "no" /\ OverLimit(x)

\* The session's books: inFlight counts exactly the calls between OpenCall and
\* the end of Close, however opening, closing and the session's Close
\* interleave; a carrier whose exchange is over, or whose call is closed, is not
\* tracked any more, and a closed handle tracks nothing.
ExchangeAccounted ==
    /\ TypeOK
    /\ sess.inFlight = Cardinality({x \in Calls :
          \/ call[x].at = "stream"
          \/ call[x].at = "open" /\ call[x].closing # "done"})
    /\ \A x \in sess.carriers : /\ call[x].closing # "done"
                                /\ car[x].ready # "err" /\ ~car[x].bodyClosed
    /\ sess.at = "sweep" => sess.carriers = {}

\* Closing a call, or the session, ends the Send and the Recv in progress and
\* itself returns, whatever the peer does: nobody waits for a response that
\* never comes.
CloseUnblocks ==
    /\ \A x \in Calls :
          call[x].closing # "no" ~> /\ call[x].closing = "done"
                                    /\ call[x].recving = "idle" /\ ~call[x].sending
    /\ \A x \in Calls : sess.at # "open" ~> SessionDone /\ call[x].recving = "idle"

=============================================================================
