---------------------------- MODULE RespSession ----------------------------
(***************************************************************************)
(* example/resp: the RESP2 protocol axis.  Two ends of one TCP connection, *)
(* each a session with its read loop, its buffer and its single in-flight  *)
(* slot: the client's as the pool's dial makes it (HELLO, AUTH), lends it  *)
(* to one call after another and closes it; the server's as the sequential *)
(* accept loop drives it.                                                  *)
(*                                                                         *)
(* RESP2 has no stream identifiers: a reply belongs to a call only because *)
(* of its place in the byte stream.  What keeps that true is `reusable',   *)
(* so the model keeps every critical section of session.mu and call.mu as  *)
(* a step of its own.  A read may end inside a value (Part); bytes that    *)
(* are no RESP value are Junk.                                             *)
(***************************************************************************)
EXTENDS Naturals, Sequences, FiniteSets

CONSTANTS
    NCalls,      \* bound: client calls, opened one after another
    Methods,     \* per call: the commands it may be, of GET, SUBSCRIBE, BOGUS
    Breaking,    \* bound: the commands whose error texts may hold a line break
    Passwords,   \* the configured passwords, pairs <<client's, server's>>
    NoPw,        \* no password configured
    MaxPushes,   \* bound: messages one SUBSCRIBE handler pushes
    MaxEvents,   \* bound: closes of a session, cuts and expiries
    None

Calls == 1 .. NCalls
Sides == {"C", "S"}
Peer(s) == IF s = "C" THEN "S" ELSE "C"
Dial == 0                                 \* the goroutine dialling for the pool
Srv == NCalls + 1                         \* the server connection's goroutine
Readers == Calls \cup {Dial, Srv}         \* the goroutines that wait for input
SideOf(p) == IF p = Srv THEN "S" ELSE "C"
Known == {"GET", "SUBSCRIBE"}             \* the commands AcceptCall knows
Streaming(m) == m = "SUBSCRIBE"

Junk == [m |-> "junk", k |-> None]
Part == [m |-> "part", k |-> None]        \* the beginning of the next value
Val(m, k) == [m |-> m, k |-> k]
Outcome(o) == [m |-> o, k |-> None]       \* a wait that returns no value

Commands == {"GET", "SUBSCRIBE", "BOGUS"} \* BOGUS stands for those not Known
Words == Commands \cup {"HELLO", "AUTH", "OK", "ERR", "reply", "push"}
Values == [m: Words, k: Calls \cup {None}]
Input == Seq(Values \cup {Junk, Part})

ASSUME RespAssumption ==
    /\ {NCalls, MaxPushes, MaxEvents} \subseteq Nat
    /\ \A k \in Calls : Methods[k] \subseteq Commands
    /\ Breaking \subseteq Commands
    /\ None \notin Calls /\ None \notin Words

VARIABLES
    sess,     \* per side: the session's fields under session.mu
    wire,     \* per side: bytes on their way to it
    cut,      \* the network has dropped the connection
    pw,       \* per side: the configured password
    at,       \* where each goroutine is
    rd,       \* its wait for input: "off", "look" (under mu), "park" (select)
    woken,    \* the wake channel it parked on has been closed
    res,      \* what its wait returned
    ctx,      \* the readers whose context is done
    call,     \* per client call: the call's fields under call.mu
    srv,      \* the server call in flight, its fields
    got,      \* per client call: the replies Recv returned
    slips,    \* "close": a Close overtook a failed Recv before its markBad;
              \* "text": an error text left a whole value behind its first line
    events    \* how many of the MaxEvents have happened

vars == <<sess, wire, cut, pw, at, rd, woken, res, ctx, call, srv, got, slips,
          events>>
reads == <<rd, woken, res>>
env == <<cut, pw>>

Sess == [closed: BOOLEAN, reusable: BOOLEAN, exclusive: BOOLEAN, busy: BOOLEAN,
         readErr: BOOLEAN, buf: Input,
         loop: {"run", "failed", "done"},           \* readLoop; "done": readerDone
         conn: BOOLEAN,                             \* this end of the Conn is open
         shut: {"no", "flagged", "wait", "done"}]   \* closeSession's progress

NewSession == [closed |-> FALSE, reusable |-> TRUE, exclusive |-> FALSE,
               busy |-> FALSE, readErr |-> FALSE, buf |-> <<>>, loop |-> "run",
               conn |-> TRUE, shut |-> "no"]

NoCall == [m |-> None, closed |-> FALSE, terminal |-> FALSE, sendDone |-> FALSE,
           ending |-> "no"]
NoSrv == [m |-> None, k |-> None, replySent |-> FALSE, finished |-> FALSE,
          pushes |-> 0]

Init ==
    /\ \E c \in Passwords : pw = [s \in Sides |-> IF s = "C" THEN c[1] ELSE c[2]]
    /\ sess = [s \in Sides |-> NewSession]
    /\ wire = [s \in Sides |-> <<>>]
    /\ cut = FALSE
    /\ at = [p \in Readers |-> IF p \in Calls THEN "new" ELSE "hello"]
    /\ rd = [p \in Readers |-> IF p = Srv THEN "look" ELSE "off"]
    /\ woken = [p \in Readers |-> FALSE]
    /\ res = [p \in Readers |-> None]
    /\ ctx = {}
    /\ call = [k \in Calls |-> NoCall]
    /\ srv = NoSrv
    /\ got = [k \in Calls |-> {}]
    /\ slips = {}
    /\ events = 0

-----------------------------------------------------------------------------
(* The read loop and the waits it serves.                                  *)

\* broadcastReadLocked: closes the wake channel every parked reader of s holds.
Broadcast(s) ==
    woken' = [p \in Readers |-> woken[p] \/ (SideOf(p) = s /\ rd[p] = "park")]

\* Something from outside happens, within the bound.
Event == events < MaxEvents /\ events' = events + 1

\* readLoop: the carrier returned bytes, the rest of a value or a whole one ...
Whole(b) == IF b # <<>> /\ b[Len(b)] = Part THEN SubSeq(b, 1, Len(b) - 1) ELSE b
ReadLoopData(s) ==
    /\ sess[s].loop = "run" /\ sess[s].conn /\ ~cut /\ wire[s] # <<>>
    /\ sess' = [sess EXCEPT ![s].buf = Append(Whole(@), Head(wire[s]))]
    /\ wire' = [wire EXCEPT ![s] = Tail(@)]
    /\ Broadcast(s)
    /\ UNCHANGED <<env, at, rd, res, ctx, call, srv, got, slips, events>>

\* ... or only the beginning of one.
ReadLoopPart(s) ==
    /\ sess[s].loop = "run" /\ sess[s].conn /\ ~cut /\ wire[s] # <<>>
    /\ Head(wire[s]) # Junk /\ Whole(sess[s].buf) = sess[s].buf
    /\ sess' = [sess EXCEPT ![s].buf = Append(@, Part)]
    /\ Broadcast(s)
    /\ UNCHANGED <<wire, env, at, rd, res, ctx, call, srv, got, slips, events>>

\* Mutation: the failing read loop records the error and wakes nobody.
ReadLoopFailsSilently(s) ==
    /\ sess[s].loop = "run"
    /\ ~sess[s].conn \/ cut \/ ~sess[Peer(s)].conn
    /\ sess' = [sess EXCEPT ![s] = [@ EXCEPT !.readErr = TRUE, !.reusable = FALSE,
                                             !.loop = "failed"]]
    /\ UNCHANGED <<wire, env, at, reads, ctx, call, srv, got, slips, events>>

\* readLoop: the carrier failed; a peer that closed may lose what it wrote.
ReadLoopFails(s) ==
    /\ sess[s].loop = "run"
    /\ ~sess[s].conn \/ cut \/ ~sess[Peer(s)].conn
    /\ sess' = [sess EXCEPT ![s] = [@ EXCEPT !.readErr = TRUE, !.reusable = FALSE,
                                             !.loop = "failed"]]
    /\ Broadcast(s)
    /\ UNCHANGED <<wire, env, at, rd, res, ctx, call, srv, got, slips, events>>

\* The deferred tripPeerGone and close(readerDone).
ReadLoopExits(s) ==
    /\ sess[s].loop = "failed"
    /\ sess' = [sess EXCEPT ![s].loop = "done"]
    /\ UNCHANGED <<wire, env, at, reads, ctx, call, srv, got, slips, events>>

PeerGone(s) == sess[s].closed \/ sess[s].loop = "done"

\* One pass of waitFirstByte or readValue under session.mu: what it returns,
\* or "wait".  The accept loop's first wait only asks for a byte.
LookResult(p) ==
    LET s == sess[SideOf(p)]
        first == p = Srv /\ at[p] = "first"
    IN CASE first /\ s.buf # <<>> -> Outcome("byte")
         [] ~first /\ s.buf # <<>> /\ Head(s.buf) = Junk -> Outcome("bad")
         [] ~first /\ s.buf # <<>> /\ Head(s.buf) \notin {Junk, Part} -> Head(s.buf)
         [] OTHER -> Outcome(IF s.readErr \/ s.closed THEN "err" ELSE "wait")

Look(p) ==
    LET s == SideOf(p)
        r == LookResult(p)
    IN /\ rd[p] = "look"
       /\ IF r.m = "wait"
          THEN /\ rd' = [rd EXCEPT ![p] = "park"]
               /\ UNCHANGED <<sess, res>>
          ELSE /\ rd' = [rd EXCEPT ![p] = "off"]
               /\ res' = [res EXCEPT ![p] = r]
               /\ sess' = [sess EXCEPT ![s] =
                      [@ EXCEPT !.reusable = sess[s].reusable /\ r.m # "bad",
                                !.buf = IF r.m \in {"bad", "byte", "err"} THEN sess[s].buf
                                        ELSE Tail(sess[s].buf)]]
       /\ UNCHANGED <<woken, wire, env, at, ctx, call, srv, got, slips, events>>

\* The select: a closed wake channel or closeCh makes the reader look again.
Wake(p) ==
    /\ rd[p] = "park"
    /\ woken[p] \/ sess[SideOf(p)].closed
    /\ rd' = [rd EXCEPT ![p] = "look"]
    /\ woken' = [woken EXCEPT ![p] = FALSE]
    /\ UNCHANGED <<sess, wire, env, at, res, ctx, call, srv, got, slips, events>>

\* The select: its context is done.
CtxEnds(p) ==
    /\ rd[p] = "park" /\ p \in ctx
    /\ rd' = [rd EXCEPT ![p] = "off"]
    /\ res' = [res EXCEPT ![p] = Outcome("ctx")]
    /\ woken' = [woken EXCEPT ![p] = FALSE]
    /\ UNCHANGED <<sess, wire, env, at, ctx, call, srv, got, slips, events>>

\* Start waiting for input at the place pl.
Await(p, pl) ==
    /\ at' = [at EXCEPT ![p] = pl]
    /\ rd' = [rd EXCEPT ![p] = "look"]
    /\ res' = [res EXCEPT ![p] = None]
    /\ UNCHANGED woken

\* p's wait has returned.
Returned(p, pl) == at[p] = pl /\ rd[p] = "off"
Goto(p, pl) ==
    /\ at' = [at EXCEPT ![p] = pl]
    /\ res' = [res EXCEPT ![p] = None]
    /\ UNCHANGED <<rd, woken>>
IsError(r) == r.m \in {"err", "bad", "ctx"}

-----------------------------------------------------------------------------
(* Writing and closing.                                                    *)

Dead(s) == ~sess[s].conn \/ cut
\* writeRaw succeeds and puts the values vs on the wire ...
Writes(s, vs) ==
    /\ ~Dead(s)
    /\ wire' = [wire EXCEPT ![Peer(s)] = @ \o vs]
    /\ UNCHANGED sess
\* ... or fails and marks the session bad.
WriteFails(s) ==
    /\ Dead(s) \/ ~sess[Peer(s)].conn
    /\ sess' = [sess EXCEPT ![s].reusable = FALSE]
    /\ UNCHANGED wire

\* closeSession, first half: the flags and the broadcast.
CloseFlags(s) ==
    /\ sess' = IF sess[s].closed THEN sess
               ELSE [sess EXCEPT ![s] = [@ EXCEPT !.closed = TRUE, !.reusable = FALSE,
                                                  !.shut = "flagged"]]
    /\ IF sess[s].closed THEN UNCHANGED woken ELSE Broadcast(s)

\* The pool closes a client session it has been given.
ClientClose ==
    /\ at[Dial] = "ready" /\ ~sess["C"].closed
    /\ CloseFlags("C")
    /\ Event
    /\ UNCHANGED <<wire, env, at, rd, res, ctx, call, srv, got, slips>>

\* serverConn.Close: before Handshake has stored the session, only the Conn.
ServerClose ==
    /\ at[Srv] # "gone" /\ ~sess["S"].closed /\ sess["S"].conn
    /\ IF at[Srv] \in {"hello", "auth"}
       THEN sess' = [sess EXCEPT !["S"].conn = FALSE] /\ UNCHANGED woken
       ELSE CloseFlags("S")
    /\ Event
    /\ UNCHANGED <<wire, env, at, rd, res, ctx, call, srv, got, slips>>

\* Mutation: closeSession joins the read loop without closing the Conn.
CloseConnJoins(s) ==
    /\ sess[s].shut = "flagged"
    /\ sess' = [sess EXCEPT ![s].shut = "wait"]
    /\ UNCHANGED <<wire, env, at, reads, ctx, call, srv, got, slips, events>>

\* closeSession, second half: conn.Close, then <-readerDone.
CloseConn(s) ==
    /\ sess[s].shut = "flagged"
    /\ sess' = [sess EXCEPT ![s] = [@ EXCEPT !.conn = FALSE, !.shut = "wait"]]
    /\ UNCHANGED <<wire, env, at, reads, ctx, call, srv, got, slips, events>>
CloseJoins(s) ==
    /\ sess[s].shut = "wait" /\ sess[s].loop = "done"
    /\ sess' = [sess EXCEPT ![s].shut = "done"]
    /\ UNCHANGED <<wire, env, at, reads, ctx, call, srv, got, slips, events>>

\* The network drops the connection.
Cut ==
    /\ ~cut /\ cut' = TRUE
    /\ Event
    /\ UNCHANGED <<sess, wire, pw, at, reads, ctx, call, srv, got, slips>>

\* A deadline or a cancellation: of the dial, of the handshake or accept wait
\* (idle timeout, OpenTimeout, shutdown), or of the caller of a call.
Expire(p) ==
    /\ p \notin ctx /\ at[p] \notin {"new", "ready", "failed", "gone"}
    /\ ctx' = ctx \cup {p}
    /\ Event
    /\ UNCHANGED <<sess, wire, env, at, reads, call, srv, got, slips>>

-----------------------------------------------------------------------------
(* The handshakes.                                                         *)

\* clientHandshake's two writes; dial closes the session when one fails.
HelloWrites(s, v) ==
    \/ Writes(s, <<v>>) /\ Await(Dial, IF v.m = "HELLO" THEN "helloRead" ELSE "authRead")
    \/ WriteFails(s) /\ Goto(Dial, "fail")
DialHello ==
    /\ at[Dial] = "hello"
    /\ HelloWrites("C", Val("HELLO", None))
    /\ UNCHANGED <<env, ctx, call, srv, got, slips, events>>
DialAuth ==
    /\ at[Dial] = "auth"
    /\ HelloWrites("C", Val("AUTH", None))
    /\ UNCHANGED <<env, ctx, call, srv, got, slips, events>>

\* HELLO's reply is not looked at; AUTH's must be +OK.
DialRead ==
    /\ \E pl \in {"helloRead", "authRead"} :
          /\ Returned(Dial, pl)
          /\ Goto(Dial,
                IF IsError(res[Dial]) THEN "fail"
                ELSE IF pl = "helloRead" /\ pw["C"] # NoPw THEN "auth"
                ELSE IF pl = "authRead" /\ res[Dial].m # "OK" THEN "fail"
                ELSE "ready")
    /\ UNCHANGED <<sess, wire, env, ctx, call, srv, got, slips, events>>

\* dial: closeSession and return the error.
DialFails ==
    /\ at[Dial] = "fail"
    /\ CloseFlags("C")
    /\ at' = [at EXCEPT ![Dial] = "failed"]
    /\ UNCHANGED <<wire, env, rd, res, ctx, call, srv, got, slips, events>>

\* serverHandshake: HELLO is answered; AUTH is demanded when configured.
ServerHello ==
    LET r == res[Srv] IN
    /\ Returned(Srv, "hello")
    /\ \/ /\ ~IsError(r) /\ r.m = "HELLO"
          /\ Writes("S", <<Val("OK", None)>>)
          /\ IF pw["S"] = NoPw THEN Goto(Srv, "idle") ELSE Await(Srv, "auth")
       \/ /\ ~IsError(r) /\ r.m = "HELLO" /\ WriteFails("S") /\ Goto(Srv, "fail")
       \/ /\ IsError(r) \/ r.m # "HELLO"
          /\ Goto(Srv, "fail") /\ UNCHANGED <<sess, wire>>
    /\ UNCHANGED <<env, ctx, call, srv, got, slips, events>>

ServerAuth ==
    LET r == res[Srv]
        auth == ~IsError(r) /\ r.m = "AUTH"
        ok == pw["C"] = pw["S"]
    IN
    /\ Returned(Srv, "auth")
    /\ \/ /\ auth
          /\ Writes("S", <<Val(IF ok THEN "OK" ELSE "ERR", None)>>)
          /\ Goto(Srv, IF ok THEN "idle" ELSE "fail")
       \/ auth /\ WriteFails("S") /\ Goto(Srv, "fail")
       \/ ~auth /\ Goto(Srv, "fail") /\ UNCHANGED <<sess, wire>>
    /\ UNCHANGED <<env, ctx, call, srv, got, slips, events>>

\* Handshake's closeSession, and the accept loop's Close after an error.
ServerFails ==
    /\ at[Srv] = "fail"
    /\ CloseFlags("S")
    /\ at' = [at EXCEPT ![Srv] = "gone"]
    /\ UNCHANGED <<wire, env, rd, res, ctx, call, srv, got, slips, events>>

-----------------------------------------------------------------------------
(* Client calls.                                                           *)

\* clientConn.OpenCall's test under session.mu.
Lendable == ~sess["C"].closed /\ sess["C"].reusable /\ ~sess["C"].exclusive
            /\ ~sess["C"].busy

OpenCall(k, m) ==
    /\ at[Dial] = "ready" /\ at[k] = "new" /\ (k > 1 => at[k - 1] # "new") /\ Lendable
    /\ sess' = [sess EXCEPT !["C"].busy = TRUE]
    /\ call' = [call EXCEPT ![k].m = m]
    /\ at' = [at EXCEPT ![k] = IF Streaming(m) THEN "exclusive" ELSE "user"]
    /\ UNCHANGED <<wire, env, reads, ctx, srv, got, slips, events>>

MarkExclusive(k) ==
    /\ at[k] = "exclusive"
    /\ sess' = [sess EXCEPT !["C"] = [@ EXCEPT !.exclusive = TRUE, !.reusable = FALSE]]
    /\ at' = [at EXCEPT ![k] = "user"]
    /\ UNCHANGED <<wire, env, reads, ctx, call, srv, got, slips, events>>

\* Send's test under call.mu, then sendClient's write.
SendStarts(k) ==
    /\ at[k] = "user"
    /\ ~call[k].closed /\ ~call[k].sendDone
    /\ at' = [at EXCEPT ![k] = "write"]
    /\ UNCHANGED <<sess, wire, env, reads, ctx, call, srv, got, slips, events>>
SendWrites(k) ==
    /\ at[k] = "write"
    /\ \/ /\ Writes("C", <<Val(call[k].m, k)>>)
          /\ call' = [call EXCEPT ![k].sendDone = TRUE]
       \/ WriteFails("C") /\ UNCHANGED call
    /\ at' = [at EXCEPT ![k] = "user"]
    /\ UNCHANGED <<env, reads, ctx, srv, got, slips, events>>

HalfClose(k) ==
    /\ at[k] = "user" /\ ~call[k].closed /\ ~call[k].sendDone
    /\ call' = [call EXCEPT ![k].sendDone = TRUE]
    /\ UNCHANGED <<sess, wire, env, at, reads, ctx, srv, got, slips, events>>

\* recvClient: nothing to read once the call is closed or at its end.
RecvStarts(k) ==
    /\ at[k] = "user" /\ ~call[k].closed /\ ~call[k].terminal
    /\ Await(k, "recv")
    /\ UNCHANGED <<sess, wire, env, ctx, call, srv, got, slips, events>>

RecvValue(k) ==
    /\ Returned(k, "recv") /\ ~IsError(res[k])
    /\ got' = [got EXCEPT ![k] = @ \cup {res[k]}]
    /\ call' = [call EXCEPT ![k].terminal = @ \/ ~Streaming(call[k].m)]
    /\ Goto(k, "user")
    /\ UNCHANGED <<sess, wire, env, ctx, srv, slips, events>>

\* recvClient's error path: terminal under call.mu, and only after the unlock,
\* unless the call was closed, the session's markBad.
RecvFails(k) ==
    /\ Returned(k, "recv") /\ IsError(res[k])
    /\ call' = [call EXCEPT ![k].terminal = TRUE]
    /\ Goto(k, IF call[k].closed THEN "user" ELSE "markBad")
    /\ UNCHANGED <<sess, wire, env, ctx, srv, got, slips, events>>
RecvMarksBad(k) ==
    /\ at[k] = "markBad"
    /\ sess' = [sess EXCEPT !["C"].reusable = FALSE]
    /\ Goto(k, "user")
    /\ UNCHANGED <<wire, env, ctx, call, srv, got, slips, events>>

\* Close, from any goroutine: closed and poison under call.mu, then cancel.
Poison(k) == Streaming(call[k].m) \/ ~call[k].terminal
CloseCall(k) ==
    /\ at[k] \notin {"new", "exclusive"} /\ ~call[k].closed
    /\ call' = [call EXCEPT ![k] =
                   [@ EXCEPT !.closed = TRUE,
                             !.terminal = call[k].terminal \/ Streaming(call[k].m),
                             !.ending = IF Poison(k) THEN "poison" ELSE "clean"]]
    /\ ctx' = ctx \cup {k}
    /\ slips' = slips \cup (IF at[k] = "markBad" THEN {"close"} ELSE {})
    /\ UNCHANGED <<sess, wire, env, at, reads, srv, got, events>>

\* Mutation: endCall forgets the poison flag.
EndCallTrusting(k) ==
    /\ call[k].ending \in {"poison", "clean"}
    /\ sess' = [sess EXCEPT !["C"].busy = FALSE]
    /\ call' = [call EXCEPT ![k].ending = "done"]
    /\ UNCHANGED <<wire, env, at, reads, ctx, srv, got, slips, events>>

\* endCall under session.mu: the slot is free.
EndCall(k) ==
    /\ call[k].ending \in {"poison", "clean"}
    /\ sess' = [sess EXCEPT !["C"] =
                   [@ EXCEPT !.busy = FALSE,
                             !.reusable = sess["C"].reusable /\ call[k].ending = "clean"
                                          /\ ~sess["C"].exclusive]]
    /\ call' = [call EXCEPT ![k].ending = "done"]
    /\ UNCHANGED <<wire, env, at, reads, ctx, srv, got, slips, events>>

-----------------------------------------------------------------------------
(* The server's accept loop, one call at a time.                           *)

\* AcceptCall takes the slot before it waits.
AcceptCall ==
    /\ at[Srv] = "idle"
    /\ IF sess["S"].closed
       THEN Goto(Srv, "fail") /\ UNCHANGED sess
       ELSE /\ sess' = [sess EXCEPT !["S"].busy = TRUE]
            /\ Await(Srv, "first")
    /\ UNCHANGED <<wire, env, ctx, call, srv, got, slips, events>>

AcceptFirst ==
    /\ Returned(Srv, "first")
    /\ IF res[Srv].m = "byte"
       THEN Await(Srv, "open") /\ UNCHANGED sess
       ELSE Goto(Srv, "fail") /\ sess' = [sess EXCEPT !["S"].busy = FALSE]
    /\ UNCHANGED <<wire, env, ctx, call, srv, got, slips, events>>

\* The command: a call, a call to be rejected (the slot stays with it), or an
\* error, which frees the slot; OpenTimeout and a non-command spoil the session.
AcceptOpen ==
    LET r == res[Srv] IN
    /\ Returned(Srv, "open")
    /\ IF IsError(r)
       THEN /\ sess' = [sess EXCEPT !["S"] =
                           [@ EXCEPT !.busy = FALSE,
                                     !.reusable = sess["S"].reusable /\ r.m # "ctx"]]
            /\ Goto(Srv, "fail") /\ UNCHANGED srv
       ELSE /\ srv' = [NoSrv EXCEPT !.m = r.m, !.k = r.k]
            /\ sess' = [sess EXCEPT !["S"] =
                   [@ EXCEPT !.exclusive = sess["S"].exclusive \/ Streaming(r.m),
                             !.reusable = sess["S"].reusable /\ ~Streaming(r.m)]]
            /\ Goto(Srv, IF r.m \in Known THEN "handler" ELSE "reject")
    /\ UNCHANGED <<wire, env, ctx, call, got, slips, events>>

\* Send from the handler: one reply of a unary call, pushes of a subscription,
\* for as long as it has not seen the peer go.
ServerSend ==
    /\ at[Srv] = "handler" /\ srv.pushes < MaxPushes
    /\ IF Streaming(srv.m) THEN ~PeerGone("S") ELSE ~srv.replySent
    /\ srv' = [srv EXCEPT !.replySent = TRUE, !.pushes = @ + 1]
    /\ Writes("S", <<Val(IF Streaming(srv.m) THEN "push" ELSE "reply", srv.k)>>)
    /\ UNCHANGED <<env, at, reads, ctx, call, got, slips, events>>
\* sendServer's write failed: replySent stays as it was, the handler returns.
ServerSendFails ==
    /\ at[Srv] = "handler" /\ (Streaming(srv.m) \/ ~srv.replySent)
    /\ WriteFails("S")
    /\ at' = [at EXCEPT ![Srv] = "reject"]
    /\ UNCHANGED <<env, reads, ctx, call, srv, got, slips, events>>

\* The handler returns: a subscription's at once, when it refuses the arguments,
\* or when its peer or its ctx has gone.
HandlerReturns ==
    /\ at[Srv] = "handler"
    /\ \E pl \in {"finish", "reject"} :
          /\ \/ ~Streaming(srv.m) \/ PeerGone("S") \/ Srv \in ctx
             \/ pl = "reject" /\ srv.pushes = 0
          /\ Goto(Srv, pl)
    /\ UNCHANGED <<sess, wire, env, ctx, call, srv, got, slips, events>>

\* EncodeError writes an error's text as it is.  Behind a line break in it the
\* client meets Junk, which nothing gets past, or one more value of the same call.
Rests ==
    {<<>>} \cup IF srv.m \in Breaking THEN {<<Junk>>, <<Val("reply", srv.k)>>} ELSE {}

\* Finish(err): the error is the reply unless one was sent.
ServerFinish ==
    /\ at[Srv] \in {"finish", "reject"}
    /\ IF at[Srv] = "finish" \/ srv.replySent
       THEN /\ srv' = [srv EXCEPT !.finished = TRUE]
            /\ UNCHANGED <<sess, wire, slips>>
       ELSE \/ \E rest \in Rests :
                  /\ Writes("S", <<Val("ERR", srv.k)>> \o rest)
                  /\ srv' = [srv EXCEPT !.finished = TRUE, !.replySent = TRUE]
                  /\ slips' = slips \cup (IF rest = <<Val("reply", srv.k)>>
                                          THEN {"text"} ELSE {})
            \/ /\ WriteFails("S") /\ srv' = [srv EXCEPT !.finished = TRUE]
               /\ UNCHANGED slips
    /\ at' = [at EXCEPT ![Srv] = "close"]
    /\ UNCHANGED <<env, reads, ctx, call, got, events>>

\* Close of the server call, and round the loop.
ServerEndCall ==
    /\ at[Srv] = "close"
    /\ sess' = [sess EXCEPT !["S"] =
                   [@ EXCEPT !.busy = FALSE,
                             !.reusable = sess["S"].reusable /\ ~sess["S"].exclusive
                                          /\ (srv.replySent \/ srv.finished)]]
    /\ srv' = NoSrv
    /\ Goto(Srv, "idle")
    /\ UNCHANGED <<wire, env, ctx, call, got, slips, events>>

-----------------------------------------------------------------------------
\* What runs by itself once started.
Internal ==
    \/ \E s \in Sides : \/ ReadLoopData(s) \/ ReadLoopPart(s) \/ ReadLoopFails(s)
                        \/ ReadLoopExits(s) \/ CloseConn(s) \/ CloseJoins(s)
    \/ \E p \in Readers : Look(p) \/ Wake(p) \/ CtxEnds(p)
    \/ DialHello \/ DialAuth \/ DialRead \/ DialFails
    \/ ServerHello \/ ServerAuth \/ ServerFails
    \/ \E k \in Calls : \/ MarkExclusive(k) \/ SendWrites(k) \/ RecvValue(k)
                        \/ RecvFails(k) \/ RecvMarksBad(k) \/ EndCall(k)
    \/ AcceptCall \/ AcceptFirst \/ AcceptOpen \/ ServerFinish \/ ServerEndCall

\* What callers, handlers, timers and the network decide.
External ==
    \/ ClientClose \/ ServerClose \/ Cut
    \/ \E p \in Readers : Expire(p)
    \/ \E k \in Calls : \/ \E m \in Methods[k] : OpenCall(k, m)
                        \/ SendStarts(k) \/ HalfClose(k) \/ RecvStarts(k) \/ CloseCall(k)
    \/ ServerSend \/ ServerSendFails \/ HandlerReturns

Next == Internal \/ External

Spec == Init /\ [][Next]_vars

\* The read loops and a started closeSession run; nobody has to call, answer,
\* cancel or cut anything.
Fairness ==
    \A s \in Sides :
        /\ WF_vars(ReadLoopData(s) \/ ReadLoopFails(s) \/ ReadLoopExits(s))
        /\ WF_vars(CloseConn(s) \/ CloseJoins(s))
FairSpec == Spec /\ Fairness

-----------------------------------------------------------------------------
(* Properties.                                                             *)

ForCalls(b) == \E i \in 1 .. Len(b) : b[i].k # None

\* A client session that OpenCall would lend carries nothing of an earlier
\* call: no command of it on its way or in the server's hands, no reply of it
\* unread.  Hence Recv returns to a call only replies to that call's command,
\* never an earlier call's and never a handshake's.  There are two exceptions.  A
\* Close may overtake the call's failing Recv between terminal and markBad
\* (call.go:121-128): its reply may still be read by a later call.  And the text
\* of a handler's error, or the name of an unknown command in one, may hold a line
\* break with a whole RESP value behind it (wire.go:28): the call takes the first
\* line for its reply and the session goes on, so the next call reads the rest.
CleanHandover ==
    slips = {} =>
        /\ Lendable /\ at[Dial] = "ready" =>
             /\ \A s \in Sides : ~ForCalls(wire[s]) /\ ~ForCalls(sess[s].buf)
             /\ srv.m # None => srv.replySent
        /\ \A k \in Calls : \A v \in got[k] : v.k = k

\* No wake-up is lost: a reader parked on a wake channel nobody has closed has
\* a read loop that will still close it, and nothing to read until then.
NoReaderStranded ==
    \A p \in Readers :
        rd[p] = "park" /\ ~woken[p] /\ ~sess[SideOf(p)].closed =>
            sess[SideOf(p)].loop = "run" /\ LookResult(p).m = "wait"

\* closeSession returns: closing the Conn ends the read loop it waits for.
CloseReturns == \A s \in Sides : (sess[s].shut = "flagged") ~> (sess[s].shut = "done")

=============================================================================
