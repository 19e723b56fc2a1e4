---------------------------- MODULE SynthSession ----------------------------
(***************************************************************************)
(* example/synth: a framed protocol (OPEN, DATA, END, STATUS) with a       *)
(* server greeting, one call at a time on a TCP connection.  Unlike RESP,  *)
(* every call end has a receive goroutine (recvLoop) that owns the socket  *)
(* and feeds a bounded inbox, and Close has to get rid of that goroutine:  *)
(* wait for it when it is at the end of the stream, abort the connection   *)
(* when it may be parked in a read.                                        *)
(*                                                                         *)
(* Both ends of the connection run the module's own code.  An end of a     *)
(* call is a client call 1..NCalls or Srv, the server's current call.      *)
(***************************************************************************)
EXTENDS Naturals, Sequences

CONSTANTS
    NCalls,      \* bound: client calls, opened one after another
    InboxCap,    \* capacity of recvCh
    MaxUp,       \* bound, per call: messages the client sends
    MaxDown,     \* bound, per call: messages its handler sends
    Exclusives,  \* the calls that may be of MethodExclusive
    MaxEvents,   \* bound: what happens from outside (Event)
    None

ASSUME SynthAssumption ==
    /\ {NCalls, InboxCap, MaxEvents} \subseteq Nat
    /\ InboxCap > 0
    /\ {MaxUp, MaxDown} \subseteq [1 .. NCalls -> Nat]
    /\ None \notin 1 .. NCalls

Calls == 1 .. NCalls
Srv == NCalls + 1
Ends == Calls \cup {Srv}
Sides == {"C", "S"}
Peer(s) == IF s = "C" THEN "S" ELSE "C"
SideOf(x) == IF x = Srv THEN "S" ELSE "C"

\* A frame, or an item of an inbox: its type, its call, a message's number.
Frame(t, k, n) == [t |-> t, k |-> k, n |-> n]
Failure(t) == Frame(t, None, 0)     \* recvItem{err}: "eof" or "err"

VARIABLES
    sess,     \* per side: the session's fields under session.mu
    conn,     \* the sides whose end of the connection is open
    wire,     \* per side: frames on their way to it
    cut,      \* the network has dropped the connection
    dial,     \* where the dialling goroutine is
    at,       \* where each end's user is: caller, or accept loop and handler
    ctx,      \* the ends whose context is done
    end,      \* per end: the call's fields, its recvLoop and its Close
    inbox,    \* per end: recvCh
    cur,      \* the client call the server's current call answers
    sent,     \* per call: what its handler has put on the wire
    got,      \* per call: what its Recv has returned
    late,     \* a Send overtaken by its call's Close has written
    events

vars == <<sess, conn, wire, cut, dial, at, ctx, end, inbox, cur, sent, got,
          late, events>>
hist == <<sent, got, late>>

NewSession == [closed |-> FALSE, reusable |-> TRUE, ioError |-> FALSE,
               exclusive |-> FALSE, inCall |-> FALSE]
\* loop: recvLoop is off, reading, holding an item for the inbox ("push", or
\* "last" when it will return after it), returning, or done.
\* closing: Close has not begun, has cancelled, is waiting, or has detached.
NewEnd == [closed |-> FALSE, half |-> FALSE, term |-> FALSE, sendClosed |-> FALSE,
           err |-> None, loop |-> "off", item |-> None, msgs |-> 0,
           closing |-> "no", atEnd |-> FALSE, poison |-> FALSE]

Init ==
    /\ sess = [s \in Sides |-> NewSession]
    /\ conn = Sides
    /\ wire = [s \in Sides |-> <<>>]
    /\ cut = FALSE
    /\ dial = "greeting"
    /\ at = [x \in Ends |-> IF x = Srv THEN "greet" ELSE "new"]
    /\ ctx = {}
    /\ end = [x \in Ends |-> NewEnd]
    /\ inbox = [x \in Ends |-> <<>>]
    /\ cur = None
    /\ sent = [k \in Calls |-> <<>>]
    /\ got = [k \in Calls |-> <<>>]
    /\ late = FALSE
    /\ events = 0

\* What happens from outside: a session closed, the network cut, a context
\* ended, a goroutine overtaken, a frame over a size limit.
Event == events < MaxEvents /\ events' = events + 1
Goto(x, pl) == at' = [at EXCEPT ![x] = pl]

-----------------------------------------------------------------------------
(* The carrier.                                                            *)

Dead(s) == s \notin conn \/ cut
Arriving(s, t) == ~Dead(s) /\ wire[s] # <<>> /\ Head(wire[s]).t = t
\* A read fails: with EOF when the peer closed between frames, else an error.
ReadError(s) == IF Dead(s) THEN {"err"}
                ELSE IF Peer(s) \notin conn
                     THEN {"err"} \cup (IF wire[s] = <<>> THEN {"eof"} ELSE {})
                     ELSE {}
\* A healthy peer's frame with a body over maxFrame.  Its header is consumed
\* and its body is not, but nobody can take that body for a frame: it starts
\* with its type, so read as a length it is 2^24 at least and over maxFrame
\* again (of less than 16 MiB).  The frame may as well stay where it is.
TooLarge(s) == Arriving(s, "data") \/ Arriving(s, "status")

\* writeFrame succeeds ...
Writes(s, f) ==
    /\ ~Dead(s)
    /\ wire' = [wire EXCEPT ![Peer(s)] = IF Peer(s) \in conn THEN Append(@, f) ELSE @]
    /\ UNCHANGED <<sess, conn>>
\* ... or fails, and markBad aborts the carrier.
MarkedBad(s) == [sess EXCEPT ![s] = [@ EXCEPT !.reusable = FALSE, !.ioError = TRUE]]
WriteFails(s) ==
    /\ Dead(s) \/ Peer(s) \notin conn
    /\ sess' = MarkedBad(s)
    /\ conn' = conn \ {s}
    /\ UNCHANGED wire

\* closeSession: the flags, then conn.Close.
CloseSession(s) ==
    /\ sess' = [sess EXCEPT ![s] = [@ EXCEPT !.closed = TRUE, !.reusable = FALSE]]
    /\ conn' = conn \ {s}

\* The pool closes its session; the server closes an inbound connection.
ClientClose ==
    /\ dial = "ready" /\ ~sess["C"].closed
    /\ CloseSession("C") /\ Event
    /\ UNCHANGED <<wire, cut, dial, at, ctx, end, inbox, cur, hist>>
\* serverConn.Close: before Handshake has stored the session, only the Conn.
ServerClose ==
    /\ at[Srv] # "gone" /\ "S" \in conn
    /\ IF at[Srv] \in {"greet", "ack"} THEN conn' = conn \ {"S"} /\ UNCHANGED sess
                                       ELSE CloseSession("S")
    /\ Event
    /\ UNCHANGED <<wire, cut, dial, at, ctx, end, inbox, cur, hist>>
Cut ==
    /\ ~cut /\ cut' = TRUE /\ Event
    /\ UNCHANGED <<sess, conn, wire, dial, at, ctx, end, inbox, cur, hist>>
\* The caller of a call gives up, or its deadline passes.
Expire(k) ==
    /\ k \notin ctx /\ at[k] \notin {"new", "dead"} /\ ctx' = ctx \cup {k} /\ Event
    /\ UNCHANGED <<sess, conn, wire, cut, dial, at, end, inbox, cur, hist>>

-----------------------------------------------------------------------------
(* The handshakes: runIO bounds each read and write by the context and     *)
(* closes the connection when it ends first.                               *)

ServerGreets ==
    /\ at[Srv] = "greet"
    /\ \/ Writes("S", Frame("greeting", None, 0)) /\ Goto(Srv, "ack")
       \/ WriteFails("S") /\ Goto(Srv, "fail")
    /\ UNCHANGED <<cut, dial, ctx, end, inbox, cur, hist, events>>
ServerReadsAck ==
    /\ at[Srv] = "ack"
    /\ \/ /\ Arriving("S", "ack") /\ Goto(Srv, "idle")
          /\ wire' = [wire EXCEPT !["S"] = Tail(@)]
       \/ ReadError("S") # {} /\ Goto(Srv, "fail") /\ UNCHANGED wire
    /\ UNCHANGED <<sess, conn, cut, dial, ctx, end, inbox, cur, hist, events>>

ClientReadsGreeting ==
    /\ dial = "greeting"
    /\ \/ /\ Arriving("C", "greeting") /\ dial' = "ack"
          /\ wire' = [wire EXCEPT !["C"] = Tail(@)]
       \/ ReadError("C") # {} /\ dial' = "fail" /\ UNCHANGED wire
    /\ UNCHANGED <<sess, conn, cut, at, ctx, end, inbox, cur, hist, events>>
ClientAcks ==
    /\ dial = "ack"
    /\ \/ Writes("C", Frame("ack", None, 0)) /\ dial' = "ready"
       \/ Dead("C") /\ dial' = "fail" /\ UNCHANGED <<sess, conn, wire>>
    /\ UNCHANGED <<cut, at, ctx, end, inbox, cur, hist, events>>

\* The handshake context ends first (client and server).
HandshakeExpires ==
    /\ \/ dial \in {"greeting", "ack"} /\ dial' = "fail" /\ conn' = conn \ {"C"} /\ UNCHANGED at
       \/ at[Srv] \in {"greet", "ack"} /\ Goto(Srv, "fail") /\ conn' = conn \ {"S"} /\ UNCHANGED dial
    /\ Event
    /\ UNCHANGED <<sess, wire, cut, ctx, end, inbox, cur, hist>>
\* dial and Handshake close the session they could not set up; the accept loop
\* closes the one whose AcceptCall failed.
ClosesFailed ==
    /\ \/ dial = "fail" /\ dial' = "failed" /\ CloseSession("C") /\ UNCHANGED at
       \/ at[Srv] = "fail" /\ Goto(Srv, "gone") /\ CloseSession("S") /\ UNCHANGED dial
    /\ UNCHANGED <<wire, cut, ctx, end, inbox, cur, hist, events>>

-----------------------------------------------------------------------------
(* Opening and accepting.                                                  *)

Lendable == /\ ~sess["C"].closed /\ ~sess["C"].inCall
            /\ sess["C"].reusable /\ ~sess["C"].ioError /\ ~sess["C"].exclusive

\* OpenCall: the slot and EnterExclusive, then the OPEN frame.
OpenCall(k) ==
    /\ dial = "ready" /\ at[k] = "new" /\ (k > 1 => at[k - 1] # "new") /\ Lendable
    /\ \E exclusive \in {FALSE, (k \in Exclusives)} :
          sess' = [sess EXCEPT !["C"] = [@ EXCEPT !.inCall = TRUE, !.exclusive = exclusive,
                                                  !.reusable = ~exclusive]]
    /\ Goto(k, "open")
    /\ UNCHANGED <<conn, wire, cut, dial, ctx, end, inbox, cur, hist, events>>
OpenWrites(k) ==
    /\ at[k] = "open"
    /\ \/ /\ Writes("C", Frame("open", k, 0))
          /\ end' = [end EXCEPT ![k].loop = "read"]
          /\ Goto(k, "user")
       \/ /\ Dead("C") \/ "S" \notin conn      \* detach(c, true)
          /\ sess' = [sess EXCEPT !["C"] = [@ EXCEPT !.inCall = FALSE, !.reusable = FALSE]]
          /\ Goto(k, "dead")
          /\ UNCHANGED <<conn, wire, end>>
    /\ UNCHANGED <<cut, dial, ctx, inbox, cur, hist, events>>

\* AcceptCall: readOpen's goroutine finds an OPEN frame ...
AcceptCall ==
    /\ at[Srv] = "idle" /\ ~sess["S"].closed /\ Arriving("S", "open")
    /\ sess' = [sess EXCEPT !["S"].inCall = TRUE]
    /\ wire' = [wire EXCEPT !["S"] = Tail(@)]
    /\ cur' = Head(wire["S"]).k
    /\ end' = [end EXCEPT ![Srv] = [NewEnd EXCEPT !.loop = "read"]]
    /\ inbox' = [inbox EXCEPT ![Srv] = <<>>]
    /\ ctx' = ctx \ {Srv}
    /\ Goto(Srv, "user")
    /\ UNCHANGED <<conn, cut, dial, hist, events>>
\* ... or the session is closed, the read fails, the frame is another, or the
\* OPEN is over maxFrame, or the accept context is cancelled or expires and
\* Abort ends the read.
AcceptFails ==
    /\ at[Srv] = "idle"
    /\ \/ sess["S"].closed /\ UNCHANGED <<sess, conn, events>>
       \/ "eof" \in ReadError("S") /\ UNCHANGED <<sess, conn, events>>
       \/ /\ "err" \in ReadError("S") \/ (~Dead("S") /\ wire["S"] # <<>> /\ ~Arriving("S", "open"))
          /\ sess' = MarkedBad("S") /\ conn' = conn \ {"S"} /\ UNCHANGED events
       \/ conn' = conn \ {"S"} /\ Event /\ sess' \in {sess, MarkedBad("S")}
    /\ Goto(Srv, "fail")
    /\ UNCHANGED <<wire, cut, dial, ctx, end, inbox, cur, hist>>

-----------------------------------------------------------------------------
(* recvLoop.                                                               *)

\* A frame is read: STATUS and END are noted before they are handed over; DATA
\* goes straight into an inbox with room, unless the context is done as well.
LoopReads(x) ==
    LET s == SideOf(x)
        f == Head(wire[s])
        straight == f.t = "data" /\ Len(inbox[x]) < InboxCap /\ x \notin ctx
    IN
    /\ end[x].loop = "read" /\ ~Dead(s) /\ wire[s] # <<>> /\ f.t # "open"
    /\ wire' = [wire EXCEPT ![s] = Tail(@)]
    /\ IF straight
       THEN inbox' = [inbox EXCEPT ![x] = Append(@, f)] /\ UNCHANGED end
       ELSE /\ end' = [end EXCEPT ![x] =
                          [@ EXCEPT !.item = f,
                                    !.half = end[x].half \/ f.t = "end",
                                    !.term = end[x].term \/ f.t = "status",
                                    !.loop = IF f.t = "data" THEN "push" ELSE "last"]]
            /\ UNCHANGED inbox
    /\ UNCHANGED <<sess, conn, cut, dial, at, ctx, cur, hist, events>>
\* An OPEN inside a call: markBad, and an error if the inbox has room.
Push(x, it) == IF Len(inbox[x]) < InboxCap THEN [inbox EXCEPT ![x] = Append(@, it)]
                                           ELSE inbox
LoopReadsOpen(x) ==
    LET s == SideOf(x) IN
    /\ end[x].loop = "read" /\ Arriving(s, "open")
    /\ wire' = [wire EXCEPT ![s] = Tail(@)]
    /\ sess' = MarkedBad(s) /\ conn' = conn \ {s}
    /\ inbox' = Push(x, Failure("err"))
    /\ end' = [end EXCEPT ![x].loop = "done"]
    /\ UNCHANGED <<cut, dial, at, ctx, cur, hist, events>>
\* The read fails: nothing to report on a closed call; only an error other
\* than EOF spoils the session.
LoopEnds(x, e) ==
    LET s == SideOf(x) IN
    /\ end[x].loop = "read"
    /\ IF end[x].closed
       THEN /\ end' = [end EXCEPT ![x].loop = "done"]
            /\ UNCHANGED <<sess, conn, inbox>>
       ELSE /\ end' = [end EXCEPT ![x] = [@ EXCEPT !.loop = "done", !.err = e]]
            /\ sess' = IF e = "err" THEN MarkedBad(s) ELSE sess
            /\ conn' = IF e = "err" THEN conn \ {s} ELSE conn
            /\ inbox' = Push(x, Failure(e))
    /\ UNCHANGED <<wire, cut, dial, at, ctx, cur, hist>>
LoopFails(x) == /\ \E e \in ReadError(SideOf(x)) : LoopEnds(x, e)
                /\ UNCHANGED events
LoopRefuses(x) == TooLarge(SideOf(x)) /\ LoopEnds(x, "err") /\ Event
\* The hand-over: the inbox takes the item, or the call's context is done.
LoopPushes(x) ==
    /\ end[x].loop \in {"push", "last"} /\ Len(inbox[x]) < InboxCap
    /\ inbox' = Push(x, end[x].item)
    /\ end' = [end EXCEPT ![x] =
                  [@ EXCEPT !.item = None,
                            !.loop = IF end[x].loop = "push" THEN "read" ELSE "exit"]]
    /\ UNCHANGED <<sess, conn, wire, cut, dial, at, ctx, cur, hist, events>>
LoopCancelled(x) ==
    /\ end[x].loop \in {"push", "last"} /\ x \in ctx
    /\ end' = [end EXCEPT ![x] = [@ EXCEPT !.item = None, !.loop = "done"]]
    /\ UNCHANGED <<sess, conn, wire, cut, dial, at, ctx, inbox, cur, hist, events>>
\* The deferred close(done); it follows at once where nothing was handed over.
LoopDone(x) ==
    /\ end[x].loop = "exit"
    /\ end' = [end EXCEPT ![x].loop = "done"]
    /\ UNCHANGED <<sess, conn, wire, cut, dial, at, ctx, inbox, cur, hist, events>>

-----------------------------------------------------------------------------
(* Recv, Send, HalfClose, Finish.                                          *)

\* Recv takes from the inbox before it looks at anything else.  Its test of
\* closed may be long past: it may have been waiting when Close came.  A caller
\* stops at the first error, io.EOF included; what a handler gets is not kept.
Streaming(x) == x # Srv => \A i \in 1 .. Len(got[x]) : got[x][i].t = "data"
RecvTakes(x) ==
    /\ at[x] = "user" /\ inbox[x] # <<>> /\ Streaming(x)
    /\ inbox' = [inbox EXCEPT ![x] = Tail(@)]
    /\ got' = IF x = Srv THEN got ELSE [got EXCEPT ![x] = Append(@, Head(inbox[x]))]
    /\ UNCHANGED <<sess, conn, wire, cut, dial, at, ctx, end, cur, sent, late, events>>
\* Otherwise, with recvLoop done, it drains the inbox again and then reports
\* recvErr or io.EOF, unless its context is done, which it reports instead.
EndOfStream(k) == Failure(IF end[k].err = None THEN "eof" ELSE end[k].err)
\* Mutation: done ends the stream with the inbox undrained.
RecvEndsUndrained(k) ==
    /\ at[k] = "user" /\ Streaming(k) /\ end[k].loop = "done" /\ k \notin ctx
    /\ got' = [got EXCEPT ![k] = Append(@, Failure(IF end[k].err = None THEN "eof" ELSE end[k].err))]
    /\ UNCHANGED <<sess, conn, wire, cut, dial, at, ctx, end, inbox, cur, sent, late, events>>
RecvEnds(k) ==
    /\ at[k] = "user" /\ Streaming(k)
    /\ end[k].loop = "done" /\ inbox[k] = <<>> /\ k \notin ctx
    /\ got' = [got EXCEPT ![k] = Append(@, EndOfStream(k))]
    /\ UNCHANGED <<sess, conn, wire, cut, dial, at, ctx, end, inbox, cur, sent, late, events>>

\* Send and HalfClose test under call.mu and write after the unlock (HalfClose
\* does not ask whether the call is closed): mostly at once, but the goroutine
\* may be overtaken in between, which counts as an event.
SendOpen(k) == at[k] = "user" /\ ~end[k].closed /\ ~end[k].sendClosed /\ end[k].msgs < MaxUp[k]
HalfOpen(k) == at[k] = "user" /\ ~end[k].sendClosed
ClientWrites(k, f) ==
    /\ \/ /\ Writes("C", f)
          /\ late' = (late \/ end[k].closing = "done")
       \/ WriteFails("C") /\ UNCHANGED late
    /\ UNCHANGED <<cut, dial, ctx, inbox, cur, sent, got>>
Send(k) ==
    /\ SendOpen(k)
    /\ end' = [end EXCEPT ![k].msgs = @ + 1]
    /\ ClientWrites(k, Frame("data", k, end'[k].msgs))
    /\ UNCHANGED <<at, events>>
HalfClose(k) ==
    /\ HalfOpen(k) /\ ~end[k].closed
    /\ end' = [end EXCEPT ![k].sendClosed = TRUE]
    /\ ClientWrites(k, Frame("end", k, 0))
    /\ UNCHANGED <<at, events>>
SendPauses(k) ==
    /\ \/ SendOpen(k) /\ end' = [end EXCEPT ![k].msgs = @ + 1] /\ Goto(k, "data")
       \/ HalfOpen(k) /\ end' = [end EXCEPT ![k].sendClosed = TRUE] /\ Goto(k, "end")
    /\ Event
    /\ UNCHANGED <<sess, conn, wire, cut, dial, ctx, inbox, cur, hist>>
SendResumes(k) ==
    /\ at[k] \in {"data", "end"}
    /\ ClientWrites(k, Frame(at[k], k, end[k].msgs))
    /\ Goto(k, "user")
    /\ UNCHANGED <<end, events>>

\* The handler sends a message, or returns and Finish writes the STATUS.
HandlerWrites(f) ==
    \/ Writes("S", f) /\ sent' = [sent EXCEPT ![cur] = Append(@, f)]
    \/ WriteFails("S") /\ UNCHANGED sent
ServerSend ==
    /\ at[Srv] = "user" /\ end[Srv].msgs < MaxDown[cur]
    /\ end' = [end EXCEPT ![Srv].msgs = @ + 1]
    /\ HandlerWrites(Frame("data", cur, end[Srv].msgs + 1))
    /\ UNCHANGED <<cut, dial, at, ctx, inbox, cur, got, late, events>>
\* Finish notes gotTerminal only when the STATUS is written; writeFrame refuses
\* an error text over 64 KiB, and that is an error of the session, too.
ServerFinish ==
    /\ at[Srv] = "user"
    /\ \/ HandlerWrites(Frame("status", cur, 0)) /\ UNCHANGED events
       \/ /\ sess' = MarkedBad("S") /\ conn' = conn \ {"S"} /\ Event
          /\ UNCHANGED <<wire, sent>>
    /\ end' = [end EXCEPT ![Srv].term = (sent' # sent)]
    /\ Goto(Srv, "close")
    /\ UNCHANGED <<cut, dial, ctx, inbox, cur, got, late>>

-----------------------------------------------------------------------------
(* Close.                                                                  *)

\* The flags under call.mu and the cancellation.
AtEnd(x) == IF x = Srv THEN end[x].half ELSE end[x].term
CloseStarts(x) ==
    /\ ~end[x].closed
    /\ IF x = Srv THEN at[x] = "close" ELSE at[x] \notin {"new", "open", "dead"}
    /\ end' = [end EXCEPT ![x] =
                  [@ EXCEPT !.closed = TRUE, !.closing = "cancelled",
                            !.atEnd = AtEnd(x), !.poison = x # Srv /\ ~end[x].term]]
    /\ ctx' = ctx \cup {x}
    /\ UNCHANGED <<sess, conn, wire, cut, dial, at, inbox, cur, hist, events>>

\* Mutation: a handler's Close aborts whenever recvLoop has not exited yet.
CloseAbortsAlways(x) ==
    /\ end[x].closing = "cancelled" /\ end[x].loop # "done"
    /\ x = Srv \/ ~end[x].atEnd
    /\ end' = [end EXCEPT ![x] = [@ EXCEPT !.poison = TRUE, !.closing = "wait"]]
    /\ conn' = conn \ {SideOf(x)}
    /\ UNCHANGED <<sess, wire, cut, dial, at, ctx, inbox, cur, hist, events>>
\* Mutation: it waits for a recvLoop it has not woken.
CloseAbortsNothing(x) ==
    /\ end[x].closing = "cancelled" /\ ~end[x].atEnd /\ end[x].loop # "done"
    /\ end' = [end EXCEPT ![x] = [@ EXCEPT !.poison = TRUE, !.closing = "wait"]]
    /\ UNCHANGED <<sess, conn, wire, cut, dial, at, ctx, inbox, cur, hist, events>>
\* The select: recvLoop may be parked in a read that only Abort can end.
CloseAborts(x) ==
    /\ end[x].closing = "cancelled" /\ ~end[x].atEnd /\ end[x].loop # "done"
    /\ end' = [end EXCEPT ![x] = [@ EXCEPT !.poison = TRUE, !.closing = "wait"]]
    /\ conn' = conn \ {SideOf(x)}
    /\ UNCHANGED <<sess, wire, cut, dial, at, ctx, inbox, cur, hist, events>>
\* Mutation: detach forgets the poison.
CloseDetachesTrusting(x) ==
    /\ end[x].closing \in {"cancelled", "wait"} /\ end[x].loop = "done"
    /\ sess' = [sess EXCEPT ![SideOf(x)].inCall = FALSE]
    /\ end' = [end EXCEPT ![x].closing = "done"]
    /\ IF x = Srv THEN Goto(x, "idle") /\ cur' = None ELSE UNCHANGED <<at, cur>>
    /\ UNCHANGED <<conn, wire, cut, dial, ctx, inbox, hist, events>>
\* recvLoop is done, waited for or not: detach.
CloseDetaches(x) ==
    LET s == SideOf(x) IN
    /\ end[x].closing \in {"cancelled", "wait"} /\ end[x].loop = "done"
    /\ sess' = [sess EXCEPT ![s] =
                   [@ EXCEPT !.inCall = FALSE,
                             !.reusable = sess[s].reusable
                                          /\ ~(sess[s].inCall /\ end[x].poison)]]
    /\ end' = [end EXCEPT ![x] = [NewEnd EXCEPT !.closed = TRUE, !.closing = "done",
                                     !.term = end[x].term, !.loop = "done",
                                     !.half = end[x].half, !.atEnd = end[x].atEnd,
                                     !.sendClosed = end[x].sendClosed]]
    /\ IF x = Srv THEN Goto(x, "idle") /\ cur' = None ELSE UNCHANGED <<at, cur>>
    /\ inbox' = [inbox EXCEPT ![x] = <<>>]       \* a Recv still waiting got its item before
    /\ UNCHANGED <<conn, wire, cut, dial, ctx, hist, events>>

-----------------------------------------------------------------------------
Loop(x) == \/ LoopReads(x) \/ LoopReadsOpen(x) \/ LoopFails(x) \/ LoopRefuses(x)
           \/ LoopPushes(x) \/ LoopCancelled(x) \/ LoopDone(x)
Close(x) == CloseAborts(x) \/ CloseDetaches(x)

Next ==
    \/ ClientClose \/ ServerClose \/ Cut
    \/ ServerGreets \/ ServerReadsAck \/ ClientReadsGreeting \/ ClientAcks
    \/ HandshakeExpires \/ ClosesFailed
    \/ AcceptCall \/ AcceptFails \/ ServerSend \/ ServerFinish
    \/ \E k \in Calls : \/ Expire(k) \/ OpenCall(k) \/ OpenWrites(k)
                        \/ Send(k) \/ HalfClose(k) \/ SendPauses(k) \/ SendResumes(k)
                        \/ RecvEnds(k)
    \/ \E x \in Ends : Loop(x) \/ RecvTakes(x) \/ CloseStarts(x) \/ Close(x)

Spec == Init /\ [][Next]_vars

-----------------------------------------------------------------------------
(* Properties.                                                             *)

\* The end a caller sees is the STATUS frame or a failure; only the STATUS
\* frame and the messages are an answer. What a call received of its answer is
\* what it got, without the failure that may have ended it.
IsAnswer(f) == f.t \in {"data", "status"}
Answer(g) == IF g # <<>> /\ ~IsAnswer(g[Len(g)]) THEN SubSeq(g, 1, Len(g) - 1) ELSE g
AnswersFor(k) == {[i \in 1 .. n |-> Frame("data", k, i)] : n \in 0 .. MaxDown[k]}
AllAnswers == UNION {AnswersFor(k) \cup {Append(a, Frame("status", k, 0)) : a \in AnswersFor(k)}
                     : k \in Calls}
HasEnd(a) == a # <<>> /\ a[Len(a)].t = "status"

Holders == {k \in Calls : at[k] \notin {"new", "dead"} /\ end[k].closing # "done"}
Sequential == INSTANCE SequentialSession WITH
    Answers <- AllAnswers, Ended <- HasEnd,
    holder <- IF Holders = {} THEN None ELSE CHOOSE k \in Holders : TRUE,
    usable <- /\ ~sess["C"].closed /\ sess["C"].reusable
              /\ ~sess["C"].ioError /\ ~sess["C"].exclusive,
    answer <- sent,
    received <- [k \in Calls |-> Answer(got[k])]

\* The synth connection implements the sequential session: one call at a time,
\* each receiving its own answer whole and in order, and handed on only after a
\* call whose STATUS has been sent and read.
ImplementsSequential == Sequential!SSpec

\* A call that read its STATUS reports the end only as that STATUS and behind
\* every message that was sent before it: the two races between recvLoop's last
\* push, its exit and Recv's select lose nothing and turn no failure into io.EOF.
\* In the other direction a handler gets no message of another call, unless a
\* client wrote for a call already closed.
MessagesKept ==
    /\ \A k \in Calls :
          LET n == Len(got[k]) IN
          n > 0 /\ end[k].term /\ got[k][n].t \in {"status", "eof"} => got[k] = sent[k]
    /\ ~late /\ cur # None =>
          \A f \in {inbox[Srv][i] : i \in 1 .. Len(inbox[Srv])} \cup {end[Srv].item} :
              f \in {None} \cup {Failure("eof"), Failure("err")} \/ f.k = cur

\* Close never kills a healthy connection.  As long as nothing happened from
\* outside, the client is not the first to close when every call closed so far
\* had read its STATUS; and the server is not when its call had read END and
\* no client call was closed before it had sent it (the server's recvLoop would
\* find the next OPEN inside its call).
HealthyKept ==
    events = 0 =>
        /\ (\A k \in Calls : end[k].closed => end[k].atEnd)
              => "C" \in conn \/ "S" \notin conn
        /\ (\A k \in Calls : end[k].closed => end[k].sendClosed)
           /\ (end[Srv].closed => end[Srv].atEnd)
              => "S" \in conn \/ "C" \notin conn

\* Close waits for recvLoop only when recvLoop is on its way out: never while
\* it is parked in a read of a connection nobody has aborted, never while it
\* hands over to a full inbox with the context still live.
WaitBounded ==
    \A x \in Ends :
        end[x].closing = "wait" \/ (end[x].closing = "cancelled" /\ end[x].atEnd) =>
            /\ end[x].loop = "read" => Dead(SideOf(x))
            /\ end[x].loop \in {"push", "last"} => x \in ctx

\* Close aborts the connection exactly when it has to: not a healthy one, and
\* always one whose recvLoop would otherwise be waited for without end.
AbortsForCause == HealthyKept /\ WaitBounded
=============================================================================
