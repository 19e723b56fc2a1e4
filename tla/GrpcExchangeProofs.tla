------------------------- MODULE GrpcExchangeProofs -------------------------
(***************************************************************************)
(* Theorems about GrpcExchange for any number of calls and any bodies:     *)
(* Recv turns nothing but the peer's own OK into success, the session's    *)
(* books are right, and a session is spoiled only by a call that was given  *)
(* up, used against its rules or cut off by its ctx, by a response that is  *)
(* damaged, or by the Close of a call that met one of the inbound limits.   *)
(***************************************************************************)
EXTENDS GrpcExchange, FiniteSetTheorems, SequenceTheorems, TLAPS

(* The response on the wire.  An argos server states its status as its      *)
(* Finish left it, with the headers or in the trailers, when its handler is *)
(* over; it resets nothing and sends nothing but frames.                    *)
WireOk(x) ==
  /\ wire[x].head \in {"ok", "err"} => wire[x].end \in {"none", "bare", "rst"}
  /\ wire[x].head = "none" => wire[x].meta = "fine"
  /\ resp[x].at # "none" => peer[x] = "argos"
  /\ resp[x].at = "lpm" => Len(wire[x].data) > 0
  /\ peer[x] = "argos" =>
       /\ wire[x].end # "rst"
       /\ wire[x].end # "none" => resp[x].at = "over"
       /\ wire[x].end = "none" => wire[x].head \in {"none", "plain"}
       /\ wire[x].end = "ok" \/ wire[x].head = "ok" => resp[x].finished = "ok"
       /\ \A i \in 1 .. Len(wire[x].data) : wire[x].data[i] \in {"msg", "hdr"}

(* serverCarrier: Abort holds the lock between its look and its answer, and *)
(* Finish is the handler's last word.                                       *)
RespOk(x) ==
  /\ resp[x].sweep # "no" => resp[x].closed
  /\ resp[x].sweep = "held" => resp[x].finished = "no"
  /\ resp[x].finished \in {"ok", "err"} => resp[x].at \notin {"none", "run", "lpm"}

(* clientCarrier: one Abort, by the call's Close or by the session's; what  *)
(* has ended is not in the handle's map.                                    *)
CarOk(x) ==
  /\ call[x].at # "open" =>
       /\ car[x].ready = "pending" /\ ~car[x].doing /\ car[x].abort = "no"
       /\ ~car[x].bodyClosed /\ x \notin sess.carriers \cup sess.todo
  /\ car[x].doing => car[x].ready # "resp"
  /\ car[x].ready = "err" => car[x].abort # "no" \/ wire[x].end = "rst" \/ car[x].expired
  /\ car[x].doing /\ car[x].ready = "err" => car[x].abort = "done"
  /\ car[x].abort # "no" => \/ car[x].by = "session" /\ sess.at = "sweep"
                            \/ car[x].by = "call" /\ car[x].abort = "marked"
                               /\ call[x].closing = "aborting"
                            \/ car[x].by = "call" /\ car[x].abort = "done"
                               /\ call[x].closing \in {"flight", "done"}
  /\ call[x].closing = "aborting" => car[x].abort = "marked" /\ car[x].by = "call"
  /\ car[x].eof => wire[x].end \notin {"none", "rst"}
  /\ sess.at = "sweep" => sess.carriers = {}
  /\ x \in sess.carriers =>
       /\ car[x].ready # "err" /\ car[x].abort # "done" /\ ~car[x].bodyClosed
       /\ call[x].closing \notin {"flight", "done"}

(* A call in use: what it holds of the exchange, and what it was told. *)
UseOk(x) ==
  /\ call[x].at # "open" => call[x].recving = "idle" /\ call[x].closing = "no"
  /\ call[x].closing = "no" => ~call[x].hasty
  /\ call[x].closing # "no" /\ (call[x].sending \/ call[x].recving # "idle") =>
       call[x].hasty
  /\ call[x].recving \in {"headers", "body"} /\ car[x].bodyClosed =>
       call[x].reread \/ car[x].abort # "no"
  /\ call[x].recving = "finish" /\ car[x].bodyClosed => car[x].eof \/ car[x].abort # "no"

(* A step of one call, of its exchange or of its peer. *)
Steps(x) ==
  ClientStarts(x) \/ ClientSteps(x) \/ HandleAborts(x) \/ PeerSteps(x) \/ ServerSteps(x)

(* The end of the body as Recv has met it. *)
AtEnd(x) ==
  \/ More(x) /\ Next1(x) = "junk"
  \/ wire[x].end # "none" /\ (More(x) => Next1(x) = "hdr")

AnswerOk(x) ==
  /\ call[x].recving = "finish" \/ call[x].out = "ok" => AtEnd(x)
  /\ call[x].out \in {"ok", "status"} => car[x].bodyClosed
  /\ call[x].out = "ok" => StatusOnWire(x) = "ok"
  /\ call[x].out = "status" => \/ car[x].abort # "no" \/ car[x].expired
                               \/ wire[x].end = "rst"
                               \/ wire[x].end # "none" /\ StatusOnWire(x) # "ok"

(* What may cost the session its reuse. *)
Cause(x) ==
  \/ call[x].hasty \/ call[x].reread \/ car[x].expired \/ Damaged(x)
  \/ call[x].closing # "no" /\ OverLimit(x)

(* What an error of Recv that ends nothing goes back to, and with it a Close *)
(* that spoils the session although the call was not given up.              *)
Reason(x) ==
  \/ call[x].reread \/ car[x].expired \/ car[x].abort # "no"
  \/ Damaged(x) \/ OverLimit(x)

ErrorOk(x) ==
  /\ call[x].out = "error" => call[x].term \/ Reason(x)
  /\ call[x].closing = "bad" => call[x].hasty \/ Reason(x)

InFlight ==
  {x \in Calls : \/ call[x].at = "stream"
                 \/ call[x].at = "open" /\ call[x].closing # "done"}

CountExact == sess.inFlight = Cardinality(InFlight)

WireShape == \A x \in Calls : WireOk(x) /\ RespOk(x)
CarShape == \A x \in Calls : CarOk(x)
UseShape == \A x \in Calls : UseOk(x)
AnswerShape == \A x \in Calls : AnswerOk(x)
ErrorShape == \A x \in Calls : ErrorOk(x)

GrpcInv ==
  /\ TypeOK /\ WireShape /\ CarShape /\ UseShape /\ AnswerShape /\ ErrorShape
  /\ CountExact /\ SessionKept

LEMMA GrpcInit == Init => GrpcInv
<1> SUFFICES ASSUME Init PROVE GrpcInv
  OBVIOUS
<1> USE DEF Init
<1>1. TypeOK
  <2>1. sess \in Sess
    BY DEF Sess
  <2>2. call \in [Calls -> Call]
    BY DEF Call
  <2>3. car \in [Calls -> Car]
    BY DEF Car
  <2>4. wire \in [Calls -> Wire]
    BY DEF Wire
  <2>5. resp \in [Calls -> Resp]
    BY DEF Resp
  <2> QED
    BY <2>1, <2>2, <2>3, <2>4, <2>5 DEF TypeOK
<1>2. WireShape
  BY DEF WireShape, WireOk, RespOk
<1>3. CarShape /\ UseShape
  BY DEF CarShape, CarOk, UseShape, UseOk
<1>4. AnswerShape /\ ErrorShape
  BY DEF AnswerShape, AnswerOk, ErrorShape, ErrorOk
<1>5. InFlight = {}
  BY DEF InFlight
<1>6. CountExact /\ SessionKept
  BY <1>5, FS_EmptySet DEF CountExact, SessionKept
<1> QED
  BY <1>1, <1>2, <1>3, <1>4, <1>6 DEF GrpcInv

LEMMA SomeInFlight ==
  /\ IsFiniteSet(InFlight) /\ Cardinality(InFlight) \in Nat
  /\ \A x \in InFlight : Cardinality(InFlight) > 0
<1>1. IsFiniteSet(InFlight)
  BY ExchangeAssumption, FS_Subset DEF InFlight
<1>2. Cardinality(InFlight) \in Nat
  BY <1>1, FS_CardinalityType
<1>3. \A x \in InFlight : Cardinality(InFlight) # 0
  BY <1>1, FS_EmptySet
<1> QED
  BY <1>1, <1>2, <1>3

(* The fields of the records may be set to values of their types. *)
LEMMA CallFields ==
  ASSUME NEW r \in Call
  PROVE  /\ [r EXCEPT !.at = "stream"] \in Call
         /\ [r EXCEPT !.at = "refused"] \in Call
         /\ [r EXCEPT !.closing = "flight"] \in Call
         /\ [r EXCEPT !.at = "open"] \in Call
         /\ [r EXCEPT !.sending = TRUE] \in Call
         /\ [r EXCEPT !.half = TRUE] \in Call
         /\ [r EXCEPT !.sending = FALSE] \in Call
         /\ [r EXCEPT !.sending = FALSE, !.sendFailed = TRUE] \in Call
         /\ \A p \in {"headers", "body"}, b \in BOOLEAN : [r EXCEPT !.recving = p, !.reread = b] \in Call
         /\ [r EXCEPT !.recving = "idle", !.out = "error"] \in Call
         /\ [r EXCEPT !.headersSeen = TRUE, !.recving = "body"] \in Call
         /\ [r EXCEPT !.recving = "finish"] \in Call
         /\ \A b \in BOOLEAN, o \in {"ok", "status"} : [r EXCEPT !.recving = "idle", !.term = TRUE, !.statusReturned = b, !.out = o] \in Call
         /\ \A p \in {"abort", "bad"}, b \in BOOLEAN : [r EXCEPT !.closing = p, !.hasty = b] \in Call
         /\ [r EXCEPT !.closing = "abort"] \in Call
         /\ [r EXCEPT !.closing = "aborting"] \in Call
         /\ [r EXCEPT !.closing = "done"] \in Call
         /\ \A n \in Nat, o \in {"none", "ok", "status", "error"}, b \in BOOLEAN :
              [r EXCEPT !.recving = "idle", !.got = n, !.out = o, !.term = b] \in Call
<1>1. [r EXCEPT !.at = "stream"] \in Call
  BY DEF Call
<1>2. [r EXCEPT !.at = "refused"] \in Call
  BY DEF Call
<1>3. [r EXCEPT !.closing = "flight"] \in Call
  BY DEF Call
<1>4. [r EXCEPT !.at = "open"] \in Call
  BY DEF Call
<1>5. [r EXCEPT !.sending = TRUE] \in Call
  BY DEF Call
<1>6. [r EXCEPT !.half = TRUE] \in Call
  BY DEF Call
<1>7. [r EXCEPT !.sending = FALSE] \in Call
  BY DEF Call
<1>8. [r EXCEPT !.sending = FALSE, !.sendFailed = TRUE] \in Call
  BY DEF Call
<1>9. \A p \in {"headers", "body"}, b \in BOOLEAN : [r EXCEPT !.recving = p, !.reread = b] \in Call
  BY DEF Call
<1>10. [r EXCEPT !.recving = "idle", !.out = "error"] \in Call
  BY DEF Call
<1>11. [r EXCEPT !.headersSeen = TRUE, !.recving = "body"] \in Call
  BY DEF Call
<1>12. [r EXCEPT !.recving = "finish"] \in Call
  BY DEF Call
<1>13. \A b \in BOOLEAN, o \in {"ok", "status"} : [r EXCEPT !.recving = "idle", !.term = TRUE, !.statusReturned = b, !.out = o] \in Call
  BY DEF Call
<1>14. \A p \in {"abort", "bad"}, b \in BOOLEAN : [r EXCEPT !.closing = p, !.hasty = b] \in Call
  BY DEF Call
<1>15. [r EXCEPT !.closing = "abort"] \in Call
  BY DEF Call
<1>16. [r EXCEPT !.closing = "aborting"] \in Call
  BY DEF Call
<1>17. [r EXCEPT !.closing = "done"] \in Call
  BY DEF Call
<1>18. ASSUME NEW n \in Nat, NEW o \in {"none", "ok", "status", "error"}, NEW b \in BOOLEAN
       PROVE  [r EXCEPT !.recving = "idle", !.got = n, !.out = o, !.term = b] \in Call
  BY DEF Call
<1> QED
  BY <1>1, <1>2, <1>3, <1>4, <1>5, <1>6, <1>7, <1>8, <1>9, <1>10, <1>11, <1>12, <1>13,
      <1>14, <1>15, <1>16, <1>17, <1>18, Zenon

LEMMA CarFields ==
  ASSUME NEW r \in Car
  PROVE  /\ [r EXCEPT !.doing = TRUE] \in Car
         /\ \A d \in {"pending", "resp", "err"}, b \in BOOLEAN : [r EXCEPT !.ready = d, !.doing = FALSE, !.bodyClosed = b] \in Car
         /\ \A d \in {"pending", "resp", "err"} : [r EXCEPT !.ready = d, !.doing = FALSE] \in Car
         /\ \A b \in BOOLEAN : [r EXCEPT !.bodyClosed = TRUE, !.eof = b] \in Car
         /\ \A b \in BOOLEAN : [r EXCEPT !.eof = b, !.bodyClosed = TRUE] \in Car
         /\ \A d \in {"pending", "resp", "err"}, b \in BOOLEAN :
              [r EXCEPT !.ready = d, !.abort = "done", !.hadResp = FALSE, !.bodyClosed = b] \in Car
<1>1. [r EXCEPT !.doing = TRUE] \in Car
  BY DEF Car
<1>2. \A d \in {"pending", "resp", "err"}, b \in BOOLEAN : [r EXCEPT !.ready = d, !.doing = FALSE, !.bodyClosed = b] \in Car
  BY DEF Car
<1>3. \A d \in {"pending", "resp", "err"} : [r EXCEPT !.ready = d, !.doing = FALSE] \in Car
  BY DEF Car
<1>4. \A b \in BOOLEAN : [r EXCEPT !.bodyClosed = TRUE, !.eof = b] \in Car
  BY DEF Car
<1>5. \A b \in BOOLEAN : [r EXCEPT !.eof = b, !.bodyClosed = TRUE] \in Car
  BY DEF Car
<1>6. \A d \in {"pending", "resp", "err"}, b \in BOOLEAN :
        [r EXCEPT !.ready = d, !.abort = "done", !.hadResp = FALSE, !.bodyClosed = b] \in Car
  BY DEF Car
<1> QED
  BY <1>1, <1>2, <1>3, <1>4, <1>5, <1>6, Zenon

LEMMA WireFields ==
  ASSUME NEW r \in Wire
  PROVE  /\ \A h \in HeadKinds, m \in {"fine", "headers"} : [r EXCEPT !.head = h, !.meta = m] \in Wire
         /\ \A s \in Seq(BodyItems) : [r EXCEPT !.data = s] \in Wire
         /\ \A e \in {"ok", "err", "bare", "rst"} : [r EXCEPT !.end = e] \in Wire
         /\ \A e \in {"ok", "err"} : [r EXCEPT !.end = e, !.meta = "trailers"] \in Wire
         /\ [r EXCEPT !.head = "plain"] \in Wire
         /\ [r EXCEPT !.head = "http", !.end = "bare"] \in Wire
         /\ \A e \in {"ok", "err", "bare"} : [r EXCEPT !.end = e] \in Wire
         /\ \A h \in {"plain", "ok", "err"} : [r EXCEPT !.head = h, !.end = "bare"] \in Wire
<1>1. \A h \in HeadKinds, m \in {"fine", "headers"} : [r EXCEPT !.head = h, !.meta = m] \in Wire
  BY DEF Wire, HeadKinds
<1>2. \A s \in Seq(BodyItems) : [r EXCEPT !.data = s] \in Wire
  BY DEF Wire, HeadKinds
<1>3. \A e \in {"ok", "err", "bare", "rst"} : [r EXCEPT !.end = e] \in Wire
  BY DEF Wire, HeadKinds
<1>4. \A e \in {"ok", "err"} : [r EXCEPT !.end = e, !.meta = "trailers"] \in Wire
  BY DEF Wire, HeadKinds
<1>5. [r EXCEPT !.head = "plain"] \in Wire
  BY DEF Wire, HeadKinds
<1>6. [r EXCEPT !.head = "http", !.end = "bare"] \in Wire
  BY DEF Wire, HeadKinds
<1>7. \A e \in {"ok", "err", "bare"} : [r EXCEPT !.end = e] \in Wire
  BY DEF Wire, HeadKinds
<1>8. \A h \in {"plain", "ok", "err"} : [r EXCEPT !.head = h, !.end = "bare"] \in Wire
  BY DEF Wire, HeadKinds
<1> QED
  BY <1>1, <1>2, <1>3, <1>4, <1>5, <1>6, <1>7, <1>8, Zenon

LEMMA RespFields ==
  ASSUME NEW r \in Resp
  PROVE  /\ [r EXCEPT !.failed = TRUE] \in Resp
         /\ [r EXCEPT !.written = TRUE] \in Resp
         /\ [r EXCEPT !.at = "lpm"] \in Resp
         /\ \A f \in {"no", "ok", "err", "408"} : [r EXCEPT !.at = "closing", !.finished = f] \in Resp
         /\ [r EXCEPT !.at = "run", !.failed = TRUE] \in Resp
         /\ [r EXCEPT !.at = "run"] \in Resp
         /\ \A a \in {"run", "closing"} : [r EXCEPT !.at = a] \in Resp
         /\ \A p \in {"held", "done"} : [r EXCEPT !.aborted = TRUE, !.sweep = p] \in Resp
         /\ [r EXCEPT !.sweep = "done", !.written = TRUE, !.finished = "408"] \in Resp
<1>1. [r EXCEPT !.failed = TRUE] \in Resp
  BY DEF Resp
<1>2. [r EXCEPT !.written = TRUE] \in Resp
  BY DEF Resp
<1>3. [r EXCEPT !.at = "lpm"] \in Resp
  BY DEF Resp
<1>4. \A f \in {"no", "ok", "err", "408"} : [r EXCEPT !.at = "closing", !.finished = f] \in Resp
  BY DEF Resp
<1>5. [r EXCEPT !.at = "run", !.failed = TRUE] \in Resp
  BY DEF Resp
<1>6. [r EXCEPT !.at = "run"] \in Resp
  BY DEF Resp
<1>7. \A a \in {"run", "closing"} : [r EXCEPT !.at = a] \in Resp
  BY DEF Resp
<1>8. \A p \in {"held", "done"} : [r EXCEPT !.aborted = TRUE, !.sweep = p] \in Resp
  BY DEF Resp
<1>9. [r EXCEPT !.sweep = "done", !.written = TRUE, !.finished = "408"] \in Resp
  BY DEF Resp
<1> QED
  BY <1>1, <1>2, <1>3, <1>4, <1>5, <1>6, <1>7, <1>8, <1>9, Zenon

(* What the writes and the aborts make of their records. *)
LEMMA SendEffect ==
  ASSUME TypeOK, NEW x \in Calls, SendReturns(x)
  PROVE  /\ UNCHANGED <<peer, car, wire, resp>> /\ ~call'[x].sending
         /\ \A f \in {"at", "term", "recving", "closing", "out", "got", "hasty", "reread"} :
              call'[x][f] = call[x][f]
<1>1. CASE call' = [call EXCEPT ![x].sending = FALSE]
  BY <1>1 DEF SendReturns, TypeOK, Call
<1>2. ASSUME call' = [call EXCEPT ![x] = [call[x] EXCEPT !.sending = FALSE, !.sendFailed = TRUE]]
      PROVE  /\ ~call'[x].sending
             /\ \A f \in {"at", "term", "recving", "closing", "out", "got", "hasty", "reread"} :
                  call'[x][f] = call[x][f]
  BY <1>2 DEF TypeOK, Call
<1> QED
  BY <1>1, <1>2 DEF SendReturns

LEMMA OpenEffect ==
  ASSUME TypeOK, NEW x \in Calls, OpenStream(x)
  PROVE  /\ UNCHANGED <<peer, wire, resp>> /\ call[x].at = "stream"
         /\ \A f \in {"term", "sending", "recving", "closing", "out", "got", "hasty", "reread"} :
              call'[x][f] = call[x][f]
         /\ \A f \in {"ready", "abort", "bodyClosed", "eof", "expired"} : car'[x][f] = car[x][f]
<1>1. UNCHANGED <<peer, wire, resp>> /\ call[x].at = "stream"
  BY DEF OpenStream
<1>2. /\ call' = [call EXCEPT ![x].at = "open"] \/ call' = [call EXCEPT ![x].at = "refused"]
      /\ car' = [car EXCEPT ![x].doing = TRUE] \/ car' = car
  BY DEF OpenStream
<1>3. \A f \in {"term", "sending", "recving", "closing", "out", "got", "hasty", "reread"} :
        call'[x][f] = call[x][f]
  BY <1>2 DEF TypeOK, Call
<1>4. \A f \in {"ready", "abort", "bodyClosed", "eof", "expired"} : car'[x][f] = car[x][f]
  BY <1>2 DEF TypeOK, Car
<1> QED
  BY <1>1, <1>3, <1>4

LEMMA AbortMarkEffect ==
  ASSUME TypeOK, NEW x \in Calls, NEW who \in {"call", "session"}, AbortMark(x, who)
  PROVE  /\ car' \in [Calls -> Car] /\ car'[x].abort = "marked" /\ car'[x].by = who
         /\ \A f \in {"ready", "doing", "bodyClosed", "eof", "expired"} : car'[x][f] = car[x][f]
<1> DEFINE had == car[x].ready = "resp"
           m == [car[x] EXCEPT !.abort = "marked", !.by = who, !.hadResp = had]
<1>1. car[x] \in Car /\ had \in BOOLEAN
  BY DEF TypeOK
<1>2. car' = [car EXCEPT ![x] = m]
  BY DEF AbortMark
<1> HIDE DEF had
<1>3. /\ m \in Car /\ m.abort = "marked" /\ m.by = who
      /\ \A f \in {"ready", "doing", "bodyClosed", "eof", "expired"} : m[f] = car[x][f]
  BY <1>1 DEF Car
<1> HIDE DEF m
<1> QED
  BY <1>2, <1>3 DEF TypeOK

LEMMA CtxEffect ==
  ASSUME TypeOK, NEW x \in Calls, CtxEnds(x)
  PROVE  /\ car' \in [Calls -> Car] /\ car'[x].expired
         /\ \A f \in {"ready", "doing", "abort", "by", "bodyClosed", "eof"} : car'[x][f] = car[x][f]
         /\ \A y \in Calls \ {x} : car'[y] = car[y]
         /\ UNCHANGED <<peer, sess, call, wire, resp>>
<1> DEFINE m == [car[x] EXCEPT !.expired = TRUE]
<1>1. car[x] \in Car
  BY DEF TypeOK
<1>2. car' = [car EXCEPT ![x] = m] /\ UNCHANGED <<peer, sess, call, wire, resp>>
  BY <1>1 DEF CtxEnds, Car
<1>3. /\ m \in Car /\ m.expired
      /\ \A f \in {"ready", "doing", "abort", "by", "bodyClosed", "eof"} : m[f] = car[x][f]
  BY <1>1 DEF Car
<1> HIDE DEF m
<1> QED
  BY <1>2, <1>3 DEF TypeOK

(* What the end of the body and the drain behind it do to the carrier: the  *)
(* body is closed, and read to its end only if the peer ended it.           *)
DrainOk(x) ==
  /\ car'[x].bodyClosed /\ (car[x].eof => car'[x].eof)
  /\ car'[x].eof => car[x].eof \/ wire[x].end \notin {"none", "rst"}
  /\ car'[x].ready = car[x].ready /\ car'[x].doing = car[x].doing
  /\ car'[x].abort = car[x].abort /\ car'[x].by = car[x].by
  /\ car'[x].expired = car[x].expired
  /\ UNCHANGED <<peer, wire, resp>>

LEMMA DrainShape ==
  ASSUME TypeOK, NEW x \in Calls, RecvEnd(x) \/ RecvFinish(x)
  PROVE  DrainOk(x)
<1> USE DEF TypeOK
<1>1. CASE RecvEnd(x)
  <2>1. PICK dead \in ReadsDead(x) :
          /\ dead \/ wire[x].end # "none"
          /\ car' = [car EXCEPT ![x] = [car[x] EXCEPT !.bodyClosed = TRUE,
                          !.eof = car[x].eof \/ (~dead /\ wire[x].end # "rst")]]
    BY <1>1 DEF RecvEnd
  <2>2. PICK b \in BOOLEAN : b = (car[x].eof \/ (~dead /\ wire[x].end # "rst"))
    OBVIOUS
  <2>3. car' = [car EXCEPT ![x] = [car[x] EXCEPT !.bodyClosed = TRUE, !.eof = b]]
    BY <2>1, <2>2
  <2>4. /\ car'[x].bodyClosed /\ car'[x].eof = b
        /\ car'[x].ready = car[x].ready /\ car'[x].doing = car[x].doing
        /\ car'[x].abort = car[x].abort /\ car'[x].by = car[x].by
        /\ car'[x].expired = car[x].expired
    BY <2>3 DEF Car
  <2>5. UNCHANGED <<peer, wire, resp>>
    BY <1>1 DEF RecvEnd
  <2> QED
    BY <2>1, <2>2, <2>4, <2>5 DEF DrainOk
<1>2. CASE RecvFinish(x)
  <2>1. PICK dead \in ReadsDead(x) :
          /\ dead \/ wire[x].end # "none"
          /\ car' = [car EXCEPT ![x] = [car[x] EXCEPT
                          !.eof = car[x].eof \/ (~dead /\ wire[x].end # "rst"),
                          !.bodyClosed = TRUE]]
    BY <1>2 DEF RecvFinish
  <2>2. PICK b \in BOOLEAN : b = (car[x].eof \/ (~dead /\ wire[x].end # "rst"))
    OBVIOUS
  <2>3. car' = [car EXCEPT ![x] = [car[x] EXCEPT !.eof = b, !.bodyClosed = TRUE]]
    BY <2>1, <2>2
  <2>4. /\ car'[x].bodyClosed /\ car'[x].eof = b
        /\ car'[x].ready = car[x].ready /\ car'[x].doing = car[x].doing
        /\ car'[x].abort = car[x].abort /\ car'[x].by = car[x].by
        /\ car'[x].expired = car[x].expired
    BY <2>3 DEF Car
  <2>5. UNCHANGED <<peer, wire, resp>>
    BY <1>2 DEF RecvFinish
  <2> QED
    BY <2>1, <2>2, <2>4, <2>5 DEF DrainOk
<1> QED
  BY <1>1, <1>2

LEMMA ClosesEffect ==
  ASSUME TypeOK, NEW x \in Calls, HandlerCloses(x)
  PROVE  /\ resp' \in [Calls -> Resp] /\ resp'[x].at = "closed" /\ resp'[x].closed
         /\ resp'[x].sweep = resp[x].sweep
         /\ \/ resp'[x].finished = resp[x].finished
            \/ resp'[x].finished = "408" /\ resp[x].finished = "no" /\ Unlocked(x)
<1>1. CASE resp[x].closed /\ resp' = [resp EXCEPT ![x].at = "closed"]
  BY <1>1 DEF TypeOK, Resp
<1>2. ASSUME ~resp[x].closed, Unlocked(x), NEW w \in BOOLEAN,
             NEW f \in {"no", "ok", "err", "408"},
             f = resp[x].finished \/ (f = "408" /\ resp[x].finished = "no"),
             resp' = [resp EXCEPT ![x] = [resp[x] EXCEPT
                        !.at = "closed", !.closed = TRUE, !.aborted = TRUE, !.written = w,
                        !.finished = f]]
      PROVE  /\ resp' \in [Calls -> Resp] /\ resp'[x].at = "closed" /\ resp'[x].closed
             /\ resp'[x].sweep = resp[x].sweep
             /\ \/ resp'[x].finished = resp[x].finished
                \/ resp'[x].finished = "408" /\ resp[x].finished = "no" /\ Unlocked(x)
  <2> DEFINE m == [resp[x] EXCEPT !.at = "closed", !.closed = TRUE, !.aborted = TRUE,
                                  !.written = w, !.finished = f]
  <2>1. resp[x] \in Resp
    BY DEF TypeOK
  <2>2. /\ m \in Resp /\ m.at = "closed" /\ m.closed /\ m.sweep = resp[x].sweep
        /\ m.finished = f
    BY <2>1 DEF Resp
  <2>3. resp' = [resp EXCEPT ![x] = m]
    BY <1>2
  <2> HIDE DEF m
  <2> QED
    BY <1>2, <2>2, <2>3 DEF TypeOK
<1>3. CASE ~resp[x].closed
  <2> DEFINE answer == ~resp[x].written /\ resp[x].finished = "no"
  <2>1. PICK w \in BOOLEAN : w = (resp[x].written \/ answer)
    OBVIOUS
  <2>2. PICK f \in {"no", "ok", "err", "408"} :
          f = IF answer THEN "408" ELSE resp[x].finished
    BY DEF TypeOK, Resp
  <2>3. /\ resp' = [resp EXCEPT ![x] = [resp[x] EXCEPT
                     !.at = "closed", !.closed = TRUE, !.aborted = TRUE, !.written = w,
                     !.finished = f]]
        /\ Unlocked(x)
    BY <1>3, <2>1, <2>2 DEF HandlerCloses
  <2>4. f = resp[x].finished \/ (f = "408" /\ resp[x].finished = "no")
    BY <2>2
  <2> QED
    BY ONLY <1>2, <1>3, <2>3, <2>4
<1> QED
  BY <1>1, <1>3 DEF HandlerCloses

LEMMA TypeStep == TypeOK /\ WireShape /\ UseShape /\ CountExact /\ [Next]_vars => TypeOK'
<1> SUFFICES ASSUME TypeOK, WireShape, UseShape, CountExact, [Next]_vars PROVE TypeOK'
  OBVIOUS
<1> USE DEF TypeOK
<1>1. ASSUME NEW x \in Calls, OpenCall(x) PROVE TypeOK'
  <2>1. sess' \in Sess
    BY <1>1 DEF OpenCall, Sess
  <2>2. call' \in [Calls -> Call]
    <3>1. \/ call' = [call EXCEPT ![x] = [call[x] EXCEPT !.at = "stream"]]
          \/ call' = [call EXCEPT ![x] = [call[x] EXCEPT !.at = "refused"]]
      BY <1>1 DEF OpenCall, Call
    <3>2. call[x] \in Call
      OBVIOUS
    <3> QED
      BY <3>1, <3>2, CallFields, Zenon
  <2> QED
    BY <1>1, <2>1, <2>2 DEF OpenCall
<1>2. ASSUME NEW x \in Calls, OpenStream(x) PROVE TypeOK'
  <2>1. sess' \in Sess
    <3>1. sess.inFlight = Cardinality(InFlight) /\ sess.inFlight \in Nat
      BY DEF CountExact, Sess
    <3>2. call[x].at = "stream"
      BY <1>2 DEF OpenStream
    <3>3. sess.inFlight > 0
      BY <3>1, <3>2, SomeInFlight DEF InFlight
    <3>4. [sess EXCEPT !.inFlight = sess.inFlight - 1, !.reusable = FALSE] \in Sess
      <4>1. PICK n \in Nat : n = sess.inFlight - 1
        BY <3>1, <3>3
      <4>2. [sess EXCEPT !.inFlight = n, !.reusable = FALSE] \in Sess
        BY DEF Sess
      <4> QED
        BY <4>1, <4>2
    <3>5. [sess EXCEPT !.carriers = sess.carriers \cup {x}] \in Sess
      BY DEF Sess
    <3> QED
      BY <1>2, <3>4, <3>5 DEF OpenStream, HandleOpen
  <2>2. call' \in [Calls -> Call]
    <3>1. \/ call' = [call EXCEPT ![x] = [call[x] EXCEPT !.at = "open"]]
          \/ call' = [call EXCEPT ![x] = [call[x] EXCEPT !.at = "refused"]]
      BY <1>2 DEF OpenStream, HandleOpen, Call
    <3>2. call[x] \in Call
      OBVIOUS
    <3> QED
      BY <3>1, <3>2, CallFields, Zenon
  <2>3. car' \in [Calls -> Car]
    <3>1. \/ car' = [car EXCEPT ![x] = [car[x] EXCEPT !.doing = TRUE]]
          \/ UNCHANGED car
      BY <1>2 DEF OpenStream, HandleOpen, Car
    <3>2. car[x] \in Car
      OBVIOUS
    <3> QED
      BY <3>1, <3>2, CarFields, Zenon
  <2> QED
    BY <1>2, <2>1, <2>2, <2>3 DEF OpenStream, HandleOpen
<1>3. ASSUME NEW x \in Calls, DoReturns(x) PROVE TypeOK'
  <2>1. sess' \in Sess
    BY <1>3 DEF DoReturns, Finish, Untrack, Sess
  <2>2. car' \in [Calls -> Car]
    <3>1. \/ \E d \in {"pending", "resp", "err"}, b \in BOOLEAN : car' = [car EXCEPT ![x] = [car[x] EXCEPT !.ready = d, !.doing = FALSE, !.bodyClosed = b]]
          \/ \E d \in {"pending", "resp", "err"} : car' = [car EXCEPT ![x] = [car[x] EXCEPT !.ready = d, !.doing = FALSE]]
      BY <1>3 DEF DoReturns, Finish, Untrack, Car
    <3>2. car[x] \in Car
      OBVIOUS
    <3>3. ASSUME NEW d \in {"pending", "resp", "err"}, NEW b \in BOOLEAN,
                 car' = [car EXCEPT ![x] = [car[x] EXCEPT !.ready = d, !.doing = FALSE, !.bodyClosed = b]]
          PROVE  car' \in [Calls -> Car]
      <4>1. [car[x] EXCEPT !.ready = d, !.doing = FALSE, !.bodyClosed = b] \in Car
        BY <3>2, CarFields, Zenon
      <4> QED
        BY <3>3, <4>1
    <3>4. ASSUME NEW d \in {"pending", "resp", "err"},
                 car' = [car EXCEPT ![x] = [car[x] EXCEPT !.ready = d, !.doing = FALSE]]
          PROVE  car' \in [Calls -> Car]
      <4>1. [car[x] EXCEPT !.ready = d, !.doing = FALSE] \in Car
        BY <3>2, CarFields, Zenon
      <4> QED
        BY <3>4, <4>1
    <3> QED
      BY <3>1, <3>2, <3>3, <3>4
  <2> QED
    BY <1>3, <2>1, <2>2 DEF DoReturns, Finish, Untrack
<1>4. ASSUME NEW x \in Calls, SendStarts(x) PROVE TypeOK'
  <2>1. call' \in [Calls -> Call]
    <3>1. call' = [call EXCEPT ![x] = [call[x] EXCEPT !.sending = TRUE]]
      BY <1>4 DEF SendStarts, MaySend, Call
    <3>2. call[x] \in Call
      OBVIOUS
    <3> QED
      BY <3>1, <3>2, CallFields, Zenon
  <2> QED
    BY <1>4, <2>1 DEF SendStarts, MaySend
<1>5. ASSUME NEW x \in Calls, SendReturns(x) PROVE TypeOK'
  <2>1. sess' \in Sess
    BY <1>5, Zenon DEF SendReturns, ReceiveOpen, SendFailure, Sess
  <2>2. call' \in [Calls -> Call]
    <3>1. \/ call' = [call EXCEPT ![x] = [call[x] EXCEPT !.sending = FALSE]]
          \/ call' = [call EXCEPT ![x] = [call[x] EXCEPT !.sending = FALSE, !.sendFailed = TRUE]]
      BY <1>5 DEF SendReturns, ReceiveOpen, SendFailure, Call
    <3>2. call[x] \in Call
      OBVIOUS
    <3> QED
      BY <3>1, <3>2, CallFields, Zenon
  <2> QED
    BY <1>5, <2>1, <2>2 DEF SendReturns, ReceiveOpen, SendFailure
<1>6. ASSUME NEW x \in Calls, HalfClose(x) PROVE TypeOK'
  <2>1. call' \in [Calls -> Call]
    <3>1. call' = [call EXCEPT ![x] = [call[x] EXCEPT !.half = TRUE]]
      BY <1>6 DEF HalfClose, MaySend, Call
    <3>2. call[x] \in Call
      OBVIOUS
    <3> QED
      BY <3>1, <3>2, CallFields, Zenon
  <2> QED
    BY <1>6, <2>1 DEF HalfClose, MaySend
<1>7. ASSUME NEW x \in Calls, RecvStarts(x) PROVE TypeOK'
  <2>1. call' \in [Calls -> Call]
    <3>1. \E p \in {"headers", "body"}, b \in BOOLEAN : call' = [call EXCEPT ![x] = [call[x] EXCEPT !.recving = p, !.reread = b]]
      BY <1>7 DEF RecvStarts, Call
    <3>2. call[x] \in Call
      OBVIOUS
    <3>3. ASSUME NEW p \in {"headers", "body"}, NEW b \in BOOLEAN,
                 call' = [call EXCEPT ![x] = [call[x] EXCEPT !.recving = p, !.reread = b]]
          PROVE  call' \in [Calls -> Call]
      <4>1. [call[x] EXCEPT !.recving = p, !.reread = b] \in Call
        BY <3>2, CallFields, Zenon
      <4> QED
        BY <3>3, <4>1
    <3> QED
      BY <3>1, <3>2, <3>3
  <2> QED
    BY <1>7, <2>1 DEF RecvStarts
<1>8. ASSUME NEW x \in Calls, RecvHeaders(x) PROVE TypeOK'
  <2>1. sess' \in Sess
    BY <1>8, Zenon DEF RecvHeaders, RecvFails, Spoiled, Sess
  <2>2. call' \in [Calls -> Call]
    <3>1. \/ call' = [call EXCEPT ![x] = [call[x] EXCEPT !.recving = "idle", !.out = "error"]]
          \/ call' = [call EXCEPT ![x] = [call[x] EXCEPT !.headersSeen = TRUE, !.recving = "body"]]
      BY <1>8 DEF RecvHeaders, RecvFails, Spoiled, Call
    <3>2. call[x] \in Call
      OBVIOUS
    <3> QED
      BY <3>1, <3>2, CallFields, Zenon
  <2> QED
    BY <1>8, <2>1, <2>2 DEF RecvHeaders, RecvFails, Spoiled
<1>9. ASSUME NEW x \in Calls, RecvFrame(x) PROVE TypeOK'
  <2>1. sess' \in Sess
    BY <1>9 DEF RecvFrame, Spoiled, Sess
  <2>2. call' \in [Calls -> Call]
    <3>1. PICK o \in {"none", "ok", "status", "error"} :
            o = IF Next1(x) = "msg" THEN call[x].out ELSE "error"
      BY DEF Call
    <3>2. PICK b \in BOOLEAN : b = (call[x].term \/ Next1(x) = "big")
      OBVIOUS
    <3>3. PICK n \in Nat : n = call[x].got + 1
      BY DEF Call
    <3> DEFINE m == [call[x] EXCEPT !.recving = "idle", !.got = n, !.out = o, !.term = b]
    <3>4. m \in Call
      <4>1. call[x] \in Call
        OBVIOUS
      <4> QED
        BY <4>1, CallFields, Zenon
    <3>5. call' = [call EXCEPT ![x] = m]
      BY <1>9, <3>1, <3>2, <3>3 DEF RecvFrame
    <3> QED
      BY <3>4, <3>5
  <2> QED
    BY <1>9, <2>1, <2>2 DEF RecvFrame, Spoiled
<1>10. ASSUME NEW x \in Calls, RecvJunk(x) PROVE TypeOK'
  <2>1. sess' \in Sess
    BY <1>10, Zenon DEF RecvJunk, RecvFails, Spoiled, Sess
  <2>2. call' \in [Calls -> Call]
    <3>1. \/ call' = [call EXCEPT ![x] = [call[x] EXCEPT !.recving = "idle", !.out = "error"]]
          \/ call' = [call EXCEPT ![x] = [call[x] EXCEPT !.recving = "finish"]]
      BY <1>10 DEF RecvJunk, RecvFails, Spoiled, Call
    <3>2. call[x] \in Call
      OBVIOUS
    <3> QED
      BY <3>1, <3>2, CallFields, Zenon
  <2> QED
    BY <1>10, <2>1, <2>2 DEF RecvJunk, RecvFails, Spoiled
<1>11. ASSUME NEW x \in Calls, RecvEnd(x) PROVE TypeOK'
  <2>1. sess' \in Sess
    <3>1. \E b : sess' = [Untrack(x) EXCEPT !.reusable = Untrack(x).reusable /\ b]
      BY <1>11 DEF RecvEnd
    <3>2. Untrack(x) \in Sess
      BY DEF Untrack, Sess
    <3> QED
      BY <3>1, <3>2 DEF Sess
  <2>2. call' \in [Calls -> Call]
    <3>1. \/ call' = [call EXCEPT ![x] = [call[x] EXCEPT !.recving = "idle", !.out = "error"]]
          \/ call' = [call EXCEPT ![x] = [call[x] EXCEPT !.recving = "finish"]]
      BY <1>11 DEF RecvEnd, RecvFails, Untrack, Call
    <3>2. call[x] \in Call
      OBVIOUS
    <3> QED
      BY <3>1, <3>2, CallFields, Zenon
  <2>3. car' \in [Calls -> Car]
    <3>1. \E b \in BOOLEAN : car' = [car EXCEPT ![x] = [car[x] EXCEPT !.bodyClosed = TRUE, !.eof = b]]
      BY <1>11 DEF RecvEnd, RecvFails, Untrack, Car
    <3>2. car[x] \in Car
      OBVIOUS
    <3>3. ASSUME NEW b \in BOOLEAN,
                 car' = [car EXCEPT ![x] = [car[x] EXCEPT !.bodyClosed = TRUE, !.eof = b]]
          PROVE  car' \in [Calls -> Car]
      <4>1. [car[x] EXCEPT !.bodyClosed = TRUE, !.eof = b] \in Car
        BY <3>2, CarFields, Zenon
      <4> QED
        BY <3>3, <4>1
    <3> QED
      BY <3>1, <3>2, <3>3
  <2> QED
    BY <1>11, <2>1, <2>2, <2>3 DEF RecvEnd, RecvFails, Untrack
<1>12. ASSUME NEW x \in Calls, RecvFinish(x) PROVE TypeOK'
  <2>1. sess' \in Sess
    BY <1>12 DEF RecvFinish, RecvFails, Untrack, Sess
  <2>2. call' \in [Calls -> Call]
    <3>1. \/ call' = [call EXCEPT ![x] = [call[x] EXCEPT !.recving = "idle", !.out = "error"]]
          \/ \E b \in BOOLEAN, o \in {"ok", "status"} : call' = [call EXCEPT ![x] = [call[x] EXCEPT !.recving = "idle", !.term = TRUE, !.statusReturned = b, !.out = o]]
      BY <1>12 DEF RecvFinish, RecvFails, Untrack, Call
    <3>2. call[x] \in Call
      OBVIOUS
    <3>3. ASSUME NEW b \in BOOLEAN, NEW o \in {"ok", "status"},
                 call' = [call EXCEPT ![x] = [call[x] EXCEPT !.recving = "idle", !.term = TRUE, !.statusReturned = b, !.out = o]]
          PROVE  call' \in [Calls -> Call]
      <4>1. [call[x] EXCEPT !.recving = "idle", !.term = TRUE, !.statusReturned = b, !.out = o] \in Call
        BY <3>2, CallFields, Zenon
      <4> QED
        BY <3>3, <4>1
    <3> QED
      BY <3>1, <3>2, <3>3, CallFields, Zenon
  <2>3. car' \in [Calls -> Car]
    <3>1. \E b \in BOOLEAN : car' = [car EXCEPT ![x] = [car[x] EXCEPT !.eof = b, !.bodyClosed = TRUE]]
      BY <1>12 DEF RecvFinish, RecvFails, Untrack, Car
    <3>2. car[x] \in Car
      OBVIOUS
    <3>3. ASSUME NEW b \in BOOLEAN,
                 car' = [car EXCEPT ![x] = [car[x] EXCEPT !.eof = b, !.bodyClosed = TRUE]]
          PROVE  car' \in [Calls -> Car]
      <4>1. [car[x] EXCEPT !.eof = b, !.bodyClosed = TRUE] \in Car
        BY <3>2, CarFields, Zenon
      <4> QED
        BY <3>3, <4>1
    <3> QED
      BY <3>1, <3>2, <3>3
  <2> QED
    BY <1>12, <2>1, <2>2, <2>3 DEF RecvFinish, RecvFails, Untrack
<1>13. ASSUME NEW x \in Calls, CallClose(x) PROVE TypeOK'
  <2>1. call' \in [Calls -> Call]
    <3>1. \E p \in {"abort", "bad"}, b \in BOOLEAN : call' = [call EXCEPT ![x] = [call[x] EXCEPT !.closing = p, !.hasty = b]]
      BY <1>13 DEF CallClose, Call
    <3>2. call[x] \in Call
      OBVIOUS
    <3>3. ASSUME NEW p \in {"abort", "bad"}, NEW b \in BOOLEAN,
                 call' = [call EXCEPT ![x] = [call[x] EXCEPT !.closing = p, !.hasty = b]]
          PROVE  call' \in [Calls -> Call]
      <4>1. [call[x] EXCEPT !.closing = p, !.hasty = b] \in Call
        BY <3>2, CallFields, Zenon
      <4> QED
        BY <3>3, <4>1
    <3> QED
      BY <3>1, <3>2, <3>3
  <2> QED
    BY <1>13, <2>1 DEF CallClose
<1>14. ASSUME NEW x \in Calls, CloseMarksBad(x) PROVE TypeOK'
  <2>1. sess' \in Sess
    BY <1>14, Zenon DEF CloseMarksBad, Spoiled, Sess
  <2>2. call' \in [Calls -> Call]
    <3>1. call' = [call EXCEPT ![x] = [call[x] EXCEPT !.closing = "abort"]]
      BY <1>14 DEF CloseMarksBad, Spoiled, Call
    <3>2. call[x] \in Call
      OBVIOUS
    <3> QED
      BY <3>1, <3>2, CallFields, Zenon
  <2> QED
    BY <1>14, <2>1, <2>2 DEF CloseMarksBad, Spoiled
<1>15. ASSUME NEW x \in Calls, CallAborts(x) PROVE TypeOK'
  <2>1. call' \in [Calls -> Call]
    <3>1. \/ call' = [call EXCEPT ![x] = [call[x] EXCEPT !.closing = "aborting"]]
          \/ call' = [call EXCEPT ![x] = [call[x] EXCEPT !.closing = "flight"]]
      BY <1>15 DEF CallAborts, AbortMark, Call
    <3>2. call[x] \in Call
      OBVIOUS
    <3> QED
      BY <3>1, <3>2, CallFields, Zenon
  <2>2. car' \in [Calls -> Car]
    BY <1>15, AbortMarkEffect DEF CallAborts
  <2> QED
    BY <1>15, <2>1, <2>2 DEF CallAborts
<1>16. ASSUME NEW x \in Calls, AbortRest(x) PROVE TypeOK'
  <2>1. sess' \in Sess
    BY <1>16, Zenon DEF AbortRest, AbortResult, Finish, Untrack, Sess
  <2>2. call' \in [Calls -> Call]
    <3>1. \/ call' = [call EXCEPT ![x] = [call[x] EXCEPT !.closing = "flight"]]
          \/ UNCHANGED call
      BY <1>16 DEF AbortRest, AbortResult, Finish, Untrack, Call
    <3>2. call[x] \in Call
      OBVIOUS
    <3> QED
      BY <3>1, <3>2, CallFields, Zenon
  <2>3. car' \in [Calls -> Car]
    <3>1. \E d \in {"pending", "resp", "err"}, b \in BOOLEAN :
            car' = [car EXCEPT ![x] = [car[x] EXCEPT
                      !.ready = d, !.abort = "done", !.hadResp = FALSE, !.bodyClosed = b]]
      BY <1>16 DEF AbortRest, AbortResult, Finish, Untrack, Car
    <3>2. car[x] \in Car
      OBVIOUS
    <3>3. ASSUME NEW d \in {"pending", "resp", "err"}, NEW b \in BOOLEAN,
                 car' = [car EXCEPT ![x] = [car[x] EXCEPT
                           !.ready = d, !.abort = "done", !.hadResp = FALSE, !.bodyClosed = b]]
          PROVE  car' \in [Calls -> Car]
      <4>1. [car[x] EXCEPT !.ready = d, !.abort = "done", !.hadResp = FALSE,
                           !.bodyClosed = b] \in Car
        BY <3>2, CarFields, Zenon
      <4> QED
        BY <3>3, <4>1
    <3> QED
      BY <3>1, <3>2, <3>3
  <2> QED
    BY <1>16, <2>1, <2>2, <2>3 DEF AbortRest, AbortResult, Finish, Untrack
<1>17. ASSUME NEW x \in Calls, EndFlight(x) PROVE TypeOK'
  <2>1. sess' \in Sess
    <3>1. sess.inFlight = Cardinality(InFlight) /\ sess.inFlight \in Nat
      BY DEF CountExact, Sess
    <3>2. call[x].at = "open" /\ call[x].closing = "flight"
      BY <1>17 DEF EndFlight, UseShape, UseOk
    <3>3. sess.inFlight > 0
      BY <3>1, <3>2, SomeInFlight DEF InFlight
    <3> QED
      BY <1>17, <3>1, <3>3 DEF EndFlight, Sess
  <2>2. call' \in [Calls -> Call]
    <3>1. call' = [call EXCEPT ![x] = [call[x] EXCEPT !.closing = "done"]]
      BY <1>17 DEF EndFlight, Call
    <3>2. call[x] \in Call
      OBVIOUS
    <3> QED
      BY <3>1, <3>2, CallFields, Zenon
  <2> QED
    BY <1>17, <2>1, <2>2 DEF EndFlight
<1>18. ASSUME NEW x \in Calls, HandleAborts(x) PROVE TypeOK'
  <2>1. sess' \in Sess
    BY <1>18 DEF HandleAborts, AbortMark, Sess
  <2>2. car' \in [Calls -> Car]
    BY <1>18, AbortMarkEffect DEF HandleAborts
  <2> QED
    BY <1>18, <2>1, <2>2 DEF HandleAborts
<1>19. ASSUME NEW x \in Calls, PeerHead(x) PROVE TypeOK'
  <2>1. wire' \in [Calls -> Wire]
    <3>1. \E h \in HeadKinds, m \in {"fine", "headers"} : wire' = [wire EXCEPT ![x] = [wire[x] EXCEPT !.head = h, !.meta = m]]
      <4>1. PICK h \in Heads, m \in {"fine", "headers"} :
              wire' = [wire EXCEPT ![x] = [wire[x] EXCEPT !.head = h, !.meta = m]]
        BY <1>19 DEF PeerHead
      <4>2. h \in HeadKinds
        BY ExchangeAssumption
      <4> QED
        BY <4>1, <4>2
    <3>2. wire[x] \in Wire
      OBVIOUS
    <3>3. ASSUME NEW h \in HeadKinds, NEW m \in {"fine", "headers"},
                 wire' = [wire EXCEPT ![x] = [wire[x] EXCEPT !.head = h, !.meta = m]]
          PROVE  wire' \in [Calls -> Wire]
      <4>1. [wire[x] EXCEPT !.head = h, !.meta = m] \in Wire
        BY <3>2, WireFields, Zenon
      <4> QED
        BY <3>3, <4>1
    <3> QED
      BY <3>1, <3>2, <3>3
  <2> QED
    BY <1>19, <2>1 DEF PeerHead, Answering
<1>20. ASSUME NEW x \in Calls, PeerData(x) PROVE TypeOK'
  <2>1. wire' \in [Calls -> Wire]
    <3>1. \E s \in Seq(BodyItems) : wire' = [wire EXCEPT ![x] = [wire[x] EXCEPT !.data = s]]
      BY <1>20, ExchangeAssumption DEF PeerData, Answering, Wire
    <3>2. wire[x] \in Wire
      OBVIOUS
    <3>3. ASSUME NEW s \in Seq(BodyItems),
                 wire' = [wire EXCEPT ![x] = [wire[x] EXCEPT !.data = s]]
          PROVE  wire' \in [Calls -> Wire]
      <4>1. [wire[x] EXCEPT !.data = s] \in Wire
        BY <3>2, WireFields, Zenon
      <4> QED
        BY <3>3, <4>1
    <3> QED
      BY <3>1, <3>2, <3>3
  <2> QED
    BY <1>20, <2>1 DEF PeerData, Answering
<1>21. ASSUME NEW x \in Calls, PeerEnd(x) PROVE TypeOK'
  <2>1. wire' \in [Calls -> Wire]
    <3>1. \/ \E e \in {"ok", "err", "bare", "rst"} : wire' = [wire EXCEPT ![x] = [wire[x] EXCEPT !.end = e]]
          \/ \E e \in {"ok", "err"} : wire' = [wire EXCEPT ![x] = [wire[x] EXCEPT !.end = e, !.meta = "trailers"]]
      BY <1>21 DEF PeerEnd, Answering, Wire
    <3>2. wire[x] \in Wire
      OBVIOUS
    <3>3. ASSUME NEW e \in {"ok", "err", "bare", "rst"},
                 wire' = [wire EXCEPT ![x] = [wire[x] EXCEPT !.end = e]]
          PROVE  wire' \in [Calls -> Wire]
      <4>1. [wire[x] EXCEPT !.end = e] \in Wire
        BY <3>2, WireFields, Zenon
      <4> QED
        BY <3>3, <4>1
    <3>4. ASSUME NEW e \in {"ok", "err"},
                 wire' = [wire EXCEPT ![x] = [wire[x] EXCEPT !.end = e, !.meta = "trailers"]]
          PROVE  wire' \in [Calls -> Wire]
      <4>1. [wire[x] EXCEPT !.end = e, !.meta = "trailers"] \in Wire
        BY <3>2, WireFields, Zenon
      <4> QED
        BY <3>4, <4>1
    <3> QED
      BY <3>1, <3>2, <3>3, <3>4
  <2> QED
    BY <1>21, <2>1 DEF PeerEnd, Answering
<1>22. ASSUME NEW x \in Calls, HandlerStarts(x) PROVE TypeOK'
  <2>1. resp' \in [Calls -> Resp]
    <3>1. \E a \in {"run", "closing"} : resp' = [resp EXCEPT ![x] = [resp[x] EXCEPT !.at = a]]
      BY <1>22 DEF HandlerStarts, Resp
    <3>2. resp[x] \in Resp
      OBVIOUS
    <3>3. ASSUME NEW a \in {"run", "closing"},
                 resp' = [resp EXCEPT ![x] = [resp[x] EXCEPT !.at = a]]
          PROVE  resp' \in [Calls -> Resp]
      <4>1. [resp[x] EXCEPT !.at = a] \in Resp
        BY <3>2, RespFields, Zenon
      <4> QED
        BY <3>3, <4>1
    <3> QED
      BY <3>1, <3>2, <3>3
  <2> QED
    BY <1>22, <2>1 DEF HandlerStarts
<1>23. ASSUME NEW x \in Calls, HandlerSendHeaders(x) PROVE TypeOK'
  <2>1. wire' \in [Calls -> Wire]
    <3>1. \/ wire' = [wire EXCEPT ![x] = [wire[x] EXCEPT !.head = "plain"]]
          \/ UNCHANGED wire
      BY <1>23 DEF HandlerSendHeaders, HeadersSent, Unlocked, Wire
    <3>2. wire[x] \in Wire
      OBVIOUS
    <3> QED
      BY <3>1, <3>2, WireFields, Zenon
  <2>2. resp' \in [Calls -> Resp]
    <3>1. \/ resp' = [resp EXCEPT ![x] = [resp[x] EXCEPT !.failed = TRUE]]
          \/ resp' = [resp EXCEPT ![x] = [resp[x] EXCEPT !.written = TRUE]]
      BY <1>23 DEF HandlerSendHeaders, HeadersSent, Unlocked, Resp
    <3>2. resp[x] \in Resp
      OBVIOUS
    <3> QED
      BY <3>1, <3>2, RespFields, Zenon
  <2> QED
    BY <1>23, <2>1, <2>2 DEF HandlerSendHeaders, HeadersSent, Unlocked
<1>24. ASSUME NEW x \in Calls, HandlerSends(x) PROVE TypeOK'
  <2>1. wire' \in [Calls -> Wire]
    <3>1. \/ \E s \in Seq(BodyItems) : wire' = [wire EXCEPT ![x] = [wire[x] EXCEPT !.data = s]]
          \/ UNCHANGED wire
      <4>1. Append(wire[x].data, "hdr") \in Seq(BodyItems)
        BY DEF Wire, BodyItems
      <4>2. CASE wire' = [wire EXCEPT ![x].data = Append(wire[x].data, "hdr")]
        BY <4>1, <4>2 DEF Wire
      <4> QED
        BY <1>24, <4>2 DEF HandlerSends
    <3>2. wire[x] \in Wire
      OBVIOUS
    <3>3. ASSUME NEW s \in Seq(BodyItems),
                 wire' = [wire EXCEPT ![x] = [wire[x] EXCEPT !.data = s]]
          PROVE  wire' \in [Calls -> Wire]
      <4>1. [wire[x] EXCEPT !.data = s] \in Wire
        BY <3>2, WireFields, Zenon
      <4> QED
        BY <3>3, <4>1
    <3> QED
      BY <3>1, <3>2, <3>3
  <2>2. resp' \in [Calls -> Resp]
    <3>1. \/ resp' = [resp EXCEPT ![x] = [resp[x] EXCEPT !.failed = TRUE]]
          \/ resp' = [resp EXCEPT ![x] = [resp[x] EXCEPT !.at = "lpm"]]
      BY <1>24 DEF HandlerSends, HeadersSent, Unlocked, WriteMayFail, Resp
    <3>2. resp[x] \in Resp
      OBVIOUS
    <3> QED
      BY <3>1, <3>2, RespFields, Zenon
  <2> QED
    BY <1>24, <2>1, <2>2 DEF HandlerSends, HeadersSent, Unlocked, WriteMayFail
<1>25. ASSUME NEW x \in Calls, HandlerSendsPayload(x) PROVE TypeOK'
  <2>1. wire' \in [Calls -> Wire]
    <3>1. \/ \E s \in Seq(BodyItems) : wire' = [wire EXCEPT ![x] = [wire[x] EXCEPT !.data = s]]
          \/ UNCHANGED wire
      <4> DEFINE s == [wire[x].data EXCEPT ![Len(wire[x].data)] = "msg"]
      <4>1. wire[x].data \in Seq(BodyItems) /\ "msg" \in BodyItems
        BY DEF Wire, BodyItems
      <4>2. s \in Seq(BodyItems)
        <5>1. Len(wire[x].data) \in 1 .. Len(wire[x].data)
          BY <1>25, <4>1 DEF HandlerSendsPayload, WireShape, WireOk
        <5> QED
          BY <4>1, <5>1, ExceptSeq
      <4>3. CASE wire' = [wire EXCEPT ![x].data[Len(wire[x].data)] = "msg"]
        BY <4>2, <4>3 DEF Wire
      <4> QED
        BY <1>25, <4>3 DEF HandlerSendsPayload
    <3>2. wire[x] \in Wire
      OBVIOUS
    <3>3. ASSUME NEW s \in Seq(BodyItems),
                 wire' = [wire EXCEPT ![x] = [wire[x] EXCEPT !.data = s]]
          PROVE  wire' \in [Calls -> Wire]
      <4>1. [wire[x] EXCEPT !.data = s] \in Wire
        BY <3>2, WireFields, Zenon
      <4> QED
        BY <3>3, <4>1
    <3> QED
      BY <3>1, <3>2, <3>3
  <2>2. resp' \in [Calls -> Resp]
    <3>1. \/ resp' = [resp EXCEPT ![x] = [resp[x] EXCEPT !.at = "run", !.failed = TRUE]]
          \/ resp' = [resp EXCEPT ![x] = [resp[x] EXCEPT !.at = "run"]]
      BY <1>25 DEF HandlerSendsPayload, Unlocked, WriteMayFail, Resp
    <3>2. resp[x] \in Resp
      OBVIOUS
    <3> QED
      BY <3>1, <3>2, RespFields, Zenon
  <2> QED
    BY <1>25, <2>1, <2>2 DEF HandlerSendsPayload, Unlocked, WriteMayFail
<1>26. ASSUME NEW x \in Calls, HandlerFinishes(x) PROVE TypeOK'
  <2>1. resp' \in [Calls -> Resp]
    <3>1. \E f \in {"no", "ok", "err", "408"} : resp' = [resp EXCEPT ![x] = [resp[x] EXCEPT !.at = "closing", !.finished = f]]
      <4>1. PICK v \in {"ok", "err"} :
              resp' = [resp EXCEPT ![x] = [resp[x] EXCEPT
                         !.at = "closing",
                         !.finished = IF resp[x].failed \/ resp[x].aborted
                                      THEN resp[x].finished ELSE v]]
        BY <1>26 DEF HandlerFinishes
      <4>2. PICK f \in {"no", "ok", "err", "408"} :
              f = IF resp[x].failed \/ resp[x].aborted THEN resp[x].finished ELSE v
        BY DEF Resp
      <4> QED
        BY <4>1, <4>2
    <3>2. resp[x] \in Resp
      OBVIOUS
    <3>3. ASSUME NEW f \in {"no", "ok", "err", "408"},
                 resp' = [resp EXCEPT ![x] = [resp[x] EXCEPT !.at = "closing", !.finished = f]]
          PROVE  resp' \in [Calls -> Resp]
      <4>1. [resp[x] EXCEPT !.at = "closing", !.finished = f] \in Resp
        BY <3>2, RespFields, Zenon
      <4> QED
        BY <3>3, <4>1
    <3> QED
      BY <3>1, <3>2, <3>3
  <2> QED
    BY <1>26, <2>1 DEF HandlerFinishes, Unlocked
<1>27. ASSUME NEW x \in Calls, HandlerCloses(x) PROVE TypeOK'
  <2>1. resp' \in [Calls -> Resp]
    BY <1>27, ClosesEffect
  <2> QED
    BY <1>27, <2>1 DEF HandlerCloses, Unlocked
<1>28. ASSUME NEW x \in Calls, HandlerLeaves(x) PROVE TypeOK'
  <2>1. resp' \in [Calls -> Resp]
    BY <1>28 DEF HandlerLeaves, Resp
  <2> QED
    BY <1>28, <2>1 DEF HandlerLeaves
<1>29. ASSUME NEW x \in Calls, HandlerOver(x) PROVE TypeOK'
  <2>1. wire' \in [Calls -> Wire]
    <3>1. \/ wire' = [wire EXCEPT ![x] = [wire[x] EXCEPT !.head = "http", !.end = "bare"]]
          \/ \E e \in {"ok", "err", "bare"} : wire' = [wire EXCEPT ![x] = [wire[x] EXCEPT !.end = e]]
          \/ \E h \in {"plain", "ok", "err"} : wire' = [wire EXCEPT ![x] = [wire[x] EXCEPT !.head = h, !.end = "bare"]]
      <4>1. resp[x].finished \in {"no", "ok", "err", "408"}
        BY DEF Resp
      <4>2. wire' = [wire EXCEPT ![x] = Ended(x)]
        BY <1>29 DEF HandlerOver
      <4>3. \/ Ended(x) = [wire[x] EXCEPT !.head = "http", !.end = "bare"]
            \/ \E e \in {"ok", "err", "bare"} : Ended(x) = [wire[x] EXCEPT !.end = e]
            \/ \E h \in {"plain", "ok", "err"} :
                 Ended(x) = [wire[x] EXCEPT !.head = h, !.end = "bare"]
        BY <4>1, Zenon DEF Ended
      <4> QED
        BY <4>2, <4>3
    <3>2. wire[x] \in Wire
      OBVIOUS
    <3>3. ASSUME NEW e \in {"ok", "err", "bare"},
                 wire' = [wire EXCEPT ![x] = [wire[x] EXCEPT !.end = e]]
          PROVE  wire' \in [Calls -> Wire]
      <4>1. [wire[x] EXCEPT !.end = e] \in Wire
        BY <3>2, WireFields, Zenon
      <4> QED
        BY <3>3, <4>1
    <3>4. ASSUME NEW h \in {"plain", "ok", "err"},
                 wire' = [wire EXCEPT ![x] = [wire[x] EXCEPT !.head = h, !.end = "bare"]]
          PROVE  wire' \in [Calls -> Wire]
      <4>1. [wire[x] EXCEPT !.head = h, !.end = "bare"] \in Wire
        BY <3>2, WireFields, Zenon
      <4> QED
        BY <3>4, <4>1
    <3> QED
      BY <3>1, <3>2, <3>3, <3>4, WireFields, Zenon
  <2>2. resp' \in [Calls -> Resp]
    BY <1>29 DEF HandlerOver, Ended, Resp
  <2> QED
    BY <1>29, <2>1, <2>2 DEF HandlerOver, Ended
<1>30. ASSUME NEW x \in Calls, SweepCloses(x) PROVE TypeOK'
  <2>1. resp' \in [Calls -> Resp]
    <3>1. [resp[x] EXCEPT !.sweep = "abort", !.closed = TRUE] \in Resp
      BY DEF Resp
    <3>2. resp' = [resp EXCEPT ![x] = [resp[x] EXCEPT !.sweep = "abort", !.closed = TRUE]]
      BY <1>30 DEF SweepCloses
    <3> QED
      BY <3>1, <3>2, Zenon
  <2> QED
    BY <1>30, <2>1 DEF SweepCloses
<1>31. ASSUME NEW x \in Calls, SweepAborts(x) PROVE TypeOK'
  <2>1. resp' \in [Calls -> Resp]
    <3>1. \E p \in {"held", "done"} : resp' = [resp EXCEPT ![x] = [resp[x] EXCEPT !.aborted = TRUE, !.sweep = p]]
      BY <1>31 DEF SweepAborts, Resp
    <3>2. resp[x] \in Resp
      OBVIOUS
    <3>3. ASSUME NEW p \in {"held", "done"},
                 resp' = [resp EXCEPT ![x] = [resp[x] EXCEPT !.aborted = TRUE, !.sweep = p]]
          PROVE  resp' \in [Calls -> Resp]
      <4>1. [resp[x] EXCEPT !.aborted = TRUE, !.sweep = p] \in Resp
        BY <3>2, RespFields, Zenon
      <4> QED
        BY <3>3, <4>1
    <3> QED
      BY <3>1, <3>2, <3>3
  <2> QED
    BY <1>31, <2>1 DEF SweepAborts
<1>32. ASSUME NEW x \in Calls, SweepAnswers(x) PROVE TypeOK'
  <2>1. resp' \in [Calls -> Resp]
    <3>1. resp' = [resp EXCEPT ![x] = [resp[x] EXCEPT !.sweep = "done", !.written = TRUE, !.finished = "408"]]
      BY <1>32 DEF SweepAnswers, Resp
    <3>2. resp[x] \in Resp
      OBVIOUS
    <3> QED
      BY <3>1, <3>2, RespFields, Zenon
  <2> QED
    BY <1>32, <2>1 DEF SweepAnswers
<1>33. CASE SessionClose
  <2>1. sess' \in Sess
    BY <1>33 DEF SessionClose, Sess
  <2> QED
    BY <1>33, <2>1 DEF SessionClose
<1>34. CASE HandleClose
  <2>1. sess' \in Sess
    BY <1>34 DEF HandleClose, Sess
  <2> QED
    BY <1>34, <2>1 DEF HandleClose
<1>35. CASE UNCHANGED vars
  BY <1>35 DEF vars
<1>36. ASSUME NEW x \in Calls, CtxEnds(x) PROVE TypeOK'
  <2>1. car' \in [Calls -> Car]
    BY <1>36, CtxEffect
  <2> QED
    BY <1>36, <2>1 DEF CtxEnds
<1> QED
  BY <1>1, <1>2, <1>3, <1>4, <1>5, <1>6, <1>7, <1>8, <1>9, <1>10, <1>11, <1>12, <1>13,
      <1>14, <1>15, <1>16, <1>17, <1>18, <1>19, <1>20, <1>21, <1>22, <1>23, <1>24, <1>25,
      <1>26, <1>27, <1>28, <1>29, <1>30, <1>31, <1>32, <1>33, <1>34, <1>35, <1>36 DEF Next,
      ClientStarts, ClientSteps, PeerSteps, ServerSteps

(* What such a step leaves alone. *)
LEMMA Elsewhere ==
  ASSUME TypeOK, NEW x \in Calls, Steps(x)
  PROVE  /\ \A y \in Calls \ {x} : UNCHANGED <<peer[y], call[y], car[y], wire[y], resp[y]>>
         /\ sess'.at = sess.at /\ sess'.carriers \ {x} \subseteq sess.carriers
         /\ sess'.todo \subseteq sess.todo
         /\ sess.at = "sweep" => sess'.carriers \subseteq sess.carriers
<1> USE DEF TypeOK
<1>1. \A y \in Calls \ {x} : UNCHANGED <<peer[y], call[y], car[y], wire[y], resp[y]>>
  <2>1. CASE OpenCall(x)
    BY <2>1 DEF OpenCall
  <2>2. CASE OpenStream(x)
    BY <2>2 DEF OpenStream
  <2>3. CASE DoReturns(x)
    BY <2>3 DEF DoReturns
  <2>4. CASE SendStarts(x)
    BY <2>4 DEF SendStarts
  <2>5. CASE SendReturns(x)
    BY <2>5 DEF SendReturns
  <2>6. CASE HalfClose(x)
    BY <2>6 DEF HalfClose
  <2>7. CASE RecvStarts(x)
    BY <2>7 DEF RecvStarts
  <2>8. CASE RecvHeaders(x)
    BY <2>8 DEF RecvHeaders
  <2>9. CASE RecvFrame(x)
    BY <2>9 DEF RecvFrame
  <2>10. CASE RecvJunk(x)
    BY <2>10 DEF RecvJunk
  <2>11. CASE RecvEnd(x)
    BY <2>11 DEF RecvEnd
  <2>12. CASE RecvFinish(x)
    BY <2>12 DEF RecvFinish
  <2>13. CASE CallClose(x)
    BY <2>13 DEF CallClose
  <2>14. CASE CloseMarksBad(x)
    BY <2>14 DEF CloseMarksBad
  <2>15. CASE CallAborts(x)
    BY <2>15 DEF CallAborts, AbortMark
  <2>16. CASE AbortRest(x)
    BY <2>16 DEF AbortRest
  <2>17. CASE EndFlight(x)
    BY <2>17 DEF EndFlight
  <2>18. CASE HandleAborts(x)
    BY <2>18 DEF HandleAborts, AbortMark
  <2>19. CASE PeerHead(x)
    BY <2>19 DEF PeerHead
  <2>20. CASE PeerData(x)
    BY <2>20 DEF PeerData
  <2>21. CASE PeerEnd(x)
    BY <2>21 DEF PeerEnd
  <2>22. CASE HandlerStarts(x)
    BY <2>22 DEF HandlerStarts
  <2>23. CASE HandlerSendHeaders(x)
    BY <2>23 DEF HandlerSendHeaders
  <2>24. CASE HandlerSends(x)
    BY <2>24 DEF HandlerSends
  <2>25. CASE HandlerSendsPayload(x)
    BY <2>25 DEF HandlerSendsPayload
  <2>26. CASE HandlerFinishes(x)
    BY <2>26 DEF HandlerFinishes
  <2>27. CASE HandlerCloses(x)
    BY <2>27 DEF HandlerCloses
  <2>28. CASE HandlerLeaves(x)
    BY <2>28 DEF HandlerLeaves
  <2>29. CASE HandlerOver(x)
    BY <2>29 DEF HandlerOver
  <2>30. CASE SweepCloses(x)
    BY <2>30 DEF SweepCloses
  <2>31. CASE SweepAborts(x)
    BY <2>31 DEF SweepAborts
  <2>32. CASE SweepAnswers(x)
    BY <2>32 DEF SweepAnswers
  <2>33. CASE CtxEnds(x)
    BY <2>33, CtxEffect
  <2> QED
    BY <2>1, <2>2, <2>3, <2>4, <2>5, <2>6, <2>7, <2>8, <2>9, <2>10, <2>11, <2>12, <2>13,
        <2>14, <2>15, <2>16, <2>17, <2>18, <2>19, <2>20, <2>21, <2>22, <2>23, <2>24, <2>25,
        <2>26, <2>27, <2>28, <2>29, <2>30, <2>31, <2>32, <2>33 DEF Steps, ClientStarts,
        ClientSteps, PeerSteps, ServerSteps
<1>2. /\ sess'.at = sess.at /\ sess'.carriers \ {x} \subseteq sess.carriers
      /\ sess'.todo \subseteq sess.todo
      /\ sess.at = "sweep" => sess'.carriers \subseteq sess.carriers
  <2>1. CASE OpenCall(x)
    BY <2>1 DEF OpenCall, Sess
  <2>2. CASE OpenStream(x)
    <3>1. CASE HandleOpen
      BY <2>2, <3>1 DEF OpenStream, HandleOpen, Sess
    <3>2. CASE ~HandleOpen
      BY <2>2, <3>2 DEF OpenStream, Sess
    <3> QED
      BY <3>1, <3>2
  <2>3. CASE DoReturns(x)
    BY <2>3 DEF DoReturns, Finish, Untrack, Sess
  <2>4. CASE SendReturns(x)
    BY <2>4 DEF SendReturns, ReceiveOpen, SendFailure, Sess
  <2>5. CASE RecvHeaders(x)
    BY <2>5 DEF RecvHeaders, RecvFails, Spoiled, Sess
  <2>6. CASE RecvFrame(x)
    BY <2>6 DEF RecvFrame, Spoiled, Sess
  <2>7. CASE RecvJunk(x)
    BY <2>7 DEF RecvJunk, RecvFails, Spoiled, Sess
  <2>8. CASE RecvEnd(x)
    BY <2>8 DEF RecvEnd, RecvFails, Untrack, Sess
  <2>9. CASE RecvFinish(x)
    BY <2>9 DEF RecvFinish, RecvFails, Untrack, Sess
  <2>10. CASE CloseMarksBad(x)
    BY <2>10 DEF CloseMarksBad, Spoiled, Sess
  <2>11. CASE AbortRest(x)
    BY <2>11 DEF AbortRest, AbortResult, Finish, Untrack, Sess
  <2>12. CASE EndFlight(x)
    BY <2>12 DEF EndFlight, Sess
  <2>13. CASE HandleAborts(x)
    BY <2>13 DEF HandleAborts, AbortMark, Sess
  <2> QED
    BY <2>1, <2>2, <2>3, <2>4, <2>5, <2>6, <2>7, <2>8, <2>9, <2>10, <2>11, <2>12, <2>13 DEF
        Steps, ClientStarts, ClientSteps, PeerSteps, ServerSteps, SendStarts, HalfClose,
        RecvStarts, CallClose, CallAborts, CtxEnds, PeerHead, PeerData, PeerEnd, HandlerStarts,
        HandlerSendHeaders, HandlerSends, HandlerSendsPayload, HandlerFinishes,
        HandlerCloses, HandlerLeaves, HandlerOver, SweepCloses, SweepAborts, SweepAnswers
<1> QED
  BY <1>1, <1>2, Zenon

LEMMA WireAt ==
  ASSUME TypeOK, WireShape, CarShape, UseShape, NEW x \in Calls, Steps(x)
  PROVE  WireOk(x)' /\ RespOk(x)'
<1> USE DEF TypeOK
<1>0. WireOk(x) /\ RespOk(x)
  BY DEF WireShape
<1>1. ASSUME \/ OpenCall(x) \/ OpenStream(x) \/ DoReturns(x)
                \/ SendStarts(x) \/ SendReturns(x) \/ HalfClose(x)
                \/ RecvStarts(x) \/ RecvHeaders(x) \/ RecvFrame(x)
                \/ RecvJunk(x) \/ RecvEnd(x) \/ RecvFinish(x)
                \/ CallClose(x) \/ CloseMarksBad(x) \/ CallAborts(x)
                \/ AbortRest(x) \/ EndFlight(x) \/ HandleAborts(x) \/ CtxEnds(x)
      PROVE  WireOk(x)' /\ RespOk(x)'
  <2>1. UNCHANGED <<wire[x], resp[x], peer[x]>>
    BY <1>1 DEF OpenCall, OpenStream, DoReturns, SendStarts, SendReturns, HalfClose,
        RecvStarts, RecvHeaders, RecvFrame, RecvJunk, RecvEnd, RecvFinish, CallClose,
        CloseMarksBad, CallAborts, AbortRest, EndFlight, HandleAborts, CtxEnds
  <2> QED
    BY <1>0, <2>1 DEF WireOk, RespOk
<1>2. CASE PeerHead(x)
  <2>1. PICK h \in Heads, m \in {"fine", "headers"} :
          wire' = [wire EXCEPT ![x] = [wire[x] EXCEPT !.head = h, !.meta = m]]
    BY <1>2 DEF PeerHead
  <2>2. h \in HeadKinds /\ h # "none"
    BY ExchangeAssumption DEF HeadKinds
  <2>3. /\ wire'[x].head # "none" /\ wire'[x].end = "none" /\ wire'[x].data = wire[x].data
        /\ UNCHANGED <<peer, resp>> /\ peer[x] # "argos"
    BY <1>2, <2>1, <2>2 DEF PeerHead, Answering, Wire
  <2> QED
    BY ONLY <1>0, <2>3 DEF WireOk, RespOk
<1>3. CASE PeerData(x)
  BY <1>0, <1>3 DEF PeerData, Answering, WireOk, RespOk, Wire
<1>4. CASE PeerEnd(x)
  <2>1. /\ peer[x] = "foreign" /\ UNCHANGED <<peer, resp>>
        /\ wire'[x].meta = wire[x].meta \/ wire[x].head # "none"
        /\ wire'[x].head = wire[x].head /\ wire'[x].data = wire[x].data
        /\ wire[x].head \in {"ok", "err"} => wire'[x].end \in {"bare", "rst"}
    <3>1. peer[x] = "foreign" /\ UNCHANGED <<peer, resp>>
      BY <1>4 DEF PeerEnd, Answering
    <3>2. ASSUME NEW e, wire' = [wire EXCEPT ![x].end = e]
          PROVE  wire'[x].end = e /\ wire'[x].meta = wire[x].meta /\ wire'[x].head = wire[x].head /\ wire'[x].data = wire[x].data
      BY <3>2 DEF Wire
    <3>3. ASSUME NEW e,
                 wire' = [wire EXCEPT ![x] = [wire[x] EXCEPT !.end = e, !.meta = "trailers"]]
          PROVE  wire'[x].end = e /\ wire'[x].head = wire[x].head /\ wire'[x].data = wire[x].data
      BY <3>3 DEF Wire
    <3> HIDE DEF TypeOK
    <3> QED
      BY <1>4, <3>1, <3>2, <3>3 DEF PeerEnd
  <2> QED
    BY ONLY <1>0, <2>1 DEF WireOk, RespOk
<1>5. CASE HandlerStarts(x)
  BY <1>0, <1>5 DEF HandlerStarts, WireOk, RespOk, Resp
<1>6. CASE HandlerSendHeaders(x)
  <2>1. /\ resp'[x].at = "run" /\ peer'[x] = peer[x]
        /\ resp'[x].sweep = resp[x].sweep /\ resp'[x].closed = resp[x].closed
        /\ resp'[x].finished = resp[x].finished /\ resp[x].at = "run"
    BY <1>6 DEF HandlerSendHeaders, Resp
  <2>2. /\ wire'[x].end = wire[x].end /\ wire'[x].data = wire[x].data
        /\ wire'[x].meta = wire[x].meta
        /\ wire'[x].head = wire[x].head \/ wire'[x].head = "plain"
    BY <1>6 DEF HandlerSendHeaders, Wire
  <2>3. WireOk(x) /\ RespOk(x)
    BY DEF WireShape
  <2> QED
    BY ONLY <2>1, <2>2, <2>3 DEF WireOk, RespOk
<1>7. CASE HandlerSends(x)
  <2>1. /\ resp'[x].at \in {"run", "lpm"} /\ peer'[x] = peer[x]
        /\ resp'[x].sweep = resp[x].sweep /\ resp'[x].closed = resp[x].closed
        /\ resp'[x].finished = resp[x].finished /\ resp[x].at = "run"
    BY <1>7 DEF HandlerSends, Resp
  <2>2. /\ wire'[x].end = wire[x].end /\ wire'[x].head = wire[x].head
        /\ wire'[x].meta = wire[x].meta
        /\ \/ wire'[x].data = wire[x].data /\ resp'[x].at = "run"
           \/ wire'[x].data = Append(wire[x].data, "hdr")
    BY <1>7 DEF HandlerSends, Wire, Resp
  <2>3. WireOk(x) /\ RespOk(x)
    BY DEF WireShape
  <2>4. wire[x].data \in Seq(BodyItems) /\ "hdr" \in BodyItems
    BY DEF Wire, BodyItems
  <2>5. peer[x] = "argos" => \A i \in 1 .. Len(wire'[x].data) : wire'[x].data[i] \in {"msg", "hdr"}
    <3>1. CASE wire'[x].data = wire[x].data
      BY <2>3, <3>1 DEF WireOk
    <3>2. CASE wire'[x].data = Append(wire[x].data, "hdr")
      <4>1. /\ Len(wire[x].data) \in Nat /\ Len(wire'[x].data) = Len(wire[x].data) + 1
            /\ wire'[x].data[Len(wire[x].data) + 1] = "hdr"
            /\ \A i \in 1 .. Len(wire[x].data) : wire'[x].data[i] = wire[x].data[i]
        BY <2>4, <3>2, AppendProperties, LenProperties
      <4>2. \A i \in 1 .. Len(wire'[x].data) :
              i \in 1 .. Len(wire[x].data) \/ i = Len(wire[x].data) + 1
        BY <4>1
      <4> QED
        BY <2>3, <4>1, <4>2 DEF WireOk
    <3> QED
      BY <2>2, <3>1, <3>2
  <2>6. resp'[x].at = "lpm" => Len(wire'[x].data) > 0
    BY <2>2, <2>4, AppendProperties
  <2> QED
    BY ONLY <2>1, <2>2, <2>3, <2>5, <2>6 DEF WireOk, RespOk
<1>8. CASE HandlerSendsPayload(x)
  <2>1. /\ resp'[x].at = "run" /\ peer'[x] = peer[x]
        /\ resp'[x].sweep = resp[x].sweep /\ resp'[x].closed = resp[x].closed
        /\ resp'[x].finished = resp[x].finished /\ resp[x].at = "lpm"
    <3>1. CASE resp' = [resp EXCEPT ![x].at = "run"]
      BY <1>8, <3>1 DEF HandlerSendsPayload, Resp
    <3>2. CASE resp' = [resp EXCEPT ![x] = [resp[x] EXCEPT !.at = "run", !.failed = TRUE]]
      BY <1>8, <3>2 DEF HandlerSendsPayload, Resp
    <3> QED
      BY <1>8, <3>1, <3>2 DEF HandlerSendsPayload
  <2>2. /\ wire'[x].end = wire[x].end /\ wire'[x].head = wire[x].head
        /\ wire'[x].meta = wire[x].meta
        /\ \/ wire'[x].data = wire[x].data
           \/ wire'[x].data = [wire[x].data EXCEPT ![Len(wire[x].data)] = "msg"]
    BY <1>8 DEF HandlerSendsPayload, Wire
  <2>3. WireOk(x) /\ RespOk(x)
    BY DEF WireShape
  <2>4. /\ wire[x].data \in Seq(BodyItems) /\ "msg" \in BodyItems
        /\ Len(wire[x].data) \in 1 .. Len(wire[x].data)
    BY <2>1, <2>3 DEF Wire, BodyItems, WireOk
  <2>5. peer[x] = "argos" => \A i \in 1 .. Len(wire'[x].data) : wire'[x].data[i] \in {"msg", "hdr"}
    BY <2>2, <2>3, <2>4, ExceptSeq DEF WireOk
  <2> QED
    BY ONLY <2>1, <2>2, <2>3, <2>5 DEF WireOk, RespOk
<1>9. CASE HandlerFinishes(x)
  BY <1>0, <1>9 DEF HandlerFinishes, Unlocked, WireOk, RespOk, Resp
<1>10. CASE HandlerCloses(x)
  <2>1. UNCHANGED <<peer, wire>> /\ resp[x].at = "closing"
    BY <1>10 DEF HandlerCloses
  <2>2. /\ resp'[x].at = "closed" /\ resp'[x].closed /\ resp'[x].sweep = resp[x].sweep
        /\ \/ resp'[x].finished = resp[x].finished
           \/ /\ resp'[x].finished = "408" /\ resp[x].finished = "no"
              /\ resp[x].sweep # "held"
    BY <1>10, ClosesEffect DEF Unlocked
  <2> QED
    BY ONLY <1>0, <2>1, <2>2 DEF WireOk, RespOk
<1>11. CASE HandlerLeaves(x)
  BY <1>0, <1>11 DEF HandlerLeaves, WireOk, RespOk, Resp
<1>12. CASE HandlerOver(x)
  BY <1>0, <1>12 DEF HandlerOver, Ended, WireOk, RespOk, Wire, Resp
<1>13. CASE SweepCloses(x)
  BY <1>0, <1>13 DEF SweepCloses, WireOk, RespOk, Resp
<1>14. CASE SweepAborts(x)
  BY <1>0, <1>14 DEF SweepAborts, WireOk, RespOk, Resp
<1>15. CASE SweepAnswers(x)
  BY <1>0, <1>15 DEF SweepAnswers, WireOk, RespOk, Resp
<1> QED
  BY <1>1, <1>2, <1>3, <1>4, <1>5, <1>6, <1>7, <1>8, <1>9, <1>10, <1>11, <1>12, <1>13,
      <1>14, <1>15 DEF Steps, ClientStarts, ClientSteps, PeerSteps, ServerSteps

LEMMA CarAt ==
  ASSUME TypeOK, WireShape, CarShape, UseShape, NEW x \in Calls, Steps(x)
  PROVE  CarOk(x)'
<1> USE DEF TypeOK
<1>0. CarOk(x)
  BY DEF CarShape
<1>1. ASSUME \/ HandlerStarts(x) \/ HandlerFinishes(x) \/ HandlerCloses(x)
                \/ HandlerLeaves(x) \/ SweepCloses(x) \/ SweepAborts(x)
                \/ SweepAnswers(x)
      PROVE  CarOk(x)'
  <2>1. UNCHANGED <<call[x], car[x], wire[x], sess>>
    BY <1>1 DEF HandlerStarts, HandlerFinishes, HandlerCloses, HandlerLeaves, SweepCloses,
        SweepAborts, SweepAnswers
  <2> QED
    BY <1>0, <2>1 DEF CarOk
<1>2. CASE OpenCall(x)
  BY <1>0, <1>2 DEF OpenCall, CarOk, Call, Sess
<1>3. CASE OpenStream(x)
  <2>1. call[x].at = "stream" /\ UNCHANGED wire
    BY <1>3 DEF OpenStream
  <2>2. call[x].closing = "no" /\ CarOk(x)
    BY <2>1 DEF UseShape, UseOk, CarShape
  <2>3. CASE HandleOpen
    <3>1. /\ call' = [call EXCEPT ![x].at = "open"]
          /\ sess' = [sess EXCEPT !.carriers = sess.carriers \cup {x}]
          /\ car' = [car EXCEPT ![x].doing = TRUE] /\ sess.at # "sweep"
      BY <1>3, <2>3 DEF OpenStream, HandleOpen
    <3>2. /\ call'[x].at = "open" /\ call'[x].closing = call[x].closing
      BY <3>1 DEF Call
    <3>3. /\ car'[x].ready = car[x].ready /\ car'[x].abort = car[x].abort
          /\ car'[x].by = car[x].by /\ car'[x].eof = car[x].eof
          /\ car'[x].expired = car[x].expired
          /\ car'[x].bodyClosed = car[x].bodyClosed
      BY <3>1 DEF Car
    <3>4. sess'.at = sess.at /\ sess'.carriers = sess.carriers \cup {x} /\ sess'.todo = sess.todo
      BY <3>1 DEF Sess
    <3> QED
      BY ONLY <2>1, <2>2, <3>1, <3>2, <3>3, <3>4 DEF CarOk
  <2>4. CASE ~HandleOpen
    <3>1. /\ call' = [call EXCEPT ![x].at = "refused"] /\ UNCHANGED car
          /\ sess' = [sess EXCEPT !.inFlight = sess.inFlight - 1, !.reusable = FALSE]
      BY <1>3, <2>4 DEF OpenStream
    <3>2. /\ call'[x].at = "refused" /\ call'[x].closing = call[x].closing
      BY <3>1 DEF Call
    <3>3. sess'.at = sess.at /\ sess'.carriers = sess.carriers /\ sess'.todo = sess.todo
      BY <3>1 DEF Sess
    <3> QED
      BY ONLY <2>1, <2>2, <3>1, <3>2, <3>3 DEF CarOk
  <2> QED
    BY <2>3, <2>4
<1>4. CASE DoReturns(x)
  <2>1. UNCHANGED <<call, wire>> /\ car[x].doing /\ sess'.at = sess.at /\ sess'.todo = sess.todo
    BY <1>4 DEF DoReturns, Untrack, Sess
  <2>2. ASSUME wire[x].head # "none", UNCHANGED sess, NEW b \in BOOLEAN,
               car' = [car EXCEPT ![x] =
                         [Finish(x, "resp") EXCEPT !.doing = FALSE, !.bodyClosed = b]],
               car[x].ready = "pending" => b = car[x].bodyClosed
        PROVE  CarOk(x)'
    <3>1. /\ ~car'[x].doing /\ car'[x].abort = car[x].abort
          /\ car'[x].by = car[x].by /\ car'[x].eof = car[x].eof
          /\ car'[x].expired = car[x].expired
          /\ car[x].ready # "pending" => car'[x].ready = car[x].ready
          /\ car[x].ready = "pending" =>
               car'[x].bodyClosed = car[x].bodyClosed /\ car'[x].ready = "resp"
      BY <2>2 DEF Finish, Car
    <3>2. car[x].ready \in {"pending", "resp", "err"} /\ CarOk(x)
      BY DEF Car, CarShape
    <3> QED
      BY ONLY <2>1, <2>2, <3>1, <3>2 DEF CarOk
  <2>3. CASE /\ \/ car[x].abort = "done" \/ car[x].expired
                \/ wire[x].head = "none" /\ wire[x].end = "rst"
             /\ car' = [car EXCEPT ![x] = [Finish(x, "err") EXCEPT !.doing = FALSE]]
             /\ sess' = IF car[x].ready = "pending" THEN Untrack(x) ELSE sess
    <3>1. /\ ~car'[x].doing /\ car'[x].abort = car[x].abort
          /\ car'[x].by = car[x].by /\ car'[x].eof = car[x].eof
          /\ car'[x].expired = car[x].expired
          /\ car'[x].bodyClosed = car[x].bodyClosed
          /\ car'[x].ready = IF car[x].ready = "pending" THEN "err" ELSE car[x].ready
      BY <2>3 DEF Finish, Car
    <3>2. sess'.carriers = IF car[x].ready = "pending"
                           THEN sess.carriers \ {x} ELSE sess.carriers
      BY <2>3 DEF Untrack, Sess
    <3>3. car[x].ready \in {"pending", "resp", "err"} /\ CarOk(x)
      BY DEF Car, CarShape
    <3> QED
      BY ONLY <2>1, <2>3, <3>1, <3>2, <3>3 DEF CarOk
  <2>4. CASE wire[x].head # "none" /\ UNCHANGED sess
    <3>1. ASSUME car' = [car EXCEPT ![x] = [Finish(x, "resp") EXCEPT !.doing = FALSE,
                           !.bodyClosed = car[x].bodyClosed \/ car[x].ready # "pending"]]
          PROVE  CarOk(x)'
      <4>1. PICK b \in BOOLEAN : b = (car[x].bodyClosed \/ car[x].ready # "pending")
        OBVIOUS
      <4>2. car[x].ready = "pending" => b = car[x].bodyClosed
        BY <4>1 DEF Finish, Car
      <4> QED
        BY <2>2, <2>4, <3>1, <4>1, <4>2
    <3> QED
      BY <1>4, <2>3, <3>1, Zenon DEF DoReturns
  <2> QED
    BY <1>4, <2>3, <2>4, Zenon DEF DoReturns
<1>5. CASE SendStarts(x)
  BY <1>0, <1>5 DEF SendStarts, MaySend, CarOk, Call
<1>6. CASE SendReturns(x)
  <2>1. call'[x].at = call[x].at /\ call'[x].closing = call[x].closing
    BY <1>6, SendEffect
  <2>2. wire'[x] = wire[x]
    BY <1>6 DEF SendReturns
  <2>3. /\ car'[x] = car[x] /\ sess'.at = sess.at
        /\ sess'.carriers = sess.carriers /\ sess'.todo = sess.todo
    BY <1>6 DEF SendReturns, ReceiveOpen, SendFailure, Sess
  <2> QED
    BY ONLY <1>0, <2>1, <2>2, <2>3 DEF CarOk
<1>7. CASE HalfClose(x)
  BY <1>0, <1>7 DEF HalfClose, MaySend, CarOk, Call
<1>8. CASE RecvStarts(x)
  BY <1>0, <1>8 DEF RecvStarts, CarOk, Call
<1>9. CASE RecvHeaders(x)
  <2>1. call'[x].at = call[x].at /\ call'[x].closing = call[x].closing
    <3>1. CASE call' = [call EXCEPT ![x] = RecvFails(x)]
      BY <3>1 DEF RecvFails, Call
    <3>2. CASE call' = [call EXCEPT ![x] = [call[x] EXCEPT !.headersSeen = TRUE, !.recving = "body"]]
      BY <3>2 DEF Call
    <3> QED
      BY <1>9, <3>1, <3>2 DEF RecvHeaders
  <2>2. wire'[x] = wire[x]
    BY <1>9 DEF RecvHeaders
  <2>3. /\ car'[x] = car[x] /\ sess'.at = sess.at
        /\ sess'.carriers = sess.carriers /\ sess'.todo = sess.todo
    BY <1>9 DEF RecvHeaders, RecvFails, Spoiled, Sess
  <2> QED
    BY ONLY <1>0, <2>1, <2>2, <2>3 DEF CarOk
<1>10. CASE RecvFrame(x)
  BY <1>0, <1>10 DEF RecvFrame, Spoiled, CarOk, Call, Sess
<1>11. CASE RecvJunk(x)
  <2>1. call'[x].at = call[x].at /\ call'[x].closing = call[x].closing
    <3>1. CASE call' = [call EXCEPT ![x] = RecvFails(x)]
      BY <3>1 DEF RecvFails, Call
    <3>2. CASE call' = [call EXCEPT ![x] = [call[x] EXCEPT !.recving = "finish"]]
      BY <3>2 DEF Call
    <3> QED
      BY <1>11, <3>1, <3>2 DEF RecvJunk
  <2>2. wire'[x] = wire[x]
    BY <1>11 DEF RecvJunk
  <2>3. /\ car'[x] = car[x] /\ sess'.at = sess.at
        /\ sess'.carriers = sess.carriers /\ sess'.todo = sess.todo
    BY <1>11 DEF RecvJunk, RecvFails, Spoiled, Sess
  <2> QED
    BY ONLY <1>0, <2>1, <2>2, <2>3 DEF CarOk
<1>12. CASE RecvEnd(x)
  <2>1. /\ call'[x].at = call[x].at /\ call'[x].closing = call[x].closing
        /\ call[x].recving = "body"
    BY <1>12 DEF RecvEnd, RecvFails, Call
  <2>2. /\ sess'.at = sess.at /\ sess'.carriers = sess.carriers \ {x} /\ sess'.todo = sess.todo
    BY <1>12 DEF RecvEnd, Untrack, Sess
  <2>3. DrainOk(x)
    BY <1>12, DrainShape
  <2>4. call[x].at = "open"
    BY <2>1 DEF UseShape, UseOk
  <2> QED
    BY ONLY <1>0, <2>1, <2>2, <2>3, <2>4 DEF CarOk, DrainOk
<1>13. CASE RecvFinish(x)
  <2>1. DrainOk(x)
    BY <1>13, DrainShape
  <2>2. /\ call[x].recving = "finish"
        /\ sess'.at = sess.at /\ sess'.carriers = sess.carriers \ {x} /\ sess'.todo = sess.todo
    BY <1>13 DEF RecvFinish, Untrack, Sess
  <2>3. call'[x].at = call[x].at /\ call'[x].closing = call[x].closing
    BY <1>13 DEF RecvFinish, RecvFails, Call
  <2>4. call[x].at = "open"
    BY <2>2 DEF UseShape, UseOk
  <2> QED
    BY ONLY <1>0, <2>1, <2>2, <2>3, <2>4 DEF CarOk, DrainOk
<1>14. CASE CallClose(x)
  BY <1>0, <1>14 DEF CallClose, CarOk, Call
<1>15. CASE CloseMarksBad(x)
  BY <1>0, <1>15 DEF CloseMarksBad, Spoiled, CarOk, Call, Sess
<1>16. CASE CallAborts(x)
  <2>1. UNCHANGED <<wire, sess>> /\ call'[x].at = call[x].at /\ call[x].closing = "abort"
    BY <1>16 DEF CallAborts, Call
  <2>2. \/ /\ car[x].abort = "no" /\ call'[x].closing = "aborting"
           /\ AbortMark(x, "call")
        \/ car[x].abort # "no" /\ call'[x].closing = "flight" /\ UNCHANGED car
    <3>1. CASE car[x].abort = "no"
      <4>1. call'[x].closing = "aborting"
        BY <1>16, <3>1 DEF CallAborts, Call
      <4> QED
        BY <1>16, <3>1, <4>1 DEF CallAborts
    <3>2. CASE car[x].abort # "no"
      BY <1>16, <3>2 DEF CallAborts, Call
    <3> QED
      BY <3>1, <3>2
  <2>3. AbortMark(x, "call") =>
          /\ car'[x].abort = "marked" /\ car'[x].by = "call"
          /\ car'[x].ready = car[x].ready /\ car'[x].doing = car[x].doing
          /\ car'[x].bodyClosed = car[x].bodyClosed /\ car'[x].eof = car[x].eof
          /\ car'[x].expired = car[x].expired
    BY AbortMarkEffect
  <2>4. call[x].at = "open"
    BY <2>1 DEF UseShape, UseOk
  <2> QED
    BY ONLY <1>0, <2>1, <2>2, <2>3, <2>4 DEF CarOk
<1>17. CASE AbortRest(x)
  BY <1>0, <1>17 DEF AbortRest, AbortResult, Finish, Untrack, CarOk, Call, Car, Sess
<1>18. CASE EndFlight(x)
  BY <1>0, <1>18 DEF EndFlight, CarOk, Call, Sess
<1>19. CASE HandleAborts(x)
  <2>1. /\ UNCHANGED <<wire, call>> /\ sess.at = "sweep" /\ sess'.at = sess.at
        /\ sess'.carriers = sess.carriers /\ x \in sess.todo
    BY <1>19 DEF HandleAborts, Sess
  <2>2. \/ /\ car[x].abort = "no"
           /\ AbortMark(x, "session")
        \/ car[x].abort # "no" /\ sess'.todo = sess.todo \ {x} /\ UNCHANGED car
    BY <1>19 DEF HandleAborts, Sess
  <2>3. AbortMark(x, "session") =>
          /\ car'[x].abort = "marked" /\ car'[x].by = "session"
          /\ car'[x].ready = car[x].ready /\ car'[x].doing = car[x].doing
          /\ car'[x].bodyClosed = car[x].bodyClosed /\ car'[x].eof = car[x].eof
          /\ car'[x].expired = car[x].expired
    BY AbortMarkEffect
  <2> QED
    BY ONLY <1>0, <2>1, <2>2, <2>3 DEF CarOk
<1>20. CASE PeerHead(x)
  BY <1>0, <1>20 DEF PeerHead, Answering, CarOk, Wire
<1>21. CASE PeerData(x)
  BY <1>0, <1>21 DEF PeerData, Answering, CarOk, Wire
<1>22. CASE PeerEnd(x)
  BY <1>0, <1>22 DEF PeerEnd, Answering, CarOk, Wire
<1>23. CASE HandlerSendHeaders(x)
  BY <1>0, <1>23 DEF HandlerSendHeaders, HeadersSent, Unlocked, CarOk, Wire, Resp
<1>24. CASE HandlerSends(x)
  BY <1>0, <1>24 DEF HandlerSends, HeadersSent, Unlocked, WriteMayFail, CarOk, Wire, Resp
<1>25. CASE HandlerSendsPayload(x)
  BY <1>0, <1>25 DEF HandlerSendsPayload, Unlocked, WriteMayFail, CarOk, Wire, Resp
<1>26. CASE HandlerOver(x)
  <2>1. UNCHANGED <<call, car, sess>>
    BY <1>26 DEF HandlerOver
  <2>2. wire[x].end = "none" /\ wire'[x].end # "none" /\ wire'[x].end # "rst"
    <3>1. resp[x].at = "left" /\ wire[x].end = "none"
      BY <1>26 DEF HandlerOver, WireShape, WireOk
    <3>2. resp[x].finished \in {"no", "ok", "err", "408"}
      BY DEF Resp
    <3> QED
      BY <1>26, <3>1, <3>2 DEF HandlerOver, Ended, Wire
  <2> QED
    BY ONLY <1>0, <2>1, <2>2 DEF CarOk
<1>27. CASE CtxEnds(x)
  <2>1. call[x].at \in {"stream", "open"} /\ UNCHANGED <<sess, call, wire>>
    BY <1>27 DEF CtxEnds
  <2>2. /\ car'[x].ready = car[x].ready /\ car'[x].doing = car[x].doing
        /\ car'[x].abort = car[x].abort /\ car'[x].by = car[x].by
        /\ car'[x].bodyClosed = car[x].bodyClosed /\ car'[x].eof = car[x].eof
        /\ car'[x].expired
    BY <1>27, CtxEffect
  <2> QED
    BY ONLY <1>0, <2>1, <2>2 DEF CarOk
<1> QED
  BY <1>1, <1>2, <1>3, <1>4, <1>5, <1>6, <1>7, <1>8, <1>9, <1>10, <1>11, <1>12, <1>13,
      <1>14, <1>15, <1>16, <1>17, <1>18, <1>19, <1>20, <1>21, <1>22, <1>23, <1>24, <1>25,
      <1>26, <1>27 DEF Steps, ClientStarts, ClientSteps, PeerSteps, ServerSteps

(* The return of client.Do disturbs nothing that Abort or Recv recorded. *)
LEMMA DoEffect ==
  ASSUME TypeOK, NEW x \in Calls, DoReturns(x)
  PROVE  /\ UNCHANGED call /\ car'[x].abort = car[x].abort /\ car'[x].eof = car[x].eof
         /\ car'[x].expired = car[x].expired
         /\ car[x].bodyClosed => car'[x].bodyClosed
<1>1. /\ Finish(x, "resp").abort = car[x].abort /\ Finish(x, "resp").eof = car[x].eof
      /\ Finish(x, "resp").expired = car[x].expired /\ Finish(x, "err").expired = car[x].expired
      /\ Finish(x, "err").abort = car[x].abort /\ Finish(x, "err").eof = car[x].eof
      /\ Finish(x, "err").bodyClosed = car[x].bodyClosed
      /\ Finish(x, "resp").bodyClosed = car[x].bodyClosed
      /\ DOMAIN Finish(x, "err") = DOMAIN car[x] /\ DOMAIN Finish(x, "resp") = DOMAIN car[x]
  BY DEF Finish, Car, TypeOK
<1>2. UNCHANGED call
  BY DEF DoReturns
<1>3. CASE car' = [car EXCEPT ![x] = [Finish(x, "err") EXCEPT !.doing = FALSE]]
  BY <1>1, <1>2, <1>3 DEF Car, TypeOK
<1>4. ASSUME NEW b, car[x].bodyClosed => b,
             car' = [car EXCEPT ![x] =
                       [Finish(x, "resp") EXCEPT !.doing = FALSE, !.bodyClosed = b]]
      PROVE  /\ car'[x].abort = car[x].abort /\ car'[x].eof = car[x].eof
             /\ car'[x].expired = car[x].expired
             /\ car[x].bodyClosed => car'[x].bodyClosed
  BY <1>1, <1>4 DEF Car, TypeOK
<1>5. car[x].bodyClosed => Finish(x, "resp").bodyClosed \/ car[x].ready # "pending"
  BY <1>1
<1> QED
  BY <1>2, <1>3, <1>4, <1>5, Zenon DEF DoReturns

LEMMA UseAt ==
  ASSUME TypeOK, CarShape, UseShape, NEW x \in Calls, Steps(x)
  PROVE  UseOk(x)'
<1> USE DEF TypeOK
<1>0. UseOk(x)
  BY DEF UseShape
<1>1. ASSUME \/ PeerHead(x) \/ PeerData(x) \/ PeerEnd(x)
                \/ HandlerSendHeaders(x) \/ HandlerSends(x) \/ HandlerSendsPayload(x)
                \/ HandlerOver(x) \/ HandlerStarts(x) \/ HandlerFinishes(x)
                \/ HandlerCloses(x) \/ HandlerLeaves(x) \/ SweepCloses(x)
                \/ SweepAborts(x) \/ SweepAnswers(x)
      PROVE  UseOk(x)'
  <2>1. UNCHANGED <<call[x], car[x]>>
    BY <1>1 DEF PeerHead, PeerData, PeerEnd, HandlerSendHeaders, HandlerSends,
        HandlerSendsPayload, HandlerOver, HandlerStarts, HandlerFinishes, HandlerCloses,
        HandlerLeaves, SweepCloses, SweepAborts, SweepAnswers
  <2> QED
    BY <1>0, <2>1 DEF UseOk
<1>2. CASE OpenCall(x)
  <2>1. /\ call[x].at = "none" /\ call'[x].at # "open" /\ UNCHANGED car
        /\ call'[x].recving = call[x].recving /\ call'[x].closing = call[x].closing
        /\ call'[x].hasty = call[x].hasty /\ call'[x].sending = call[x].sending
    BY <1>2 DEF OpenCall, Call
  <2> QED
    BY ONLY <1>0, <2>1 DEF UseOk
<1>3. CASE OpenStream(x)
  <2>1. /\ call[x].at = "stream"
        /\ \A f \in {"recving", "closing", "hasty", "sending", "reread"} :
             call'[x][f] = call[x][f]
        /\ \A f \in {"bodyClosed", "abort", "eof"} : car'[x][f] = car[x][f]
    BY <1>3, OpenEffect
  <2> QED
    BY ONLY <1>0, <2>1 DEF UseOk
<1>4. CASE DoReturns(x)
  <2>1. UNCHANGED call /\ car'[x].abort = car[x].abort /\ car'[x].eof = car[x].eof
    BY <1>4, DoEffect
  <2>2. car[x].doing => car[x].ready # "resp" /\ (car[x].ready = "err" => car[x].abort = "done")
    BY DEF CarShape, CarOk
  <2>3. car'[x].bodyClosed => car[x].bodyClosed \/ car[x].abort = "done"
    BY <1>4, <2>2 DEF DoReturns, Finish, Car
  <2> QED
    BY ONLY <1>0, <2>1, <2>3 DEF UseOk
<1>5. CASE SendStarts(x)
  BY <1>0, <1>5 DEF SendStarts, MaySend, UseOk, Call
<1>6. CASE SendReturns(x)
  BY <1>0, <1>6, SendEffect DEF UseOk
<1>7. CASE HalfClose(x)
  BY <1>0, <1>7 DEF HalfClose, MaySend, UseOk, Call
<1>8. CASE RecvStarts(x)
  BY <1>0, <1>8 DEF RecvStarts, UseOk, Call
<1>9. CASE RecvHeaders(x)
  <2>1. UNCHANGED car /\ call[x].recving = "headers"
    BY <1>9 DEF RecvHeaders
  <2>2. CASE call' = [call EXCEPT ![x] = RecvFails(x)]
    BY <1>0, <2>1, <2>2 DEF RecvFails, Call, UseOk
  <2>3. CASE call' = [call EXCEPT ![x] = [call[x] EXCEPT !.headersSeen = TRUE, !.recving = "body"]]
    BY <1>0, <2>1, <2>3 DEF Call, UseOk
  <2> QED
    BY <1>9, <2>2, <2>3 DEF RecvHeaders
<1>10. CASE RecvFrame(x)
  BY <1>0, <1>10 DEF RecvFrame, Spoiled, UseOk, Call, Sess
<1>11. CASE RecvJunk(x)
  <2>1. UNCHANGED car /\ call[x].recving = "body" /\ ~car[x].bodyClosed
    BY <1>11 DEF RecvJunk, BodyDead
  <2>2. CASE call' = [call EXCEPT ![x] = RecvFails(x)]
    BY <1>0, <2>1, <2>2 DEF RecvFails, Call, UseOk
  <2>3. CASE call' = [call EXCEPT ![x].recving = "finish"]
    BY <1>0, <2>1, <2>3 DEF Call, UseOk
  <2> QED
    BY <1>11, <2>2, <2>3 DEF RecvJunk
<1>12. CASE RecvEnd(x)
  <2>1. PICK dead \in ReadsDead(x) :
          LET atEOF == ~dead /\ wire[x].end # "rst"
              clean == atEOF /\ (More(x) => Next1(x) = "hdr")
          IN /\ call' = [call EXCEPT ![x] =
                    IF clean THEN [call[x] EXCEPT !.recving = "finish"] ELSE RecvFails(x)]
             /\ car' = [car EXCEPT ![x] = [car[x] EXCEPT !.bodyClosed = TRUE,
                                                          !.eof = car[x].eof \/ atEOF]]
    BY <1>12 DEF RecvEnd
  <2> DEFINE atEOF == ~dead /\ wire[x].end # "rst"
  <2>2. car'[x].abort = car[x].abort /\ (atEOF => car'[x].eof)
    BY <2>1 DEF Car
  <2>3. /\ call[x].recving = "body" /\ call'[x].recving \in {"idle", "finish"}
        /\ call'[x].recving = "finish" => atEOF
        /\ call'[x].at = call[x].at /\ call'[x].closing = call[x].closing
        /\ call'[x].hasty = call[x].hasty /\ call'[x].sending = call[x].sending
    <3>1. call[x].recving = "body"
      BY <1>12 DEF RecvEnd
    <3>2. CASE call' = [call EXCEPT ![x] = RecvFails(x)]
      BY <3>1, <3>2 DEF RecvFails, Call
    <3>3. CASE atEOF /\ call' = [call EXCEPT ![x] = [call[x] EXCEPT !.recving = "finish"]]
      BY <3>1, <3>3 DEF Call
    <3> QED
      BY <2>1, <3>2, <3>3
  <2> QED
    BY ONLY <1>0, <2>2, <2>3 DEF UseOk
<1>13. CASE RecvFinish(x)
  <2>1. /\ call[x].recving = "finish" /\ call'[x].recving = "idle"
        /\ call'[x].at = call[x].at /\ call'[x].closing = call[x].closing
        /\ call'[x].hasty = call[x].hasty /\ call'[x].sending = call[x].sending
    BY <1>13 DEF RecvFinish, RecvFails, Call
  <2> QED
    BY ONLY <1>0, <2>1 DEF UseOk
<1>14. CASE CallClose(x)
  BY <1>0, <1>14 DEF CallClose, UseOk, Call
<1>15. CASE CloseMarksBad(x)
  BY <1>0, <1>15 DEF CloseMarksBad, Spoiled, UseOk, Call, Sess
<1>16. CASE CallAborts(x)
  <2>1. /\ call[x].closing = "abort" /\ call'[x].closing # "no" /\ call'[x].closing # "bad"
        /\ call'[x].at = call[x].at /\ call'[x].recving = call[x].recving
        /\ call'[x].hasty = call[x].hasty /\ call'[x].sending = call[x].sending
        /\ call'[x].reread = call[x].reread
    BY <1>16 DEF CallAborts, Call
  <2>2. /\ car'[x].bodyClosed = car[x].bodyClosed /\ car'[x].eof = car[x].eof
        /\ car[x].abort # "no" => car'[x].abort # "no"
    BY <1>16, AbortMarkEffect DEF CallAborts
  <2> QED
    BY ONLY <1>0, <2>1, <2>2 DEF UseOk
<1>17. CASE AbortRest(x)
  <2>1. /\ call'[x].closing = call[x].closing \/ call'[x].closing = "flight"
        /\ call'[x].at = call[x].at /\ call'[x].recving = call[x].recving
        /\ call'[x].hasty = call[x].hasty /\ call'[x].sending = call[x].sending
        /\ call'[x].reread = call[x].reread
    BY <1>17 DEF AbortRest, Call
  <2>2. car'[x].eof = car[x].eof /\ car'[x].abort = "done" /\ car[x].abort = "marked"
    BY <1>17 DEF AbortRest, AbortResult, Finish, Car
  <2>3. call'[x].closing # call[x].closing => call[x].closing = "aborting"
    <3>1. call' # call => car[x].by = "call"
      BY <1>17 DEF AbortRest
    <3> QED
      BY <2>2, <3>1 DEF CarShape, CarOk
  <2> QED
    BY ONLY <1>0, <2>1, <2>2, <2>3 DEF UseOk
<1>18. CASE EndFlight(x)
  BY <1>0, <1>18 DEF EndFlight, UseOk, Call, Sess
<1>19. CASE HandleAborts(x)
  BY <1>0, <1>19, AbortMarkEffect DEF HandleAborts, UseOk
<1>20. CASE CtxEnds(x)
  BY <1>0, <1>20, CtxEffect DEF UseOk
<1> QED
  BY <1>1, <1>2, <1>3, <1>4, <1>5, <1>6, <1>7, <1>8, <1>9, <1>10, <1>11, <1>12, <1>13,
      <1>14, <1>15, <1>16, <1>17, <1>18, <1>19, <1>20 DEF Steps, ClientStarts, ClientSteps,
      PeerSteps, ServerSteps

(* A step that reads nothing off the response leaves the answer alone. *)
LEMMA AnswerKept ==
  ASSUME NEW x \in Calls, AnswerOk(x), wire'[x] = wire[x], call'[x].got = call[x].got,
         call'[x].recving = "finish" => call[x].recving = "finish",
         call'[x].out \in {call[x].out, "error"},
         car[x].bodyClosed => car'[x].bodyClosed,
         car[x].abort # "no" => car'[x].abort # "no",
         car[x].expired => car'[x].expired
  PROVE  AnswerOk(x)'
BY DEF AnswerOk, AtEnd, More, Next1, StatusOnWire

(* No argos server sends bytes that are no frame. *)
LEMMA NoJunk ==
  ASSUME TypeOK, WireShape, NEW x \in Calls, peer[x] = "argos", wire[x].end = "none"
  PROVE  ~AtEnd(x)
<1>1. call[x].got \in Nat /\ Len(wire[x].data) \in Nat
  BY DEF TypeOK, Call, Wire
<1>2. More(x) => call[x].got + 1 \in 1 .. Len(wire[x].data)
  BY <1>1 DEF More
<1> QED
  BY <1>2 DEF AtEnd, Next1, WireShape, WireOk

LEMMA AnswerAt ==
  ASSUME TypeOK, WireShape, CarShape, UseShape, AnswerShape, NEW x \in Calls, Steps(x)
  PROVE  AnswerOk(x)'
<1> USE DEF TypeOK
<1>0. AnswerOk(x)
  BY DEF AnswerShape
<1>1. ASSUME \/ HandlerStarts(x) \/ HandlerFinishes(x) \/ HandlerCloses(x)
                \/ HandlerLeaves(x) \/ SweepCloses(x) \/ SweepAborts(x)
                \/ SweepAnswers(x)
      PROVE  AnswerOk(x)'
  <2>1. UNCHANGED <<call[x], car[x], wire[x]>>
    BY <1>1 DEF HandlerStarts, HandlerFinishes, HandlerCloses, HandlerLeaves, SweepCloses,
        SweepAborts, SweepAnswers
  <2> QED
    BY <1>0, <2>1 DEF AnswerOk, AtEnd, More, Next1, StatusOnWire
<1>2. CASE OpenCall(x)
  <2>1. /\ wire'[x] = wire[x] /\ call'[x].got = call[x].got /\ call'[x].out \in {call[x].out, "error"}
        /\ call'[x].recving = "finish" => call[x].recving = "finish"
    BY <1>2 DEF OpenCall, Call
  <2>2. /\ car[x].bodyClosed => car'[x].bodyClosed
        /\ car[x].abort # "no" => car'[x].abort # "no"
        /\ car[x].expired => car'[x].expired
    BY <1>2 DEF OpenCall
  <2> QED
    BY <1>0, <2>1, <2>2, AnswerKept
<1>3. CASE OpenStream(x)
  <2>1. /\ wire'[x] = wire[x] /\ call'[x].got = call[x].got /\ call'[x].out \in {call[x].out, "error"}
        /\ call'[x].recving = "finish" => call[x].recving = "finish"
    BY <1>3 DEF OpenStream, HandleOpen, Call
  <2>2. /\ car[x].bodyClosed => car'[x].bodyClosed
        /\ car[x].abort # "no" => car'[x].abort # "no"
        /\ car[x].expired => car'[x].expired
    BY <1>3 DEF OpenStream, HandleOpen, Car
  <2> QED
    BY <1>0, <2>1, <2>2, AnswerKept
<1>4. CASE DoReturns(x)
  <2>1. wire'[x] = wire[x]
    BY <1>4 DEF DoReturns
  <2> QED
    BY <1>4, <1>0, <2>1, DoEffect, AnswerKept
<1>5. CASE SendStarts(x)
  BY <1>0, <1>5 DEF SendStarts, MaySend, AnswerOk, AtEnd, More, Next1, StatusOnWire, Call
<1>6. CASE SendReturns(x)
  BY <1>0, <1>6, SendEffect DEF AnswerOk, AtEnd, More, Next1, StatusOnWire
<1>7. CASE HalfClose(x)
  BY <1>0, <1>7 DEF HalfClose, MaySend, AnswerOk, AtEnd, More, Next1, StatusOnWire, Call
<1>8. CASE RecvStarts(x)
  BY <1>0, <1>8 DEF RecvStarts, AnswerOk, AtEnd, More, Next1, StatusOnWire, Call
<1>9. CASE RecvHeaders(x)
  <2>1. UNCHANGED <<car, wire>>
    BY <1>9 DEF RecvHeaders
  <2>2. \/ call' = [call EXCEPT ![x] = RecvFails(x)]
        \/ call' = [call EXCEPT ![x] = [call[x] EXCEPT !.headersSeen = TRUE, !.recving = "body"]]
    BY <1>9 DEF RecvHeaders
  <2>3. /\ call'[x].got = call[x].got /\ call'[x].out \in {call[x].out, "error"}
        /\ call'[x].recving # "finish"
    <3>1. CASE call' = [call EXCEPT ![x] = RecvFails(x)]
      BY <3>1 DEF RecvFails, Call
    <3>2. CASE call' = [call EXCEPT ![x] = [call[x] EXCEPT !.headersSeen = TRUE, !.recving = "body"]]
      BY <3>2 DEF Call
    <3> QED
      BY <2>2, <3>1, <3>2
  <2> QED
    BY <1>0, <2>1, <2>3, AnswerKept
<1>10. CASE RecvFrame(x)
  BY <1>0, <1>10 DEF RecvFrame, Spoiled, AnswerOk, AtEnd, More, Next1, StatusOnWire, Call,
      Sess
<1>11. CASE RecvJunk(x)
  <2>1. /\ ~car[x].bodyClosed /\ UNCHANGED <<car, wire>> /\ AtEnd(x)
    BY <1>11 DEF RecvJunk, BodyDead, AtEnd
  <2>2. call'[x].got = call[x].got /\ call'[x].out \in {call[x].out, "error"}
    BY <1>11 DEF RecvJunk, RecvFails, Call
  <2> QED
    BY <1>0, <2>1, <2>2 DEF AnswerOk, AtEnd, More, Next1
<1>12. CASE RecvEnd(x)
  <2>1. DrainOk(x)
    BY <1>12, DrainShape
  <2>2. /\ call'[x].got = call[x].got /\ call'[x].out \in {call[x].out, "error"}
        /\ call'[x].recving = "finish" =>
             wire[x].end # "none" /\ (More(x) => Next1(x) = "hdr")
    <3>1. CASE call' = [call EXCEPT ![x] = RecvFails(x)]
      BY <3>1 DEF RecvFails, Call
    <3>2. CASE /\ call' = [call EXCEPT ![x] = [call[x] EXCEPT !.recving = "finish"]]
               /\ wire[x].end # "none" /\ (More(x) => Next1(x) = "hdr")
      BY <3>2 DEF Call
    <3> QED
      BY <1>12, <3>1, <3>2 DEF RecvEnd
  <2> QED
    BY <1>0, <2>1, <2>2 DEF AnswerOk, AtEnd, More, Next1, StatusOnWire, DrainOk
<1>13. CASE RecvFinish(x)
  <2>0. DrainOk(x)
    BY <1>13, DrainShape
  <2>10. PICK dead \in ReadsDead(x) :
          /\ dead \/ wire[x].end # "none"
          /\ LET eof == car[x].eof \/ (~dead /\ wire[x].end # "rst")
                 status == ResolveCallStatus(wire[x].head, IF eof THEN wire[x].end ELSE "none")
             IN call' = [call EXCEPT ![x] =
                  IF eof /\ wire[x].meta = "trailers" THEN RecvFails(x)
                  ELSE [call[x] EXCEPT !.recving = "idle", !.term = TRUE,
                                       !.statusReturned = status = "err",
                                       !.out = IF status = "ok" THEN "ok" ELSE "status"]]
    BY <1>13 DEF RecvFinish
  <2> DEFINE eof == car[x].eof \/ (~dead /\ wire[x].end # "rst")
             status == ResolveCallStatus(wire[x].head, IF eof THEN wire[x].end ELSE "none")
  <2>1. /\ UNCHANGED wire /\ car'[x].bodyClosed /\ car'[x].abort = car[x].abort
        /\ car'[x].expired = car[x].expired
        /\ call[x].recving = "finish" /\ (dead \/ wire[x].end # "none")
    BY <1>13, <2>0, <2>10 DEF RecvFinish, DrainOk
  <2>2. call' = [call EXCEPT ![x] =
              IF eof /\ wire[x].meta = "trailers" THEN RecvFails(x)
              ELSE [call[x] EXCEPT !.recving = "idle", !.term = TRUE,
                             !.statusReturned = status = "err",
                             !.out = IF status = "ok" THEN "ok" ELSE "status"]]
    BY <2>10
  <2>3. eof => wire[x].end # "none"
    BY <2>1 DEF CarShape, CarOk
  <2>4. ~eof => car[x].abort # "no" \/ car[x].expired \/ wire[x].end = "rst"
    BY <2>1 DEF UseShape, UseOk, BodyDead, ReadsDead
  <2>5. wire[x].head \in {"ok", "err"} => wire[x].end \in {"none", "bare", "rst"}
    BY DEF WireShape, WireOk
  <2>6. (status = "ok") => StatusOnWire(x) = "ok"
    BY <2>5 DEF ResolveCallStatus, HttpFallbackStatus, FromHTTP, StatusOnWire
  <2>7. eof /\ ~(status = "ok") => StatusOnWire(x) # "ok"
    BY <2>5 DEF ResolveCallStatus, StatusOnWire
  <2> HIDE DEF eof, status
  <2>8. /\ call'[x].got = call[x].got /\ call'[x].recving = "idle"
        /\ \/ call'[x].out = "error"
           \/ status = "ok" /\ call'[x].out = "ok"
           \/ status # "ok" /\ call'[x].out = "status"
    BY <2>2 DEF RecvFails, Call
  <2>9. AtEnd(x)' /\ StatusOnWire(x)' = StatusOnWire(x)
    BY <1>0, <2>1, <2>8 DEF AnswerOk, AtEnd, More, Next1, StatusOnWire
  <2> QED
    BY <2>1, <2>3, <2>4, <2>6, <2>7, <2>8, <2>9 DEF AnswerOk
<1>14. CASE CallClose(x)
  BY <1>0, <1>14 DEF CallClose, AnswerOk, AtEnd, More, Next1, StatusOnWire, Call
<1>15. CASE CloseMarksBad(x)
  BY <1>0, <1>15 DEF CloseMarksBad, Spoiled, AnswerOk, AtEnd, More, Next1, StatusOnWire,
      Call, Sess
<1>16. CASE CallAborts(x)
  <2>1. /\ wire'[x] = wire[x] /\ call'[x].got = call[x].got /\ call'[x].out \in {call[x].out, "error"}
        /\ call'[x].recving = "finish" => call[x].recving = "finish"
    BY <1>16 DEF CallAborts, AbortMark, Call
  <2>2. /\ car[x].bodyClosed => car'[x].bodyClosed
        /\ car[x].abort # "no" => car'[x].abort # "no"
        /\ car[x].expired => car'[x].expired
    BY <1>16, AbortMarkEffect DEF CallAborts
  <2> QED
    BY <1>0, <2>1, <2>2, AnswerKept
<1>17. CASE AbortRest(x)
  BY <1>0, <1>17 DEF AbortRest, AbortResult, Finish, Untrack, AnswerOk, AtEnd, More, Next1,
      StatusOnWire, Call, Car, Sess
<1>18. CASE EndFlight(x)
  BY <1>0, <1>18 DEF EndFlight, AnswerOk, AtEnd, More, Next1, StatusOnWire, Call, Sess
<1>19. CASE HandleAborts(x)
  BY <1>0, <1>19, AbortMarkEffect DEF HandleAborts, AnswerOk, AtEnd, More, Next1, StatusOnWire
<1>20. CASE PeerHead(x)
  BY <1>0, <1>20 DEF PeerHead, Answering, AnswerOk, AtEnd, More, Next1, StatusOnWire, Wire
<1>21. CASE PeerData(x)
  <2>1. PICK d \in BodyItems : wire' = [wire EXCEPT ![x].data = Append(wire[x].data, d)]
    BY <1>21 DEF PeerData
  <2>2. call[x].got \in Nat /\ wire[x].data \in Seq(BodyItems)
    BY DEF Call, Wire
  <2>3. /\ UNCHANGED <<call, car>> /\ wire[x].end = "none" /\ wire'[x].end = wire[x].end
        /\ wire'[x].head = wire[x].head /\ wire'[x].data = Append(wire[x].data, d)
    BY <1>21, <2>1 DEF PeerData, Answering, Wire
  <2>4. AtEnd(x) => AtEnd(x)'
    BY <2>2, <2>3, AppendProperties DEF AtEnd, More, Next1
  <2> QED
    BY <1>0, <2>3, <2>4 DEF AnswerOk, StatusOnWire
<1>22. CASE PeerEnd(x)
  BY <1>0, <1>22 DEF PeerEnd, Answering, AnswerOk, AtEnd, More, Next1, StatusOnWire, Wire
<1>23. CASE HandlerSendHeaders(x)
  <2>1. /\ peer[x] = "argos" /\ wire[x].end = "none" /\ UNCHANGED <<call, car>>
    BY <1>23 DEF HandlerSendHeaders, WireShape, WireOk
  <2>2. wire'[x].end = wire[x].end
    BY <1>23 DEF HandlerSendHeaders, Wire
  <2>3. ~AtEnd(x)
    BY <2>1, NoJunk
  <2> QED
    BY <1>0, <2>1, <2>2, <2>3 DEF AnswerOk
<1>24. CASE HandlerSends(x)
  <2>1. /\ peer[x] = "argos" /\ wire[x].end = "none" /\ UNCHANGED <<call, car>>
    BY <1>24 DEF HandlerSends, WireShape, WireOk
  <2>2. wire'[x].end = wire[x].end
    BY <1>24 DEF HandlerSends, Wire
  <2>3. ~AtEnd(x)
    BY <2>1, NoJunk
  <2> QED
    BY <1>0, <2>1, <2>2, <2>3 DEF AnswerOk
<1>25. CASE HandlerSendsPayload(x)
  <2>1. /\ peer[x] = "argos" /\ wire[x].end = "none" /\ UNCHANGED <<call, car>>
    BY <1>25 DEF HandlerSendsPayload, WireShape, WireOk
  <2>2. wire'[x].end = wire[x].end
    BY <1>25 DEF HandlerSendsPayload, Wire
  <2>3. ~AtEnd(x)
    BY <2>1, NoJunk
  <2> QED
    BY <1>0, <2>1, <2>2, <2>3 DEF AnswerOk
<1>26. CASE HandlerOver(x)
  <2>1. /\ peer[x] = "argos" /\ wire[x].end = "none" /\ UNCHANGED <<call, car>>
    BY <1>26 DEF HandlerOver, WireShape, WireOk
  <2>2. ~AtEnd(x)
    BY <2>1, NoJunk
  <2> QED
    BY <1>0, <2>1, <2>2 DEF AnswerOk
<1>27. CASE CtxEnds(x)
  <2>1. call' = call /\ wire' = wire /\ car'[x].bodyClosed = car[x].bodyClosed
    BY <1>27, CtxEffect
  <2>2. car'[x].abort = car[x].abort /\ car'[x].expired
    BY <1>27, CtxEffect
  <2> QED
    BY <1>0, <2>1, <2>2, AnswerKept
<1> QED
  BY <1>1, <1>2, <1>3, <1>4, <1>5, <1>6, <1>7, <1>8, <1>9, <1>10, <1>11, <1>12, <1>13,
      <1>14, <1>15, <1>16, <1>17, <1>18, <1>19, <1>20, <1>21, <1>22, <1>23, <1>24, <1>25,
      <1>26, <1>27 DEF Steps, ClientStarts, ClientSteps, PeerSteps, ServerSteps

(* What has arrived stays: a reset, metadata over the limit, and every item  *)
(* of the body but the header an argos server is about to complete.          *)
WireStays(x) ==
  /\ wire[x].end = "rst" => wire'[x].end = "rst"
  /\ wire[x].meta # "fine" => wire'[x].meta # "fine"
  /\ DOMAIN wire[x].data \subseteq DOMAIN wire'[x].data
  /\ \A i \in DOMAIN wire[x].data :
       wire'[x].data[i] = wire[x].data[i] \/ wire[x].data[i] = "hdr"

LEMMA WireGrows ==
  ASSUME TypeOK, WireShape, NEW x \in Calls, Steps(x)
  PROVE  WireStays(x)
<1> USE DEF TypeOK
<1>0. WireOk(x) /\ wire[x].data \in Seq(BodyItems) /\ wire[x].meta \in {"fine", "headers", "trailers"}
  BY DEF WireShape, Wire
<1>1. CASE wire'[x] = wire[x]
  BY <1>1 DEF WireStays
<1>2. CASE PeerHead(x)
  <2>1. wire[x].meta = "fine" /\ wire[x].end = "none"
    BY <1>0, <1>2 DEF PeerHead, Answering, WireOk
  <2>2. wire'[x].data = wire[x].data
    BY <1>2 DEF PeerHead, Wire
  <2> QED
    BY <2>1, <2>2 DEF WireStays
<1>3. CASE PeerData(x)
  <2>1. PICK d \in BodyItems : wire' = [wire EXCEPT ![x].data = Append(wire[x].data, d)]
    BY <1>3 DEF PeerData
  <2>2. /\ wire'[x].end = wire[x].end /\ wire'[x].meta = wire[x].meta
        /\ wire'[x].data = Append(wire[x].data, d)
    BY <2>1 DEF Wire
  <2>3. /\ DOMAIN wire[x].data \subseteq DOMAIN wire'[x].data
        /\ \A i \in DOMAIN wire[x].data : wire'[x].data[i] = wire[x].data[i]
    BY <1>0, <2>2, AppendProperties
  <2> QED
    BY <2>2, <2>3 DEF WireStays
<1>4. CASE PeerEnd(x)
  <2>1. wire[x].end = "none"
    BY <1>4 DEF PeerEnd, Answering
  <2>2. wire'[x].data = wire[x].data /\ (wire'[x].meta = wire[x].meta \/ wire'[x].meta = "trailers")
    <3>1. ASSUME NEW e, wire' = [wire EXCEPT ![x].end = e]
          PROVE  wire'[x].meta = wire[x].meta /\ wire'[x].data = wire[x].data
      BY <3>1 DEF Wire
    <3>2. ASSUME NEW e,
                 wire' = [wire EXCEPT ![x] = [wire[x] EXCEPT !.end = e, !.meta = "trailers"]]
          PROVE  wire'[x].meta = "trailers" /\ wire'[x].data = wire[x].data
      BY <3>2 DEF Wire
    <3> HIDE DEF TypeOK
    <3> QED
      BY <1>4, <3>1, <3>2 DEF PeerEnd
  <2> QED
    BY <2>1, <2>2 DEF WireStays
<1>5. CASE HandlerSendHeaders(x)
  <2>1. /\ wire'[x].end = wire[x].end /\ wire'[x].meta = wire[x].meta
        /\ wire'[x].data = wire[x].data
    BY <1>5 DEF HandlerSendHeaders, Wire
  <2> QED
    BY <2>1 DEF WireStays
<1>6. CASE HandlerSends(x)
  <2>1. /\ wire'[x].end = wire[x].end /\ wire'[x].meta = wire[x].meta
        /\ wire'[x].data \in {wire[x].data, Append(wire[x].data, "hdr")}
    BY <1>6 DEF HandlerSends, Wire
  <2>2. "hdr" \in BodyItems
    BY DEF BodyItems
  <2>3. /\ DOMAIN wire[x].data \subseteq DOMAIN wire'[x].data
        /\ \A i \in DOMAIN wire[x].data : wire'[x].data[i] = wire[x].data[i]
    <3>1. CASE wire'[x].data = wire[x].data
      BY <3>1
    <3>2. CASE wire'[x].data = Append(wire[x].data, "hdr")
      <4>1. wire[x].data \in Seq(BodyItems)
        BY <1>0 DEF Wire
      <4>2. /\ Len(wire[x].data) \in Nat /\ DOMAIN wire[x].data = 1 .. Len(wire[x].data)
            /\ DOMAIN wire'[x].data = 1 .. Len(wire[x].data) + 1
            /\ \A i \in 1 .. Len(wire[x].data) : wire'[x].data[i] = wire[x].data[i]
        BY <2>2, <3>2, <4>1, AppendProperties, LenProperties
      <4> QED
        BY <4>2
    <3> QED
      BY <2>1, <3>1, <3>2
  <2> QED
    BY <2>1, <2>3 DEF WireStays
<1>7. CASE HandlerSendsPayload(x)
  <2>1. /\ wire'[x].end = wire[x].end /\ wire'[x].meta = wire[x].meta
        /\ wire'[x].data \in {wire[x].data, [wire[x].data EXCEPT ![Len(wire[x].data)] = "msg"]}
    BY <1>7 DEF HandlerSendsPayload, Wire
  <2>2. peer[x] = "argos" /\ wire[x].end = "none"
    BY <1>0, <1>7 DEF HandlerSendsPayload, WireOk
  <2>3. \A i \in DOMAIN wire[x].data : wire[x].data[i] \in {"msg", "hdr"}
    BY <1>0, <2>2 DEF WireOk
  <2>4. /\ DOMAIN wire[x].data \subseteq DOMAIN wire'[x].data
        /\ \A i \in DOMAIN wire[x].data :
             wire'[x].data[i] = wire[x].data[i] \/ wire[x].data[i] = "hdr"
    BY <1>0, <2>1, <2>3
  <2> QED
    BY <2>1, <2>4 DEF WireStays
<1>8. CASE HandlerOver(x)
  <2>1. wire[x].end = "none"
    BY <1>0, <1>8 DEF HandlerOver, WireOk
  <2>2. wire'[x].meta = wire[x].meta /\ wire'[x].data = wire[x].data
    <3>1. Ended(x).meta = wire[x].meta /\ Ended(x).data = wire[x].data
      BY DEF Ended, Wire
    <3> QED
      BY <1>8, <3>1 DEF HandlerOver
  <2> QED
    BY <2>1, <2>2 DEF WireStays
<1>9. ASSUME ~PeerHead(x), ~PeerData(x), ~PeerEnd(x), ~HandlerSendHeaders(x), ~HandlerSends(x),
             ~HandlerSendsPayload(x), ~HandlerOver(x)
      PROVE  wire'[x] = wire[x]
  BY <1>9 DEF Steps, ClientStarts, ClientSteps, PeerSteps, ServerSteps, OpenCall, OpenStream,
      CtxEnds, DoReturns, SendStarts, SendReturns, HalfClose, RecvStarts, RecvHeaders, RecvFrame,
      RecvJunk, RecvEnd, RecvFinish, CallClose, CloseMarksBad, CallAborts, AbortRest, EndFlight,
      HandleAborts, HandlerStarts, HandlerFinishes, HandlerCloses, HandlerLeaves, SweepCloses,
      SweepAborts, SweepAnswers
<1> QED
  BY <1>1, <1>2, <1>3, <1>4, <1>5, <1>6, <1>7, <1>8, <1>9

(* What a call has done with its response stays on its record, but for what *)
(* Recv and Close write there.                                              *)
CallStays(x) ==
  /\ call[x].hasty => call'[x].hasty
  /\ call[x].reread => call'[x].reread
  /\ call[x].term => call'[x].term
  /\ call[x].closing # "no" => call'[x].closing # "no"
  /\ call'[x].got \in {call[x].got, call[x].got + 1}

LEMMA CallGrows ==
  ASSUME TypeOK, UseShape, NEW x \in Calls, Steps(x)
  PROVE  CallStays(x)
<1> USE DEF TypeOK
<1>0. call[x] \in Call
  OBVIOUS
<1>1. CASE call'[x] = call[x]
  BY <1>1 DEF CallStays
<1>2. CASE OpenCall(x)
  BY <1>2 DEF OpenCall, CallStays, Call
<1>3. CASE OpenStream(x)
  <2>1. /\ call'[x].hasty = call[x].hasty /\ call'[x].reread = call[x].reread
        /\ call'[x].term = call[x].term /\ call'[x].closing = call[x].closing
        /\ call'[x].got = call[x].got
    BY <1>3, OpenEffect
  <2> QED
    BY <2>1 DEF CallStays
<1>4. CASE SendStarts(x) \/ HalfClose(x) \/ RecvStarts(x) \/ EndFlight(x) \/ CloseMarksBad(x)
  <2>1. CASE SendStarts(x) \/ HalfClose(x)
    BY <2>1 DEF SendStarts, HalfClose, CallStays, Call
  <2>2. CASE RecvStarts(x)
    BY <2>2 DEF RecvStarts, CallStays, Call
  <2>3. CASE EndFlight(x)
    BY <2>3 DEF EndFlight, CallStays, Call
  <2>4. CASE CloseMarksBad(x)
    BY <2>4 DEF CloseMarksBad, CallStays, Call
  <2> QED
    BY <1>4, <2>1, <2>2, <2>3, <2>4
<1>5. CASE SendReturns(x)
  BY <1>5, SendEffect DEF CallStays
<1>6. CASE RecvHeaders(x)
  <2>1. CASE call' = [call EXCEPT ![x] = RecvFails(x)]
    BY <2>1 DEF RecvFails, CallStays, Call
  <2>2. CASE call' = [call EXCEPT ![x] = [call[x] EXCEPT !.headersSeen = TRUE, !.recving = "body"]]
    BY <2>2 DEF CallStays, Call
  <2> QED
    BY <1>6, <2>1, <2>2 DEF RecvHeaders
<1>7. CASE RecvFrame(x)
  BY <1>7 DEF RecvFrame, CallStays, Call
<1>8. CASE RecvJunk(x) \/ RecvEnd(x)
  <2>1. CASE call' = [call EXCEPT ![x] = RecvFails(x)]
    BY <2>1 DEF RecvFails, CallStays, Call
  <2>2. CASE call' = [call EXCEPT ![x] = [call[x] EXCEPT !.recving = "finish"]]
    BY <2>2 DEF CallStays, Call
  <2>3. call' = [call EXCEPT ![x].recving = "finish"] =>
          call' = [call EXCEPT ![x] = [call[x] EXCEPT !.recving = "finish"]]
    OBVIOUS
  <2> QED
    BY <1>8, <2>1, <2>2, <2>3 DEF RecvJunk, RecvEnd
<1>9. CASE RecvFinish(x)
  BY <1>9 DEF RecvFinish, RecvFails, CallStays, Call
<1>10. CASE CallClose(x)
  <2>1. call[x].closing = "no" /\ ~call[x].hasty
    BY <1>10 DEF CallClose, UseShape, UseOk
  <2>2. /\ call'[x].reread = call[x].reread /\ call'[x].term = call[x].term
        /\ call'[x].got = call[x].got
    BY <1>10 DEF CallClose, Call
  <2> QED
    BY <2>1, <2>2 DEF CallStays
<1>11. CASE CallAborts(x) \/ AbortRest(x)
  BY <1>11 DEF CallAborts, AbortRest, CallStays, Call
<1>12. ASSUME \/ DoReturns(x) \/ CtxEnds(x) \/ HandleAborts(x) \/ PeerSteps(x) \/ ServerSteps(x)
       PROVE  call'[x] = call[x]
  BY <1>12 DEF DoReturns, CtxEnds, HandleAborts, PeerSteps, PeerHead, PeerData, PeerEnd,
      ServerSteps, HandlerStarts, HandlerSendHeaders, HandlerSends, HandlerSendsPayload,
      HandlerFinishes, HandlerCloses, HandlerLeaves, HandlerOver, SweepCloses, SweepAborts,
      SweepAnswers
<1> QED
  BY <1>1, <1>2, <1>3, <1>4, <1>5, <1>6, <1>7, <1>8, <1>9, <1>10, <1>11, <1>12 DEF Steps,
      ClientStarts, ClientSteps

(* A ctx that has ended and an exchange that is aborted stay so. *)
LEMMA CarGrows ==
  ASSUME TypeOK, NEW x \in Calls, Steps(x)
  PROVE  /\ car[x].expired => car'[x].expired
         /\ car[x].abort # "no" => car'[x].abort # "no"
<1> USE DEF TypeOK
<1>1. CASE car'[x] = car[x]
  BY <1>1
<1>2. CASE OpenStream(x)
  BY <1>2 DEF OpenStream, HandleOpen, Car
<1>3. CASE DoReturns(x)
  BY <1>3, DoEffect
<1>4. CASE RecvEnd(x) \/ RecvFinish(x)
  BY <1>4, DrainShape DEF DrainOk
<1>5. CASE CallAborts(x) \/ HandleAborts(x)
  BY <1>5, AbortMarkEffect DEF CallAborts, HandleAborts
<1>6. CASE AbortRest(x)
  BY <1>6 DEF AbortRest, AbortResult, Finish, Car
<1>7. CASE CtxEnds(x)
  BY <1>7, CtxEffect
<1>8. ASSUME \/ OpenCall(x) \/ SendStarts(x) \/ SendReturns(x) \/ HalfClose(x) \/ RecvStarts(x)
             \/ RecvHeaders(x) \/ RecvFrame(x) \/ RecvJunk(x) \/ CallClose(x)
             \/ CloseMarksBad(x) \/ EndFlight(x) \/ PeerSteps(x) \/ ServerSteps(x)
      PROVE  car'[x] = car[x]
  BY <1>8 DEF OpenCall, SendStarts, SendReturns, HalfClose, RecvStarts, RecvHeaders, RecvFrame,
      RecvJunk, CallClose, CloseMarksBad, EndFlight, PeerSteps, PeerHead, PeerData, PeerEnd,
      ServerSteps, HandlerStarts, HandlerSendHeaders, HandlerSends, HandlerSendsPayload,
      HandlerFinishes, HandlerCloses, HandlerLeaves, HandlerOver, SweepCloses, SweepAborts,
      SweepAnswers
<1> QED
  BY <1>1, <1>2, <1>3, <1>4, <1>5, <1>6, <1>7, <1>8 DEF Steps, ClientStarts, ClientSteps

(* Damage and limits stay on the response. *)
LEMMA DamageStays ==
  ASSUME TypeOK, WireShape, UseShape, NEW x \in Calls, Steps(x)
  PROVE  (Damaged(x) => Damaged(x)') /\ (OverLimit(x) => OverLimit(x)')
<1>1. WireStays(x) /\ CallStays(x)
  BY WireGrows, CallGrows
<1>2. Damaged(x) => Damaged(x)'
  BY <1>1 DEF Damaged, WireStays
<1>3. ASSUME NEW i \in DOMAIN wire[x].data, i <= call[x].got, wire[x].data[i] = "fat"
      PROVE  OverLimit(x)'
  <2>1. i \in DOMAIN wire'[x].data /\ wire'[x].data[i] = "fat"
    BY <1>1, <1>3 DEF WireStays
  <2>2. i \in Nat /\ call[x].got \in Nat
    BY DEF TypeOK, Wire, Call
  <2>3. i <= call'[x].got
    BY <1>1, <1>3, <2>2 DEF CallStays
  <2> QED
    BY <2>1, <2>3 DEF OverLimit
<1>4. OverLimit(x) => OverLimit(x)'
  BY <1>1, <1>3 DEF OverLimit, WireStays
<1> QED
  BY <1>2, <1>4

(* What has once cost the session its reuse, or a call its result, stays on *)
(* record.                                                                  *)
LEMMA CauseAt ==
  ASSUME TypeOK, WireShape, UseShape, NEW x \in Calls, Steps(x)
  PROVE  (Cause(x) => Cause(x)') /\ (Reason(x) => Reason(x)')
<1>1. CallStays(x)
  BY CallGrows
<1> QED
  BY <1>1, CarGrows, DamageStays DEF Cause, Reason, CallStays

(* An exchange that has died under an open session, and a call still in use: *)
(* the call was closed under it, its ctx ended, or the stream was reset.     *)
LEMMA DeadForCause ==
  ASSUME TypeOK, CarShape, UseShape, NEW x \in Calls, sess.at = "open",
         call[x].sending \/ call[x].recving # "idle",
         car[x].abort # "no" \/ car[x].ready = "err"
  PROVE  Cause(x)
<1>1. car[x].abort # "no" \/ wire[x].end = "rst" \/ car[x].expired
  BY DEF CarShape, CarOk
<1>2. CASE car[x].abort # "no"
  <2>1. call[x].closing # "no"
    BY <1>2 DEF CarShape, CarOk
  <2> QED
    BY <2>1 DEF UseShape, UseOk, Cause
<1> QED
  BY <1>1, <1>2 DEF Cause, Damaged

LEMMA ReadItem ==
  ASSUME TypeOK, NEW x \in Calls, More(x)
  PROVE  /\ call[x].got + 1 \in DOMAIN wire[x].data /\ wire[x].data[call[x].got + 1] = Next1(x)
         /\ \E i \in DOMAIN wire[x].data : wire[x].data[i] = Next1(x)
<1>1. call[x].got \in Nat /\ wire[x].data \in Seq(BodyItems)
  BY DEF TypeOK, Call, Wire
<1>2. call[x].got + 1 \in DOMAIN wire[x].data
  BY <1>1 DEF More
<1> QED
  BY <1>2 DEF Next1

(* What marks the session bad is on the record of the call that does it. *)
LEMMA SpoilAt ==
  ASSUME TypeOK, CarShape, UseShape, ErrorShape, sess.at = "open", sess.reusable, ~sess'.reusable, NEW x \in Calls, Steps(x)
  PROVE  Cause(x)
<1> USE DEF TypeOK
<1>0. sess.at = "open" /\ sess.reusable /\ ~sess'.reusable
  OBVIOUS
<1>1. ASSUME \/ SendStarts(x) \/ HalfClose(x) \/ RecvStarts(x)
                \/ CallClose(x) \/ CallAborts(x) \/ CtxEnds(x) \/ PeerHead(x)
                \/ PeerData(x) \/ PeerEnd(x) \/ HandlerStarts(x)
                \/ HandlerSendHeaders(x) \/ HandlerSends(x) \/ HandlerSendsPayload(x)
                \/ HandlerFinishes(x) \/ HandlerCloses(x) \/ HandlerLeaves(x)
                \/ HandlerOver(x) \/ SweepCloses(x) \/ SweepAborts(x)
                \/ SweepAnswers(x)
      PROVE  Cause(x)
  <2>1. UNCHANGED <<sess>>
    BY <1>1 DEF SendStarts, HalfClose, RecvStarts, CallClose, CallAborts, CtxEnds, PeerHead,
        PeerData, PeerEnd, HandlerStarts, HandlerSendHeaders, HandlerSends,
        HandlerSendsPayload, HandlerFinishes, HandlerCloses, HandlerLeaves, HandlerOver,
        SweepCloses, SweepAborts, SweepAnswers
  <2> QED
    BY <1>0, <2>1 DEF Sess
<1>2. CASE OpenCall(x)
  BY <1>0, <1>2 DEF OpenCall, Sess
<1>3. CASE OpenStream(x)
  BY <1>0, <1>3 DEF OpenStream, HandleOpen, Sess
<1>4. CASE DoReturns(x)
  BY <1>0, <1>4 DEF DoReturns, Finish, Untrack, Sess
<1>5. CASE SendReturns(x)
  <2>3. call[x].sending /\ ~ReceiveOpen(x)
    BY <1>5, <1>0 DEF SendReturns, SendFailure, Sess
  <2> QED
    BY <1>0, <2>3, DeadForCause DEF ReceiveOpen
<1>6. CASE RecvHeaders(x)
  <2>3. call[x].recving = "headers" /\ car[x].ready = "err"
    BY <1>6, <1>0 DEF RecvHeaders
  <2> QED
    BY <1>0, <2>3, DeadForCause
<1>7. CASE RecvFrame(x)
  <2>3. More(x) /\ Next1(x) = "enc"
    BY <1>7, <1>0 DEF RecvFrame
  <2> QED
    BY <2>3, ReadItem DEF Cause, Damaged
<1>8. CASE RecvJunk(x)
  <2>3. More(x) /\ Next1(x) = "junk"
    BY <1>8, <1>0 DEF RecvJunk
  <2> QED
    BY <2>3, ReadItem DEF Cause, Damaged
<1>9. CASE RecvEnd(x)
  <2>1. PICK dead \in ReadsDead(x) :
          /\ dead \/ (More(x) => Next1(x) \in {"cut", "hdr"})
          /\ sess' = [Untrack(x) EXCEPT !.reusable = Untrack(x).reusable /\
                        ~dead /\ wire[x].end # "rst" /\ (More(x) => Next1(x) = "hdr")]
    BY <1>9 DEF RecvEnd
  <2> DEFINE clean == ~dead /\ wire[x].end # "rst" /\ (More(x) => Next1(x) = "hdr")
  <2>2. ~clean
    <3>1. sess' = [Untrack(x) EXCEPT !.reusable = Untrack(x).reusable /\ clean]
      BY <2>1
    <3> HIDE DEF clean
    <3> QED
      BY <1>0, <3>1 DEF Untrack, Sess
  <2>3. call[x].recving = "body"
    BY <1>9 DEF RecvEnd
  <2>4. CASE dead
    <3>1. BodyDead(x) \/ car[x].expired
      BY <2>4 DEF ReadsDead
    <3>2. CASE BodyDead(x)
      <4>1. call[x].reread \/ car[x].abort # "no"
        BY <2>3, <3>2 DEF BodyDead, UseShape, UseOk
      <4> QED
        BY <1>0, <2>3, <4>1, DeadForCause DEF Cause
    <3> QED
      BY <3>1, <3>2 DEF Cause
  <2>5. CASE wire[x].end = "rst"
    BY <2>5 DEF Cause, Damaged
  <2>6. CASE More(x) /\ Next1(x) = "cut"
    BY <2>6, ReadItem DEF Cause, Damaged
  <2> QED
    BY <2>1, <2>2, <2>4, <2>5, <2>6
<1>10. CASE RecvFinish(x)
  BY <1>0, <1>10 DEF RecvFinish, RecvFails, Untrack, Sess
<1>11. CASE CloseMarksBad(x)
  <2>1. call[x].closing = "bad" /\ (call[x].hasty \/ Reason(x))
    BY <1>11 DEF CloseMarksBad, ErrorShape, ErrorOk
  <2>2. car[x].abort = "no"
    BY <1>0, <2>1 DEF CarShape, CarOk
  <2> QED
    BY <2>1, <2>2 DEF Cause, Reason
<1>12. CASE AbortRest(x)
  BY <1>0, <1>12 DEF AbortRest, AbortResult, Finish, Untrack, Sess
<1>13. CASE EndFlight(x)
  BY <1>0, <1>13 DEF EndFlight, Sess
<1>14. CASE HandleAborts(x)
  BY <1>0, <1>14 DEF HandleAborts, AbortMark, Sess
<1> QED
  BY <1>1, <1>2, <1>3, <1>4, <1>5, <1>6, <1>7, <1>8, <1>9, <1>10, <1>11, <1>12, <1>13, <1>14
      DEF Steps, ClientStarts, ClientSteps, PeerSteps, ServerSteps

(* Steps that report no error and begin no Close. *)
LEMMA ErrorKept ==
  ASSUME TypeOK, WireShape, UseShape, ErrorShape, NEW x \in Calls, Steps(x),
         call'[x].out = "error" => call[x].out = "error" \/ call'[x].term \/ Reason(x)',
         call'[x].closing = "bad" => call[x].closing = "bad"
  PROVE  ErrorOk(x)'
<1>1. ErrorOk(x)
  BY DEF ErrorShape
<1>2. /\ Reason(x) => Reason(x)'
      /\ call[x].term => call'[x].term
      /\ call[x].hasty => call'[x].hasty
  BY CauseAt, CallGrows DEF CallStays
<1> QED
  BY <1>1, <1>2 DEF ErrorOk

(* An error that Recv reports has its reason on record, or a terminal event, *)
(* and so has the Close behind it.                                           *)
LEMMA ErrorAt ==
  ASSUME TypeOK, WireShape, CarShape, UseShape, ErrorShape, NEW x \in Calls, Steps(x)
  PROVE  ErrorOk(x)'
<1> USE DEF TypeOK
<1>0. ErrorOk(x) /\ (Reason(x) => Reason(x)')
  BY CauseAt DEF ErrorShape
<1>1. ASSUME \/ DoReturns(x) \/ CtxEnds(x) \/ HandleAborts(x) \/ PeerSteps(x) \/ ServerSteps(x)
             \/ OpenCall(x) \/ OpenStream(x) \/ SendStarts(x) \/ HalfClose(x)
             \/ RecvStarts(x) \/ CloseMarksBad(x) \/ CallAborts(x) \/ EndFlight(x) \/ AbortRest(x)
      PROVE  ErrorOk(x)'
  <2>1. /\ call'[x].out = call[x].out
        /\ call'[x].closing = "bad" => call[x].closing = "bad"
    <3>1. CASE \/ DoReturns(x) \/ CtxEnds(x) \/ HandleAborts(x) \/ PeerSteps(x) \/ ServerSteps(x)
      BY <3>1 DEF DoReturns, CtxEnds, HandleAborts, PeerSteps, PeerHead, PeerData, PeerEnd,
          ServerSteps, HandlerStarts, HandlerSendHeaders, HandlerSends, HandlerSendsPayload,
          HandlerFinishes, HandlerCloses, HandlerLeaves, HandlerOver, SweepCloses, SweepAborts,
          SweepAnswers
    <3>2. CASE OpenStream(x)
      BY <3>2, OpenEffect
    <3>3. CASE OpenCall(x)
      BY <3>3 DEF OpenCall, Call
    <3>4. CASE SendStarts(x) \/ HalfClose(x)
      BY <3>4 DEF SendStarts, HalfClose, Call
    <3>5. CASE RecvStarts(x)
      BY <3>5 DEF RecvStarts, Call
    <3>6. CASE CloseMarksBad(x) \/ EndFlight(x)
      BY <3>6 DEF CloseMarksBad, EndFlight, Call
    <3>7. CASE CallAborts(x)
      BY <3>7 DEF CallAborts, Call
    <3>8. CASE AbortRest(x)
      BY <3>8 DEF AbortRest, Call
    <3> QED
      BY <1>1, <3>1, <3>2, <3>3, <3>4, <3>5, <3>6, <3>7, <3>8
  <2> QED
    BY <2>1, ErrorKept
<1>2. CASE SendReturns(x)
  BY <1>2, SendEffect, ErrorKept
<1>3. CASE RecvHeaders(x)
  <2>1. call'[x].closing = call[x].closing
    <3>1. CASE call' = [call EXCEPT ![x] = RecvFails(x)]
      BY <3>1 DEF RecvFails, Call
    <3>2. CASE call' = [call EXCEPT ![x] = [call[x] EXCEPT !.headersSeen = TRUE, !.recving = "body"]]
      BY <3>2 DEF Call
    <3> QED
      BY <1>3, <3>1, <3>2 DEF RecvHeaders
  <2>2. CASE car[x].ready = "err"
    <3>1. Reason(x)
      BY <2>2 DEF CarShape, CarOk, Reason, Damaged
    <3> QED
      BY <1>0, <2>1, <3>1, ErrorKept
  <2>3. CASE wire[x].meta = "headers"
    <3>1. Reason(x)
      BY <2>3 DEF Reason, OverLimit
    <3> QED
      BY <1>0, <2>1, <3>1, ErrorKept
  <2>4. CASE call' = [call EXCEPT ![x] = [call[x] EXCEPT !.headersSeen = TRUE, !.recving = "body"]]
    <3>1. call'[x].out = call[x].out
      BY <2>4 DEF Call
    <3> QED
      BY <2>1, <3>1, ErrorKept
  <2> QED
    BY <1>3, <2>2, <2>3, <2>4 DEF RecvHeaders
<1>4. CASE RecvFrame(x)
  <2>1. /\ More(x) /\ Next1(x) \in {"msg", "big", "fat", "enc"}
        /\ call'[x].closing = call[x].closing /\ call'[x].got = call[x].got + 1
        /\ call'[x].out = IF Next1(x) = "msg" THEN call[x].out ELSE "error"
        /\ call'[x].term = (call[x].term \/ Next1(x) = "big")
        /\ UNCHANGED wire
    BY <1>4 DEF RecvFrame, Call
  <2>2. CASE Next1(x) \in {"msg", "big"}
    BY <2>1, <2>2, ErrorKept
  <2>3. CASE Next1(x) = "enc"
    <3>1. Reason(x)
      BY <2>1, <2>3, ReadItem DEF Reason, Damaged
    <3> QED
      BY <1>0, <2>1, <3>1, ErrorKept
  <2>4. CASE Next1(x) = "fat"
    <3>1. OverLimit(x)'
      <4>1. call'[x].got \in DOMAIN wire'[x].data /\ wire'[x].data[call'[x].got] = "fat"
        BY <2>1, <2>4, ReadItem
      <4>2. call'[x].got <= call'[x].got
        BY <2>1 DEF Call
      <4> QED
        BY <4>1, <4>2 DEF OverLimit
    <3> QED
      BY <2>1, <3>1, ErrorKept DEF Reason
  <2> QED
    BY <2>1, <2>2, <2>3, <2>4
<1>5. CASE RecvJunk(x)
  <2>1. Reason(x)
    BY <1>5, ReadItem DEF RecvJunk, Reason, Damaged
  <2>2. call'[x].closing = call[x].closing
    BY <1>5 DEF RecvJunk, RecvFails, Call
  <2> QED
    BY <1>0, <2>1, <2>2, ErrorKept
<1>6. CASE RecvEnd(x)
  <2>1. PICK dead \in ReadsDead(x) :
          /\ dead \/ (More(x) => Next1(x) \in {"cut", "hdr"})
          /\ call' = [call EXCEPT ![x] =
               IF ~dead /\ wire[x].end # "rst" /\ (More(x) => Next1(x) = "hdr")
               THEN [call[x] EXCEPT !.recving = "finish"] ELSE RecvFails(x)]
    BY <1>6 DEF RecvEnd
  <2>2. call[x].recving = "body"
    BY <1>6 DEF RecvEnd
  <2>3. call'[x].closing = call[x].closing
    BY <2>1 DEF RecvFails, Call
  <2>4. CASE ~dead /\ wire[x].end # "rst" /\ (More(x) => Next1(x) = "hdr")
    <3>1. call'[x].out = call[x].out
      BY <2>1, <2>4 DEF Call
    <3> QED
      BY <2>3, <3>1, ErrorKept
  <2>5. CASE dead
    <3>1. BodyDead(x) \/ car[x].expired
      BY <2>5 DEF ReadsDead
    <3>2. Reason(x)
      BY <2>2, <3>1 DEF BodyDead, UseShape, UseOk, Reason
    <3> QED
      BY <1>0, <2>3, <3>2, ErrorKept
  <2>6. CASE wire[x].end = "rst" \/ (More(x) /\ Next1(x) = "cut")
    <3>1. Reason(x)
      BY <2>6, ReadItem DEF Reason, Damaged
    <3> QED
      BY <1>0, <2>3, <3>1, ErrorKept
  <2> QED
    BY <2>1, <2>4, <2>5, <2>6
<1>7. CASE RecvFinish(x)
  <2>1. call'[x].closing = call[x].closing
    BY <1>7 DEF RecvFinish, RecvFails, Call
  <2>2. CASE wire[x].meta = "trailers"
    <3>1. Reason(x)
      BY <2>2 DEF Reason, OverLimit
    <3> QED
      BY <1>0, <2>1, <3>1, ErrorKept
  <2>3. CASE wire[x].meta # "trailers"
    <3>1. call'[x].term
      BY <1>7, <2>3 DEF RecvFinish, Call
    <3> QED
      BY <2>1, <3>1, ErrorKept
  <2> QED
    BY <2>2, <2>3
<1>8. CASE CallClose(x)
  <2>1. /\ call'[x].out = call[x].out /\ call'[x].term = call[x].term
        /\ call'[x].closing = "bad" => ~call[x].term
        /\ ~call[x].term /\ call[x].out # "error" => call'[x].hasty
    BY <1>8 DEF CallClose, Call
  <2> QED
    BY <1>0, <2>1 DEF ErrorOk
<1> QED
  BY <1>1, <1>2, <1>3, <1>4, <1>5, <1>6, <1>7, <1>8 DEF Steps, ClientStarts, ClientSteps

LEMMA SpoilStep ==
  TypeOK /\ WireShape /\ CarShape /\ UseShape /\ ErrorShape /\ SessionKept /\ [Next]_vars
    => SessionKept'
<1> SUFFICES ASSUME TypeOK, WireShape, CarShape, UseShape, ErrorShape, SessionKept, [Next]_vars
             PROVE  SessionKept'
  OBVIOUS
<1>1. ASSUME NEW x \in Calls, Steps(x) PROVE SessionKept'
  <2>1. sess'.at = sess.at /\ \A y \in Calls : Cause(y) => Cause(y)'
    <3>1. ASSUME NEW y \in Calls \ {x}, Cause(y) PROVE Cause(y)'
      BY <1>1, <3>1, Elsewhere DEF Cause, Damaged, OverLimit
    <3> QED
      BY <1>1, <3>1, CauseAt, Elsewhere
  <2>2. sess.at = "open" /\ sess.reusable /\ ~sess'.reusable => Cause(x)
    BY <1>1, SpoilAt
  <2>3. ASSUME sess'.at = "open", ~sess'.reusable PROVE \E y \in Calls : Cause(y)'
    <3>1. CASE sess.reusable
      BY <2>1, <2>2, <2>3, <3>1
    <3>2. CASE ~sess.reusable
      <4>1. \E y \in Calls : Cause(y)
        BY <2>1, <2>3, <3>2 DEF SessionKept, Cause
      <4> QED
        BY <2>1, <4>1
    <3> QED
      BY <3>1, <3>2
  <2> QED
    BY <2>3, Zenon DEF SessionKept, Cause
<1>2. CASE SessionClose \/ HandleClose
  BY <1>2 DEF SessionClose, HandleClose, SessionKept, TypeOK, Sess
<1>3. CASE UNCHANGED vars
  BY <1>3 DEF vars, SessionKept, Damaged, OverLimit
<1> QED
  BY <1>1, <1>2, <1>3 DEF Next, Steps

(* A step that neither opens a call nor ends its Close leaves the count. *)
LEMMA CountKept ==
  ASSUME TypeOK, CountExact, NEW x \in Calls, Steps(x), sess'.inFlight = sess.inFlight,
         call'[x].at = call[x].at, call'[x].closing = "done" <=> call[x].closing = "done"
  PROVE  CountExact'
<1>1. \A y \in Calls \ {x} : call'[y] = call[y]
  BY Elsewhere
<1>2. InFlight' = InFlight
  BY <1>1 DEF InFlight
<1> QED
  BY <1>2 DEF CountExact

(* endFlight takes out a call that was counted. *)
LEMMA CountLands ==
  ASSUME TypeOK, CountExact, NEW x \in InFlight, InFlight' = InFlight \ {x},
         sess'.inFlight = sess.inFlight - 1
  PROVE  CountExact'
<1>1. Cardinality(InFlight') = Cardinality(InFlight) - 1
  BY SomeInFlight, FS_RemoveElement
<1> QED
  BY <1>1 DEF CountExact

LEMMA CountAt ==
  ASSUME TypeOK, CarShape, UseShape, CountExact, NEW x \in Calls, Steps(x)
  PROVE  CountExact'
<1> USE DEF TypeOK
<1>1. ASSUME \/ PeerHead(x) \/ PeerData(x) \/ PeerEnd(x)
                \/ HandlerStarts(x) \/ HandlerSendHeaders(x) \/ HandlerSends(x)
                \/ HandlerSendsPayload(x) \/ HandlerFinishes(x) \/ HandlerCloses(x)
                \/ HandlerLeaves(x) \/ HandlerOver(x) \/ SweepCloses(x)
                \/ SweepAborts(x) \/ SweepAnswers(x)
      PROVE  CountExact'
  <2>1. UNCHANGED <<call, sess>>
    BY <1>1 DEF PeerHead, PeerData, PeerEnd, HandlerStarts, HandlerSendHeaders,
        HandlerSends, HandlerSendsPayload, HandlerFinishes, HandlerCloses, HandlerLeaves,
        HandlerOver, SweepCloses, SweepAborts, SweepAnswers
  <2> QED
    BY <2>1 DEF CountExact, InFlight
<1>2. CASE OpenCall(x)
  <2>1. CASE sess.at = "open" /\ sess.reusable
    <3>1. call' = [call EXCEPT ![x].at = "stream"] /\ sess'.inFlight = sess.inFlight + 1
      BY <1>2, <2>1 DEF OpenCall, Sess
    <3>2. call[x].at = "none" /\ call'[x].at = "stream"
      BY <1>2, <3>1 DEF OpenCall, Call
    <3>3. \A y \in Calls \ {x} : call'[y] = call[y]
      BY <3>1
    <3>4. x \notin InFlight /\ InFlight' = InFlight \cup {x}
      BY <3>2, <3>3 DEF InFlight
    <3>5. Cardinality(InFlight') = Cardinality(InFlight) + 1
      BY <3>4, SomeInFlight, FS_AddElement
    <3> QED
      BY <3>1, <3>5 DEF CountExact
  <2>2. CASE ~(sess.at = "open" /\ sess.reusable)
    <3>1. call' = [call EXCEPT ![x].at = "refused"] /\ UNCHANGED sess
      BY <1>2, <2>2 DEF OpenCall
    <3>2. call[x].at = "none" /\ call'[x].at = "refused"
      BY <1>2, <3>1 DEF OpenCall, Call
    <3>3. InFlight' = InFlight
      BY <3>1, <3>2 DEF InFlight
    <3> QED
      BY <3>1, <3>3 DEF CountExact
  <2> QED
    BY <2>1, <2>2
<1>3. CASE OpenStream(x)
  <2>1. call[x].at = "stream" /\ call[x].closing = "no" /\ \A y \in Calls \ {x} : call'[y] = call[y]
    BY <1>3 DEF OpenStream, UseShape, UseOk
  <2>2. CASE HandleOpen
    <3>1. /\ call' = [call EXCEPT ![x].at = "open"]
          /\ sess' = [sess EXCEPT !.carriers = sess.carriers \cup {x}]
      BY <1>3, <2>2 DEF OpenStream
    <3>2. call'[x].at = "open" /\ call'[x].closing = "no" /\ sess'.inFlight = sess.inFlight
      BY <2>1, <3>1 DEF Call, Sess
    <3>3. InFlight' = InFlight
      BY <2>1, <3>2 DEF InFlight
    <3> QED
      BY <3>2, <3>3 DEF CountExact
  <2>3. CASE ~HandleOpen
    <3>1. /\ call' = [call EXCEPT ![x].at = "refused"]
          /\ sess' = [sess EXCEPT !.inFlight = sess.inFlight - 1, !.reusable = FALSE]
      BY <1>3, <2>3 DEF OpenStream
    <3>2. call'[x].at = "refused" /\ sess'.inFlight = sess.inFlight - 1
      BY <3>1 DEF Call, Sess
    <3>3. x \in InFlight /\ InFlight' = InFlight \ {x}
      BY <2>1, <3>2 DEF InFlight
    <3> QED
      BY <3>2, <3>3, CountLands
  <2> QED
    BY <2>2, <2>3
<1>4. CASE DoReturns(x)
  <2>1. sess'.inFlight = sess.inFlight /\ UNCHANGED call
    BY <1>4 DEF DoReturns, Finish, Untrack, Sess
  <2> QED
    BY <2>1 DEF CountExact, InFlight
<1>5. CASE SendStarts(x)
  <2>1. sess'.inFlight = sess.inFlight
    BY <1>5 DEF SendStarts, MaySend, Sess
  <2>2. /\ call'[x].at = call[x].at
        /\ call'[x].closing = "done" <=> call[x].closing = "done"
    BY <1>5 DEF SendStarts, MaySend, Call
  <2> QED
    BY <2>1, <2>2, CountKept
<1>6. CASE SendReturns(x)
  <2>1. sess'.inFlight = sess.inFlight
    BY <1>6 DEF SendReturns, ReceiveOpen, SendFailure, Sess
  <2>2. /\ call'[x].at = call[x].at
        /\ call'[x].closing = "done" <=> call[x].closing = "done"
    BY <1>6, SendEffect
  <2> QED
    BY <2>1, <2>2, CountKept
<1>7. CASE HalfClose(x)
  <2>1. sess'.inFlight = sess.inFlight
    BY <1>7 DEF HalfClose, MaySend, Sess
  <2>2. /\ call'[x].at = call[x].at
        /\ call'[x].closing = "done" <=> call[x].closing = "done"
    BY <1>7 DEF HalfClose, MaySend, Call
  <2> QED
    BY <2>1, <2>2, CountKept
<1>8. CASE RecvStarts(x)
  <2>1. sess'.inFlight = sess.inFlight
    BY <1>8 DEF RecvStarts, Sess
  <2>2. /\ call'[x].at = call[x].at
        /\ call'[x].closing = "done" <=> call[x].closing = "done"
    BY <1>8 DEF RecvStarts, Call
  <2> QED
    BY <2>1, <2>2, CountKept
<1>9. CASE RecvHeaders(x)
  <2>1. sess'.inFlight = sess.inFlight
    BY <1>9 DEF RecvHeaders, RecvFails, Spoiled, Sess
  <2>2. /\ call'[x].at = call[x].at
        /\ call'[x].closing = "done" <=> call[x].closing = "done"
    <3>1. CASE call' = [call EXCEPT ![x] = RecvFails(x)]
      BY <3>1 DEF RecvFails, Call
    <3>2. CASE call' = [call EXCEPT ![x] = [call[x] EXCEPT !.headersSeen = TRUE, !.recving = "body"]]
      BY <3>2 DEF Call
    <3> QED
      BY <1>9, <3>1, <3>2 DEF RecvHeaders
  <2> QED
    BY <2>1, <2>2, CountKept
<1>10. CASE RecvFrame(x)
  <2>1. sess'.inFlight = sess.inFlight
    BY <1>10 DEF RecvFrame, Spoiled, Sess
  <2>2. /\ call'[x].at = call[x].at
        /\ call'[x].closing = "done" <=> call[x].closing = "done"
    BY <1>10 DEF RecvFrame, Spoiled, Call
  <2> QED
    BY <2>1, <2>2, CountKept
<1>11. CASE RecvJunk(x)
  <2>1. sess'.inFlight = sess.inFlight
    BY <1>11 DEF RecvJunk, RecvFails, Spoiled, Sess
  <2>2. /\ call'[x].at = call[x].at
        /\ call'[x].closing = "done" <=> call[x].closing = "done"
    <3>1. CASE call' = [call EXCEPT ![x] = RecvFails(x)]
      BY <3>1 DEF RecvFails, Call
    <3>2. CASE call' = [call EXCEPT ![x].recving = "finish"]
      BY <3>2 DEF Call
    <3> QED
      BY <1>11, <3>1, <3>2 DEF RecvJunk
  <2> QED
    BY <2>1, <2>2, CountKept
<1>12. CASE RecvEnd(x)
  <2>1. sess'.inFlight = sess.inFlight
    BY <1>12 DEF RecvEnd, RecvFails, Untrack, Sess
  <2>2. /\ call'[x].at = call[x].at
        /\ call'[x].closing = "done" <=> call[x].closing = "done"
    BY <1>12 DEF RecvEnd, RecvFails, Untrack, Call
  <2> QED
    BY <2>1, <2>2, CountKept
<1>13. CASE RecvFinish(x)
  <2>1. sess'.inFlight = sess.inFlight
    BY <1>13 DEF RecvFinish, RecvFails, Untrack, Sess
  <2>2. /\ call'[x].at = call[x].at
        /\ call'[x].closing = "done" <=> call[x].closing = "done"
    BY <1>13 DEF RecvFinish, RecvFails, Untrack, Call
  <2> QED
    BY <2>1, <2>2, CountKept
<1>14. CASE CallClose(x)
  <2>1. sess'.inFlight = sess.inFlight
    BY <1>14 DEF CallClose, Sess
  <2>2. /\ call'[x].at = call[x].at
        /\ call'[x].closing = "done" <=> call[x].closing = "done"
    BY <1>14 DEF CallClose, Call
  <2> QED
    BY <2>1, <2>2, CountKept
<1>15. CASE CloseMarksBad(x)
  <2>1. sess'.inFlight = sess.inFlight
    BY <1>15 DEF CloseMarksBad, Spoiled, Sess
  <2>2. /\ call'[x].at = call[x].at
        /\ call'[x].closing = "done" <=> call[x].closing = "done"
    BY <1>15 DEF CloseMarksBad, Spoiled, Call
  <2> QED
    BY <2>1, <2>2, CountKept
<1>16. CASE CallAborts(x)
  <2>1. sess'.inFlight = sess.inFlight
    BY <1>16 DEF CallAborts, AbortMark, Sess
  <2>2. /\ call'[x].at = call[x].at
        /\ call'[x].closing = "done" <=> call[x].closing = "done"
    BY <1>16 DEF CallAborts, AbortMark, Call
  <2> QED
    BY <2>1, <2>2, CountKept
<1>17. CASE AbortRest(x)
  <2>1. sess'.inFlight = sess.inFlight
    BY <1>17 DEF AbortRest, Untrack, Sess
  <2>2. /\ call'[x].at = call[x].at
        /\ call'[x].closing = IF car[x].by = "call" THEN "flight" ELSE call[x].closing
    BY <1>17 DEF AbortRest, Call
  <2>3. car[x].by = "call" => call[x].closing = "aborting"
    BY <1>17 DEF AbortRest, CarShape, CarOk
  <2> QED
    BY <2>1, <2>2, <2>3, CountKept
<1>18. CASE EndFlight(x)
  <2>1. call[x].at = "open" /\ call[x].closing = "flight" /\ \A y \in Calls \ {x} : call'[y] = call[y]
    BY <1>18 DEF EndFlight, UseShape, UseOk
  <2>2. call'[x].at = "open" /\ call'[x].closing = "done" /\ sess'.inFlight = sess.inFlight - 1
    BY <1>18, <2>1 DEF EndFlight, Call, Sess
  <2>3. x \in InFlight /\ InFlight' = InFlight \ {x}
    BY <2>1, <2>2 DEF InFlight
  <2> QED
    BY <2>2, <2>3, CountLands
<1>19. CASE HandleAborts(x)
  <2>1. sess'.inFlight = sess.inFlight /\ UNCHANGED call
    BY <1>19 DEF HandleAborts, AbortMark, Sess
  <2> QED
    BY <2>1 DEF CountExact, InFlight
<1>20. CASE CtxEnds(x)
  <2>1. sess'.inFlight = sess.inFlight /\ UNCHANGED call
    BY <1>20 DEF CtxEnds
  <2> QED
    BY <2>1 DEF CountExact, InFlight
<1> QED
  BY <1>1, <1>2, <1>3, <1>4, <1>5, <1>6, <1>7, <1>8, <1>9, <1>10, <1>11, <1>12, <1>13,
      <1>14, <1>15, <1>16, <1>17, <1>18, <1>19, <1>20 DEF Steps, ClientStarts, ClientSteps,
      PeerSteps, ServerSteps

LEMMA WireStep == TypeOK /\ WireShape /\ CarShape /\ UseShape /\ [Next]_vars => WireShape'
<1> SUFFICES ASSUME TypeOK, WireShape, CarShape, UseShape, [Next]_vars PROVE WireShape'
  OBVIOUS
<1>1. ASSUME NEW x \in Calls, Steps(x) PROVE WireShape'
  <2>1. WireOk(x)' /\ RespOk(x)'
    BY <1>1, WireAt
  <2>2. ASSUME NEW y \in Calls \ {x} PROVE WireOk(y)' /\ RespOk(y)'
    <3>1. WireOk(y) /\ RespOk(y)
      BY DEF WireShape
    <3> QED
      BY <1>1, <3>1, Elsewhere DEF WireOk, RespOk
  <2> QED
    BY <2>1, <2>2 DEF WireShape
<1>2. CASE SessionClose \/ HandleClose
  BY <1>2 DEF SessionClose, HandleClose, WireShape, WireOk, RespOk
<1>3. CASE UNCHANGED vars
  BY <1>3 DEF vars, WireShape, WireOk, RespOk
<1> QED
  BY <1>1, <1>2, <1>3 DEF Next, Steps

LEMMA CarStep == TypeOK /\ WireShape /\ CarShape /\ UseShape /\ [Next]_vars => CarShape'
<1> SUFFICES ASSUME TypeOK, WireShape, CarShape, UseShape, [Next]_vars PROVE CarShape'
  OBVIOUS
<1>1. ASSUME NEW x \in Calls, Steps(x) PROVE CarShape'
  <2>1. CarOk(x)'
    BY <1>1, CarAt
  <2>2. ASSUME NEW y \in Calls \ {x} PROVE CarOk(y)'
    <3>1. CarOk(y)
      BY DEF CarShape
    <3> QED
      BY <1>1, <3>1, Elsewhere DEF CarOk
  <2> QED
    BY <2>1, <2>2 DEF CarShape
<1>2. CASE SessionClose \/ HandleClose
  <2>1. UNCHANGED <<call, car, wire>> /\ sess.at # "sweep"
    BY <1>2 DEF SessionClose, HandleClose
  <2>2. \/ sess'.at = "closed" /\ sess'.carriers = sess.carriers /\ sess'.todo = sess.todo
        \/ sess'.at = "sweep" /\ sess'.carriers = {} /\ sess'.todo = sess.carriers
    BY <1>2 DEF SessionClose, HandleClose, TypeOK, Sess
  <2> QED
    BY ONLY <2>1, <2>2, CarShape DEF CarShape, CarOk
<1>3. CASE UNCHANGED vars
  BY <1>3 DEF vars, CarShape, CarOk
<1> QED
  BY <1>1, <1>2, <1>3 DEF Next, Steps

LEMMA UseStep == TypeOK /\ CarShape /\ UseShape /\ [Next]_vars => UseShape'
<1> SUFFICES ASSUME TypeOK, CarShape, UseShape, [Next]_vars PROVE UseShape'
  OBVIOUS
<1>1. ASSUME NEW x \in Calls, Steps(x) PROVE UseShape'
  <2>1. UseOk(x)'
    BY <1>1, UseAt
  <2>2. ASSUME NEW y \in Calls \ {x} PROVE UseOk(y)'
    <3>1. UseOk(y)
      BY DEF UseShape
    <3> QED
      BY <1>1, <3>1, Elsewhere DEF UseOk
  <2> QED
    BY <2>1, <2>2 DEF UseShape
<1>2. CASE SessionClose \/ HandleClose
  BY <1>2 DEF SessionClose, HandleClose, UseShape, UseOk
<1>3. CASE UNCHANGED vars
  BY <1>3 DEF vars, UseShape, UseOk
<1> QED
  BY <1>1, <1>2, <1>3 DEF Next, Steps

LEMMA AnswerStep == TypeOK /\ WireShape /\ CarShape /\ UseShape /\ AnswerShape /\ [Next]_vars => AnswerShape'
<1> SUFFICES ASSUME TypeOK, WireShape, CarShape, UseShape, AnswerShape, [Next]_vars PROVE AnswerShape'
  OBVIOUS
<1>1. ASSUME NEW x \in Calls, Steps(x) PROVE AnswerShape'
  <2>1. AnswerOk(x)'
    BY <1>1, AnswerAt
  <2>2. ASSUME NEW y \in Calls \ {x} PROVE AnswerOk(y)'
    <3>1. AnswerOk(y)
      BY DEF AnswerShape
    <3> QED
      BY <1>1, <3>1, Elsewhere DEF AnswerOk, AtEnd, More, Next1, StatusOnWire
  <2> QED
    BY <2>1, <2>2 DEF AnswerShape
<1>2. CASE SessionClose \/ HandleClose
  BY <1>2 DEF SessionClose, HandleClose, AnswerShape, AnswerOk, AtEnd, More, Next1, StatusOnWire
<1>3. CASE UNCHANGED vars
  BY <1>3 DEF vars, AnswerShape, AnswerOk, AtEnd, More, Next1, StatusOnWire
<1> QED
  BY <1>1, <1>2, <1>3 DEF Next, Steps

LEMMA ErrorStep == TypeOK /\ WireShape /\ CarShape /\ UseShape /\ ErrorShape /\ [Next]_vars => ErrorShape'
<1> SUFFICES ASSUME TypeOK, WireShape, CarShape, UseShape, ErrorShape, [Next]_vars PROVE ErrorShape'
  OBVIOUS
<1>1. ASSUME NEW x \in Calls, Steps(x) PROVE ErrorShape'
  <2>1. ErrorOk(x)'
    BY <1>1, ErrorAt
  <2>2. ASSUME NEW y \in Calls \ {x} PROVE ErrorOk(y)'
    <3>1. ErrorOk(y)
      BY DEF ErrorShape
    <3> QED
      BY <1>1, <3>1, Elsewhere DEF ErrorOk, Reason, Damaged, OverLimit
  <2> QED
    BY <2>1, <2>2 DEF ErrorShape
<1>2. CASE SessionClose \/ HandleClose
  BY <1>2 DEF SessionClose, HandleClose, ErrorShape, ErrorOk, Reason, Damaged, OverLimit
<1>3. CASE UNCHANGED vars
  BY <1>3 DEF vars, ErrorShape, ErrorOk, Reason, Damaged, OverLimit
<1> QED
  BY <1>1, <1>2, <1>3 DEF Next, Steps

LEMMA CountStep == TypeOK /\ CarShape /\ UseShape /\ CountExact /\ [Next]_vars => CountExact'
<1> SUFFICES ASSUME TypeOK, CarShape, UseShape, CountExact, [Next]_vars PROVE CountExact'
  OBVIOUS
<1>1. CASE SessionClose \/ HandleClose \/ UNCHANGED vars
  <2>1. UNCHANGED call /\ sess'.inFlight = sess.inFlight
    BY <1>1 DEF SessionClose, HandleClose, vars, TypeOK, Sess
  <2> QED
    BY <2>1 DEF CountExact, InFlight
<1> QED
  BY <1>1, CountAt DEF Next, Steps

LEMMA GrpcInvariant == Spec => []GrpcInv
<1>1. GrpcInv /\ [Next]_vars => GrpcInv'
  <2> SUFFICES ASSUME GrpcInv, [Next]_vars PROVE GrpcInv'
    OBVIOUS
  <2> USE DEF GrpcInv
  <2>1. TypeOK' /\ WireShape'
    BY TypeStep, WireStep
  <2>2. CarShape' /\ UseShape'
    BY CarStep, UseStep
  <2>3. AnswerShape' /\ ErrorShape' /\ CountExact' /\ SessionKept'
    BY AnswerStep, ErrorStep, CountStep, SpoilStep
  <2> QED
    BY <2>1, <2>2, <2>3
<1> QED
  BY <1>1, GrpcInit, PTL DEF Spec

-----------------------------------------------------------------------------
(* What Recv reports is what the peer said: success is the peer's own OK,   *)
(* an argos server's Finish(nil), with every message read, whatever resets, *)
(* cut frames, aborts or sweeps came in between, and no status error hides  *)
(* an OK that was there to be read (finishClientRecv, resolveCallStatus).   *)
THEOREM AnswersAreFaithful == Spec => []AnswerFaithful
<1>1. GrpcInv => AnswerFaithful
  <2> SUFFICES ASSUME GrpcInv, NEW x \in Calls
               PROVE  /\ call[x].out = "ok" =>
                           /\ StatusOnWire(x) = "ok"
                           /\ peer[x] = "argos" => resp[x].finished = "ok"
                           /\ call[x].got < Len(wire[x].data) => Next1(x) \in {"junk", "hdr"}
                      /\ call[x].out = "status" =>
                           \/ StatusOnWire(x) # "ok" \/ wire[x].end = "rst"
                           \/ car[x].abort # "no" \/ car[x].expired
    BY DEF AnswerFaithful
  <2>1. AnswerOk(x) /\ WireOk(x)
    BY DEF GrpcInv, AnswerShape, WireShape
  <2>2. ASSUME call[x].out = "ok"
        PROVE  /\ StatusOnWire(x) = "ok" /\ AtEnd(x)
               /\ peer[x] = "argos" => resp[x].finished = "ok"
    BY <2>1, <2>2 DEF AnswerOk, WireOk, StatusOnWire
  <2>3. call[x].out = "status" =>
          \/ StatusOnWire(x) # "ok" \/ wire[x].end = "rst"
          \/ car[x].abort # "no" \/ car[x].expired
    BY <2>1 DEF AnswerOk
  <2> QED
    BY <2>2, <2>3 DEF AtEnd, More
<1> QED
  BY <1>1, GrpcInvariant, PTL

(* A session that is open stays reusable unless a call was given up before  *)
(* its end, closed in use or read past its end, or its ctx ended before its *)
(* status, or its response is damaged, or it was closed after metadata over *)
(* the limit or a message over the message limit, which do not set          *)
(* sawTerminal (sendFailure, ensureResponseHeaders, Recv, Close: the places *)
(* that mark the session bad).                                              *)
THEOREM SessionIsKept == Spec => []SessionKept
<1>1. GrpcInv => SessionKept
  BY DEF GrpcInv
<1> QED
  BY <1>1, GrpcInvariant, PTL

(* The session's books: inFlight counts the calls between OpenCall and the  *)
(* end of Close, the handle's map holds no exchange that is over, and a     *)
(* closed handle tracks nothing (OpenCall, OpenStream, endFlight, finish,   *)
(* untrack and both Closes).                                                *)
THEOREM ExchangeIsAccounted == Spec => []ExchangeAccounted
<1>1. GrpcInv => ExchangeAccounted
  <2> SUFFICES ASSUME GrpcInv PROVE ExchangeAccounted
    OBVIOUS
  <2> USE DEF GrpcInv
  <2>1. sess.inFlight = Cardinality({x \in Calls :
            \/ call[x].at = "stream"
            \/ call[x].at = "open" /\ call[x].closing # "done"})
    BY DEF CountExact, InFlight
  <2>2. sess.carriers \subseteq Calls
    BY DEF TypeOK, Sess
  <2>3. \A x \in sess.carriers : /\ call[x].closing # "done"
                                 /\ car[x].ready # "err" /\ ~car[x].bodyClosed
    BY <2>2 DEF CarShape, CarOk
  <2>4. sess.at = "sweep" => sess.carriers = {}
    BY <2>2 DEF CarShape, CarOk
  <2> QED
    BY <2>1, <2>3, <2>4 DEF ExchangeAccounted
<1> QED
  BY <1>1, GrpcInvariant, PTL

=============================================================================
