------------------------- MODULE SynthSessionProofs -------------------------
(***************************************************************************)
(* Theorems about SynthSession for any number of calls, any inbox and any  *)
(* numbers of messages: no answer is lost, invented or given to another    *)
(* call, Close aborts the connection exactly when it has to, and the synth *)
(* connection implements the sequential session.                           *)
(***************************************************************************)
EXTENDS SynthSession, TLAPS

(***************************************************************************)
(* Types                                                                   *)
(***************************************************************************)
Tags == {"greeting", "ack", "open", "data", "end", "status", "eof", "err"}
Frames == [t: Tags, k: Calls \cup {None}, n: Nat]
Stream == Seq(Frames)
Session == [closed: BOOLEAN, reusable: BOOLEAN, ioError: BOOLEAN,
            exclusive: BOOLEAN, inCall: BOOLEAN]
Loops == {"off", "read", "push", "last", "exit", "done"}
EndRecord ==
  [closed: BOOLEAN, half: BOOLEAN, term: BOOLEAN, sendClosed: BOOLEAN,
   err: {None, "eof", "err"}, loop: Loops, item: Frames \cup {None}, msgs: Nat,
   closing: {"no", "cancelled", "wait", "done"}, atEnd: BOOLEAN, poison: BOOLEAN]
\* recvLoop has an item in hand where it hands one over.
End == {e \in EndRecord : e.loop \in {"push", "last"} => e.item \in Frames}
SrvPlaces == {"greet", "ack", "fail", "gone", "idle", "user", "close"}
CallPlaces == {"new", "open", "dead", "user", "data", "end"}

SessTypes == sess \in [Sides -> Session] /\ conn \subseteq Sides
WireTypes == wire \in [Sides -> Stream]
AtTypes ==
  /\ at \in [Ends -> SrvPlaces \cup CallPlaces]
  /\ at[Srv] \in SrvPlaces /\ \A k \in Calls : at[k] \in CallPlaces
EndTypes == end \in [Ends -> End] /\ ctx \subseteq Ends
InboxTypes == inbox \in [Ends -> Stream]
LogTypes == sent \in [Calls -> Stream] /\ got \in [Calls -> Stream] /\ late \in BOOLEAN

Types ==
  /\ SessTypes /\ WireTypes /\ AtTypes /\ EndTypes /\ InboxTypes /\ LogTypes
  /\ cut \in BOOLEAN
  /\ dial \in {"greeting", "ack", "ready", "fail", "failed"}
  /\ cur \in Calls \cup {None}
  /\ events \in Nat

(***************************************************************************)
(* Two steps that share their effects with another                         *)
(***************************************************************************)

\* recvLoop loses its read, and the handler's frame is written or is not:
\* what the actions do, whatever the reason.
LoopLost(x) == LoopFails(x) \/ LoopRefuses(x)
Says(f) ==
  \/ HandlerWrites(f)
  \/ sess' = MarkedBad("S") /\ conn' = conn \ {"S"} /\ UNCHANGED <<wire, sent>>

(* The ends are the calls and the server, and the server is no call. *)
LEMMA Ints == NCalls \in Nat /\ Srv \in Ends /\ Srv \notin Calls /\ Calls \subseteq Ends
  BY SynthAssumption DEF Srv, Ends, Calls

(* What a stream is made of. *)
LEMMA Streams ==
  /\ <<>> \in Stream /\ Len(<<>>) = 0
  /\ \A q \in Stream :
       /\ Len(q) \in Nat
       /\ q # <<>> <=> Len(q) > 0
       /\ \A i \in 1 .. Len(q) : q[i] \in Frames
  BY DEF Stream

(* A stream without its first frame. *)
LEMMA Tails ==
  ASSUME NEW q \in Stream, q # <<>>
  PROVE  /\ Tail(q) \in Stream /\ Len(Tail(q)) = Len(q) - 1
         /\ Head(q) = q[1] /\ Head(q) \in Frames
         /\ \A i \in 1 .. Len(q) - 1 : Tail(q)[i] = q[i + 1]
  BY DEF Stream

(* A stream with one more frame. *)
LEMMA Appends ==
  ASSUME NEW q \in Stream, NEW f \in Frames
  PROVE  /\ Append(q, f) \in Stream /\ Len(Append(q, f)) = Len(q) + 1
         /\ Append(q, f)[Len(q) + 1] = f
         /\ \A i \in 1 .. Len(q) : Append(q, f)[i] = q[i]
         /\ Append(q, f) # <<>>
  BY DEF Stream

(* Fields of an end and of a session may be set to values of their types. *)
LEMMA EndFields ==
  ASSUME NEW e \in End
  PROVE  /\ e.msgs + 1 \in Nat /\ [e EXCEPT !.msgs = @ + 1] \in End
         /\ \A l \in Loops \ {"push", "last"} :
              /\ [e EXCEPT !.loop = l] \in End
              /\ [e EXCEPT !.item = None, !.loop = l] \in End
              /\ \A r \in {"eof", "err"} : [e EXCEPT !.loop = l, !.err = r] \in End
         /\ \A f \in Frames, b, c \in BOOLEAN, l \in Loops :
              [e EXCEPT !.item = f, !.half = b, !.term = c, !.loop = l] \in End
         /\ [e EXCEPT !.sendClosed = TRUE] \in End
         /\ \A b \in BOOLEAN : [e EXCEPT !.term = b] \in End
         /\ [e EXCEPT !.poison = TRUE, !.closing = "wait"] \in End
         /\ \A b, c \in BOOLEAN :
              [e EXCEPT !.closed = TRUE, !.closing = "cancelled", !.atEnd = b, !.poison = c]
                 \in End
<1> USE DEF End, EndRecord
<1>1. e.msgs + 1 \in Nat /\ [e EXCEPT !.msgs = @ + 1] \in End
  OBVIOUS
<1>2. ASSUME NEW l \in Loops \ {"push", "last"}
      PROVE  /\ [e EXCEPT !.loop = l] \in End
             /\ [e EXCEPT !.item = None, !.loop = l] \in End
             /\ \A r \in {"eof", "err"} : [e EXCEPT !.loop = l, !.err = r] \in End
  OBVIOUS
<1>3. ASSUME NEW f \in Frames, NEW b \in BOOLEAN, NEW c \in BOOLEAN, NEW l \in Loops
      PROVE  [e EXCEPT !.item = f, !.half = b, !.term = c, !.loop = l] \in End
  OBVIOUS
<1>4. [e EXCEPT !.sendClosed = TRUE] \in End /\ \A b \in BOOLEAN : [e EXCEPT !.term = b] \in End
  OBVIOUS
<1>5. [e EXCEPT !.poison = TRUE, !.closing = "wait"] \in End
  OBVIOUS
<1>6. ASSUME NEW b \in BOOLEAN, NEW c \in BOOLEAN
      PROVE  [e EXCEPT !.closed = TRUE, !.closing = "cancelled", !.atEnd = b, !.poison = c]
                \in End
  OBVIOUS
<1> HIDE DEF End, EndRecord
<1> QED
  BY <1>1, <1>2, <1>3, <1>4, <1>5, <1>6

(* AcceptCall and OpenWrites start an end afresh. *)
LEMMA NewEndType ==
  \A a, b, c, d \in BOOLEAN :
    [NewEnd EXCEPT !.closed = TRUE, !.closing = "done", !.term = a, !.loop = "done",
                   !.half = b, !.atEnd = c, !.sendClosed = d] \in End
  BY DEF NewEnd, End, EndRecord, Loops

(* Session fields may be set to booleans. *)
LEMMA SessionFields ==
  ASSUME NEW e \in Session, NEW b \in BOOLEAN, NEW c \in BOOLEAN
  PROVE  /\ [e EXCEPT !.inCall = b] \in Session
         /\ [e EXCEPT !.inCall = b, !.reusable = c] \in Session
         /\ [e EXCEPT !.inCall = TRUE, !.exclusive = b, !.reusable = c] \in Session
  BY DEF Session

(* Frames and failures are frames of the inbox. *)
LEMMA FrameType ==
  /\ \A t \in Tags, k \in Calls \cup {None}, n \in Nat : Frame(t, k, n) \in Frames
  /\ \A t \in {"eof", "err"} : Failure(t) \in Frames
  BY DEF Frame, Frames, Failure, Tags

(* The initial state is of the types. *)
LEMMA InitTypes == Init => Types
<1> SUFFICES ASSUME Init PROVE Types
  OBVIOUS
<1>1. NewEnd \in End
  BY DEF NewEnd, End, EndRecord, Loops
<1>2. NewSession \in Session
  BY DEF NewSession, Session
<1>3. AtTypes
  BY Ints DEF Init, AtTypes, SrvPlaces, CallPlaces
<1>4. SessTypes /\ EndTypes
  BY <1>1, <1>2 DEF Init, SessTypes, EndTypes
<1>5. WireTypes /\ InboxTypes /\ LogTypes
  BY Streams DEF Init, WireTypes, InboxTypes, LogTypes
<1> QED
  BY <1>3, <1>4, <1>5 DEF Init, Types

(* The carrier's operations. *)
LEMMA CarrierTypes ==
  ASSUME SessTypes, WireTypes, NEW s \in Sides
  PROVE  /\ MarkedBad(s) \in [Sides -> Session] /\ conn \ {s} \subseteq Sides
         /\ CloseSession(s) => SessTypes'
         /\ WriteFails(s) => SessTypes' /\ WireTypes'
         /\ \A f \in Frames : Writes(s, f) => SessTypes' /\ WireTypes'
         /\ wire[s] # <<>> => /\ Head(wire[s]) \in Frames
                              /\ [wire EXCEPT ![s] = Tail(@)] \in [Sides -> Stream]
<1> USE DEF SessTypes, WireTypes
<1>1. [sess[s] EXCEPT !.reusable = FALSE, !.ioError = TRUE] \in Session
  BY DEF Session
<1>2. MarkedBad(s) \in [Sides -> Session]
  BY <1>1 DEF MarkedBad
<1>3. [sess[s] EXCEPT !.closed = TRUE, !.reusable = FALSE] \in Session
  BY DEF Session
<1>4. CloseSession(s) => SessTypes'
  BY <1>3 DEF CloseSession
<1>5. \A f \in Frames : Append(wire[Peer(s)], f) \in Stream /\ Peer(s) \in Sides
  BY Appends DEF Peer, Sides
<1>6. \A f \in Frames : Writes(s, f) => WireTypes'
  BY <1>5 DEF Writes
<1>7. wire[s] # <<>> => /\ Head(wire[s]) \in Frames
                        /\ [wire EXCEPT ![s] = Tail(@)] \in [Sides -> Stream]
  BY Tails
<1> QED
  BY <1>2, <1>4, <1>6, <1>7 DEF Writes, WriteFails

(* A goroutine moves on. *)
LEMMA GotoTypes ==
  ASSUME AtTypes, NEW pl
  PROVE  /\ pl \in SrvPlaces /\ Goto(Srv, pl) => AtTypes'
         /\ \A k \in Calls : pl \in CallPlaces /\ Goto(k, pl) => AtTypes'
  BY Ints DEF Goto, AtTypes

(* The end of x changes, or its inbox. *)
LEMMA EndChanges ==
  ASSUME EndTypes, InboxTypes, NEW x \in Ends
  PROVE  /\ end[x] \in End
         /\ \A e \in End : [end EXCEPT ![x] = e] \in [Ends -> End]
         /\ \A f \in Frames : [inbox EXCEPT ![x] = Append(@, f)] \in [Ends -> Stream]
         /\ [inbox EXCEPT ![x] = <<>>] \in [Ends -> Stream]
         /\ inbox[x] # <<>> => /\ [inbox EXCEPT ![x] = Tail(@)] \in [Ends -> Stream]
                               /\ Head(inbox[x]) \in Frames
         /\ \A f \in Frames : Push(x, f) \in [Ends -> Stream]
<1> USE DEF EndTypes, InboxTypes
<1>1. \A f \in Frames : Append(inbox[x], f) \in Stream
  BY Appends
<1>2. inbox[x] # <<>> => Tail(inbox[x]) \in Stream /\ Head(inbox[x]) \in Frames
  BY Tails
<1>3. <<>> \in Stream
  BY Streams
<1>4. \A f \in Frames : [inbox EXCEPT ![x] = Append(@, f)] \in [Ends -> Stream]
  BY <1>1
<1>5. /\ [inbox EXCEPT ![x] = <<>>] \in [Ends -> Stream]
      /\ inbox[x] # <<>> => /\ [inbox EXCEPT ![x] = Tail(@)] \in [Ends -> Stream]
                            /\ Head(inbox[x]) \in Frames
  BY <1>2, <1>3
<1>6. \A f \in Frames : Push(x, f) \in [Ends -> Stream]
  BY <1>4 DEF Push
<1> QED
  BY <1>4, <1>5, <1>6

(* What a handler writes, and keeps account of. *)
LEMMA SentTypes ==
  ASSUME Types, NEW f \in Frames, Says(f), UNCHANGED <<got, late>>
  PROVE  SessTypes' /\ WireTypes' /\ LogTypes'
<1>1. SessTypes' /\ WireTypes'
  <2>1. HandlerWrites(f) => SessTypes' /\ WireTypes'
    BY CarrierTypes DEF HandlerWrites, Types, Sides
  <2>2. MarkedBad("S") \in [Sides -> Session] /\ conn \ {"S"} \subseteq Sides
    BY CarrierTypes DEF Types, Sides
  <2> QED
    BY <2>1, <2>2 DEF Says, Types, SessTypes, WireTypes
<1>2. cur \in Calls => Append(sent[cur], f) \in Stream
  BY Appends DEF Types, LogTypes
<1>3. sent' \in [Calls -> Stream]
  <2>1. sent \in [Calls -> Stream]
    BY DEF Types, LogTypes
  <2>2. sent' = sent \/ sent' = [sent EXCEPT ![cur] = Append(@, f)]
    BY DEF Says, HandlerWrites
  <2> QED
    BY <1>2, <2>1, <2>2
<1> QED
  BY <1>1, <1>3 DEF Types, LogTypes

(* Every step keeps the types. *)
LEMMA TypesStep == Types /\ [Next]_vars => Types'
<1> SUFFICES ASSUME Types, [Next]_vars PROVE Types'
  OBVIOUS
<1> USE Ints, FrameType, CarrierTypes, GotoTypes, EndChanges DEF Types
<1>1. CASE ClientClose
  <2>1. SessTypes'
    BY <1>1 DEF ClientClose, Sides
  <2> QED
    BY <1>1, <2>1 DEF ClientClose, Event, hist, WireTypes, AtTypes, EndTypes, InboxTypes, LogTypes
<1>2. CASE ServerClose
  <2>1. SessTypes'
    BY <1>2 DEF ServerClose, Sides, SessTypes
  <2> QED
    BY <1>2, <2>1 DEF ServerClose, Event, hist, WireTypes, AtTypes, EndTypes, InboxTypes, LogTypes
<1>3. CASE Cut
  BY <1>3 DEF Cut, Event, hist, SessTypes, WireTypes, AtTypes, EndTypes, InboxTypes, LogTypes
<1>4. CASE ServerGreets
  <2>1. SessTypes' /\ WireTypes'
    BY <1>4 DEF ServerGreets, Sides, Tags
  <2>2. AtTypes'
    BY <1>4 DEF ServerGreets, SrvPlaces
  <2> QED
    BY <1>4, <2>1, <2>2 DEF ServerGreets, hist, EndTypes, InboxTypes, LogTypes
<1>5. CASE ServerReadsAck
  <2>1. WireTypes'
    BY <1>5 DEF ServerReadsAck, Arriving, Sides, WireTypes
  <2>2. AtTypes'
    BY <1>5 DEF ServerReadsAck, SrvPlaces
  <2> QED
    BY <1>5, <2>1, <2>2 DEF ServerReadsAck, hist, SessTypes, EndTypes, InboxTypes, LogTypes
<1>6. CASE ClientReadsGreeting
  <2>1. WireTypes'
    BY <1>6 DEF ClientReadsGreeting, Arriving, Sides, WireTypes
  <2> QED
    BY <1>6, <2>1 DEF ClientReadsGreeting, hist, SessTypes, AtTypes, EndTypes, InboxTypes, LogTypes
<1>7. CASE ClientAcks
  <2>1. SessTypes' /\ WireTypes'
    BY <1>7 DEF ClientAcks, Sides, Tags, SessTypes, WireTypes
  <2> QED
    BY <1>7, <2>1 DEF ClientAcks, hist, AtTypes, EndTypes, InboxTypes, LogTypes
<1>8. CASE HandshakeExpires
  <2>1. AtTypes'
    BY <1>8 DEF HandshakeExpires, SrvPlaces, AtTypes
  <2> QED
    BY <1>8, <2>1
    DEF HandshakeExpires, Event, hist, SessTypes, WireTypes, EndTypes, InboxTypes, LogTypes
<1>9. CASE ClosesFailed
  <2>1. AtTypes'
    BY <1>9 DEF ClosesFailed, SrvPlaces, AtTypes
  <2>2. SessTypes'
    BY <1>9 DEF ClosesFailed, Sides
  <2> QED
    BY <1>9, <2>1, <2>2 DEF ClosesFailed, hist, WireTypes, EndTypes, InboxTypes, LogTypes
<1>10. CASE AcceptCall
  <2>1. [sess["S"] EXCEPT !.inCall = TRUE] \in Session
    BY SessionFields DEF SessTypes, Sides
  <2>2. SessTypes'
    BY <1>10, <2>1 DEF AcceptCall, SessTypes, Sides
  <2>3. WireTypes' /\ cur' \in Calls \cup {None}
    BY <1>10 DEF AcceptCall, Arriving, Sides, WireTypes, Frames
  <2>4. [NewEnd EXCEPT !.loop = "read"] \in End
    BY DEF NewEnd, End, EndRecord, Loops
  <2>5. EndTypes' /\ InboxTypes'
    BY <1>10, <2>4 DEF AcceptCall, EndTypes, InboxTypes
  <2>6. AtTypes'
    BY <1>10 DEF AcceptCall, SrvPlaces
  <2> QED
    BY <1>10, <2>2, <2>3, <2>5, <2>6 DEF AcceptCall, hist, LogTypes
<1>11. CASE AcceptFails
  <2>1. SessTypes'
    BY <1>11 DEF AcceptFails, SessTypes, Sides
  <2>2. AtTypes'
    BY <1>11 DEF AcceptFails, SrvPlaces
  <2> QED
    BY <1>11, <2>1, <2>2 DEF AcceptFails, Event, hist, WireTypes, EndTypes, InboxTypes, LogTypes
<1>12. CASE ServerSend
  <2>1. end[Srv] \in End
    OBVIOUS
  <2>2. end[Srv].msgs + 1 \in Nat /\ [end[Srv] EXCEPT !.msgs = @ + 1] \in End
    BY <2>1, EndFields DEF Loops
  <2>3. Frame("data", cur, end[Srv].msgs + 1) \in Frames
    BY <2>2 DEF Tags
  <2>4. SessTypes' /\ WireTypes' /\ LogTypes'
    BY <1>12, <2>3, SentTypes DEF Says, ServerSend
  <2>5. EndTypes'
    BY <1>12, <2>2 DEF ServerSend, EndTypes
  <2> QED
    BY <1>12, <2>4, <2>5 DEF ServerSend, AtTypes, InboxTypes
<1>13. CASE ServerFinish
  <2>1. Frame("status", cur, 0) \in Frames
    BY DEF Tags
  <2>2. SessTypes' /\ WireTypes' /\ LogTypes'
    BY <1>13, <2>1, SentTypes DEF Says, ServerFinish
  <2>3. end[Srv] \in End /\ (sent' # sent) \in BOOLEAN
    OBVIOUS
  <2>4. [end[Srv] EXCEPT !.term = (sent' # sent)] \in End
    BY <2>3, EndFields DEF Loops
  <2>5. EndTypes' /\ AtTypes'
    BY <1>13, <2>4 DEF ServerFinish, EndTypes, SrvPlaces
  <2> QED
    BY <1>13, <2>2, <2>5 DEF ServerFinish, Event, InboxTypes
<1>14. ASSUME NEW k \in Calls, Expire(k) PROVE Types'
  BY <1>14 DEF Expire, Event, hist, SessTypes, WireTypes, AtTypes, EndTypes, InboxTypes, LogTypes
<1>15. ASSUME NEW k \in Calls, OpenCall(k) PROVE Types'
  <2>1. PICK b \in {FALSE, (k \in Exclusives)} :
          sess' = [sess EXCEPT !["C"] = [@ EXCEPT !.inCall = TRUE, !.exclusive = b,
                                                  !.reusable = ~b]]
    BY <1>15 DEF OpenCall
  <2>2. sess["C"] \in Session
    BY DEF SessTypes, Sides
  <2>3. [sess["C"] EXCEPT !.inCall = TRUE, !.exclusive = b, !.reusable = ~b] \in Session
    <3>1. b \in BOOLEAN
      <4>1. (k \in Exclusives) \in BOOLEAN
        OBVIOUS
      <4> QED
        BY <4>1
    <3>2. (~b) \in BOOLEAN
      OBVIOUS
    <3> QED
      BY <2>2, <3>1, <3>2, SessionFields
  <2>4. SessTypes' /\ AtTypes'
    BY <1>15, <2>1, <2>3 DEF OpenCall, SessTypes, CallPlaces
  <2> QED
    BY <1>15, <2>4 DEF OpenCall, hist, WireTypes, EndTypes, InboxTypes, LogTypes
<1>16. ASSUME NEW k \in Calls, OpenWrites(k) PROVE Types'
  <2>1. Frame("open", k, 0) \in Frames
    BY DEF Tags
  <2>2. end[k] \in End
    OBVIOUS
  <2>3. [end[k] EXCEPT !.loop = "read"] \in End
    BY <2>2, EndFields DEF Loops
  <2>4. [sess["C"] EXCEPT !.inCall = FALSE, !.reusable = FALSE] \in Session
    BY SessionFields DEF SessTypes, Sides
  <2>5. SessTypes' /\ WireTypes' /\ EndTypes'
    <3>1. CASE Writes("C", Frame("open", k, 0)) /\ end' = [end EXCEPT ![k].loop = "read"]
      BY <1>16, <2>1, <2>3, <3>1 DEF OpenWrites, EndTypes, Sides
    <3>2. CASE /\ sess' = [sess EXCEPT !["C"] = [@ EXCEPT !.inCall = FALSE, !.reusable = FALSE]]
               /\ UNCHANGED <<conn, wire, end>>
      BY <1>16, <2>4, <3>2 DEF OpenWrites, EndTypes, SessTypes, WireTypes
    <3> QED
      BY <1>16, <3>1, <3>2 DEF OpenWrites
  <2>6. AtTypes'
    BY <1>16 DEF OpenWrites, CallPlaces
  <2> QED
    BY <1>16, <2>5, <2>6 DEF OpenWrites, hist, InboxTypes, LogTypes
<1>17. ASSUME NEW k \in Calls, Send(k) PROVE Types'
  <2>1. end[k] \in End
    OBVIOUS
  <2>2. end[k].msgs + 1 \in Nat /\ [end[k] EXCEPT !.msgs = @ + 1] \in End
    BY <2>1, EndFields DEF Loops
  <2>3. EndTypes'
    BY <1>17, <2>2 DEF Send, ClientWrites, EndTypes
  <2>4. Frame("data", k, end'[k].msgs) \in Frames
    BY <2>3 DEF Tags, EndTypes, End, EndRecord
  <2>5. SessTypes' /\ WireTypes' /\ LogTypes'
    BY <1>17, <2>4 DEF Send, ClientWrites, Sides, LogTypes
  <2> QED
    BY <1>17, <2>3, <2>5 DEF Send, ClientWrites, AtTypes, InboxTypes
<1>18. ASSUME NEW k \in Calls, HalfClose(k) PROVE Types'
  <2>1. end[k] \in End /\ Frame("end", k, 0) \in Frames
    BY DEF Tags
  <2>2. [end[k] EXCEPT !.sendClosed = TRUE] \in End
    BY <2>1, EndFields DEF Loops
  <2>3. EndTypes'
    BY <1>18, <2>2 DEF HalfClose, ClientWrites, EndTypes
  <2>4. SessTypes' /\ WireTypes' /\ LogTypes'
    BY <1>18, <2>1 DEF HalfClose, ClientWrites, Sides, LogTypes
  <2> QED
    BY <1>18, <2>3, <2>4 DEF HalfClose, ClientWrites, AtTypes, InboxTypes
<1>19. ASSUME NEW k \in Calls, SendPauses(k) PROVE Types'
  <2>1. end[k] \in End
    OBVIOUS
  <2>2. [end[k] EXCEPT !.sendClosed = TRUE] \in End /\ [end[k] EXCEPT !.msgs = @ + 1] \in End
    BY <2>1, EndFields DEF Loops
  <2>3. AtTypes'
    BY <1>19 DEF SendPauses, CallPlaces
  <2>4. end' \in [Ends -> End]
    <3>1. CASE end' = [end EXCEPT ![k].msgs = @ + 1]
      BY <2>2, <3>1 DEF EndTypes
    <3>2. CASE end' = [end EXCEPT ![k].sendClosed = TRUE]
      BY <2>2, <3>2 DEF EndTypes
    <3> QED
      BY <1>19, <3>1, <3>2 DEF SendPauses
  <2>5. EndTypes'
    BY <1>19, <2>4 DEF SendPauses, EndTypes
  <2> QED
    BY <1>19, <2>3, <2>5 DEF SendPauses, Event, hist, SessTypes, WireTypes, InboxTypes, LogTypes
<1>20. ASSUME NEW k \in Calls, SendResumes(k) PROVE Types'
  <2>1. Frame(at[k], k, end[k].msgs) \in Frames
    BY <1>20 DEF SendResumes, EndTypes, Tags, End, EndRecord
  <2>2. SessTypes' /\ WireTypes' /\ LogTypes'
    BY <1>20, <2>1 DEF SendResumes, ClientWrites, Sides, LogTypes
  <2>3. AtTypes'
    BY <1>20 DEF SendResumes, CallPlaces
  <2> QED
    BY <1>20, <2>2, <2>3 DEF SendResumes, ClientWrites, EndTypes, InboxTypes
<1>21. ASSUME NEW k \in Calls, RecvEnds(k) PROVE Types'
  <2>1. EndOfStream(k) \in Frames
    BY DEF EndOfStream, EndTypes, End, EndRecord
  <2>2. LogTypes'
    BY <1>21, <2>1, Appends DEF RecvEnds, LogTypes
  <2> QED
    BY <1>21, <2>2 DEF RecvEnds, SessTypes, WireTypes, AtTypes, EndTypes, InboxTypes
<1>22. ASSUME NEW x \in Ends, LoopReads(x) PROVE Types'
  <2> DEFINE s == SideOf(x)
             f == Head(wire[s])
  <2>1. s \in Sides
    BY DEF SideOf, Sides
  <2>2. WireTypes' /\ f \in Frames
    BY <1>22, <2>1 DEF LoopReads, WireTypes
  <2>3. end[x] \in End
    OBVIOUS
  <2>4. end[x].half \in BOOLEAN /\ end[x].term \in BOOLEAN
    BY <2>3 DEF End, EndRecord
  <2>5. [end[x] EXCEPT !.item = f, !.half = end[x].half \/ f.t = "end",
                       !.term = end[x].term \/ f.t = "status",
                       !.loop = IF f.t = "data" THEN "push" ELSE "last"] \in End
    <3>1. /\ (end[x].half \/ f.t = "end") \in BOOLEAN
          /\ (end[x].term \/ f.t = "status") \in BOOLEAN
          /\ (IF f.t = "data" THEN "push" ELSE "last") \in Loops
      BY <2>4 DEF Loops
    <3>2. f \in Frames
      BY <2>2
    <3> HIDE DEF f
    <3> QED
      BY <2>3, <3>1, <3>2, EndFields
  <2>6. EndTypes' /\ InboxTypes'
    <3>1. CASE inbox' = [inbox EXCEPT ![x] = Append(@, f)] /\ UNCHANGED end
      BY <1>22, <2>2, <3>1 DEF LoopReads, EndTypes, InboxTypes
    <3>2. CASE /\ end' = [end EXCEPT ![x] =
                    [@ EXCEPT !.item = f, !.half = end[x].half \/ f.t = "end",
                              !.term = end[x].term \/ f.t = "status",
                              !.loop = IF f.t = "data" THEN "push" ELSE "last"]]
               /\ UNCHANGED inbox
      BY <1>22, <2>5, <3>2 DEF LoopReads, EndTypes, InboxTypes
    <3> QED
      BY <1>22, <3>1, <3>2 DEF LoopReads
  <2> QED
    BY <1>22, <2>2, <2>6 DEF LoopReads, hist, SessTypes, AtTypes, LogTypes
<1>23. ASSUME NEW x \in Ends, LoopReadsOpen(x) PROVE Types'
  <2>1. SideOf(x) \in Sides
    BY DEF SideOf, Sides
  <2>2. SessTypes' /\ WireTypes'
    BY <1>23, <2>1 DEF LoopReadsOpen, SessTypes, WireTypes, Arriving
  <2>3. end[x] \in End
    OBVIOUS
  <2>4. [end[x] EXCEPT !.loop = "done"] \in End
    BY <2>3, EndFields DEF Loops
  <2>5. EndTypes' /\ InboxTypes'
    BY <1>23, <2>4 DEF LoopReadsOpen, EndTypes, InboxTypes
  <2> QED
    BY <1>23, <2>2, <2>5 DEF LoopReadsOpen, hist, AtTypes, LogTypes
<1>24. ASSUME NEW x \in Ends, LoopLost(x) PROVE Types'
  <2>1. SideOf(x) \in Sides /\ end[x] \in End
    BY DEF SideOf, Sides
  <2>2. PICK e \in {"eof", "err"} :
          \/ end' = [end EXCEPT ![x].loop = "done"] /\ UNCHANGED <<sess, conn, inbox>>
          \/ /\ end' = [end EXCEPT ![x] = [@ EXCEPT !.loop = "done", !.err = e]]
             /\ sess' = IF e = "err" THEN MarkedBad(SideOf(x)) ELSE sess
             /\ conn' = IF e = "err" THEN conn \ {SideOf(x)} ELSE conn
             /\ inbox' = Push(x, Failure(e))
    BY <1>24 DEF LoopLost, LoopFails, LoopRefuses, LoopEnds, ReadError
  <2>3. e \in {"eof", "err"}
    BY <2>2
  <2>4. SessTypes' /\ InboxTypes'
    BY <2>1, <2>2, <2>3 DEF SessTypes, InboxTypes
  <2>5. /\ [end[x] EXCEPT !.loop = "done"] \in End
        /\ [end[x] EXCEPT !.loop = "done", !.err = e] \in End
    BY <2>1, <2>3, EndFields DEF Loops
  <2>6. end' \in [Ends -> End]
    <3>1. CASE end' = [end EXCEPT ![x].loop = "done"]
      BY <2>5, <3>1 DEF EndTypes
    <3>2. CASE end' = [end EXCEPT ![x] = [@ EXCEPT !.loop = "done", !.err = e]]
      BY <2>5, <3>2 DEF EndTypes
    <3> QED
      BY <2>2, <3>1, <3>2
  <2>7. EndTypes'
    BY <1>24, <2>6 DEF LoopLost, LoopFails, LoopRefuses, LoopEnds, EndTypes
  <2>8. UNCHANGED <<wire, cut, dial, at, cur, sent, got, late>>
    BY <1>24 DEF LoopLost, LoopFails, LoopRefuses, LoopEnds, hist
  <2>9. events' \in Nat
    <3>1. UNCHANGED events \/ Event
      BY <1>24 DEF LoopLost, LoopFails, LoopRefuses
    <3> QED
      BY <3>1 DEF Event
  <2> QED
    BY <2>4, <2>7, <2>8, <2>9 DEF WireTypes, AtTypes, LogTypes
<1>25. ASSUME NEW x \in Ends, LoopPushes(x) PROVE Types'
  <2>1. end[x] \in End
    OBVIOUS
  <2>2. [end[x] EXCEPT !.item = None,
                       !.loop = IF end[x].loop = "push" THEN "read" ELSE "exit"] \in End
    BY <2>1, EndFields DEF Loops
  <2>3. EndTypes'
    BY <1>25, <2>2 DEF LoopPushes, EndTypes
  <2>4. end[x].item \in Frames
    BY <1>25, <2>1 DEF LoopPushes, End
  <2>5. InboxTypes'
    BY <1>25, <2>4 DEF LoopPushes, InboxTypes
  <2> QED
    BY <1>25, <2>3, <2>5 DEF LoopPushes, hist, SessTypes, WireTypes, AtTypes, LogTypes
<1>26. ASSUME NEW x \in Ends, LoopCancelled(x) PROVE Types'
  <2>1. end[x] \in End
    OBVIOUS
  <2>2. [end[x] EXCEPT !.item = None, !.loop = "done"] \in End
    BY <2>1, EndFields DEF Loops
  <2>3. EndTypes'
    BY <1>26, <2>2 DEF LoopCancelled, EndTypes
  <2> QED
    BY <1>26, <2>3 DEF LoopCancelled, hist, SessTypes, WireTypes, AtTypes, InboxTypes, LogTypes
<1>27. ASSUME NEW x \in Ends, LoopDone(x) PROVE Types'
  <2>1. end[x] \in End
    OBVIOUS
  <2>2. [end[x] EXCEPT !.loop = "done"] \in End
    BY <2>1, EndFields DEF Loops
  <2>3. EndTypes'
    BY <1>27, <2>2 DEF LoopDone, EndTypes
  <2> QED
    BY <1>27, <2>3 DEF LoopDone, hist, SessTypes, WireTypes, AtTypes, InboxTypes, LogTypes
<1>28. ASSUME NEW x \in Ends, RecvTakes(x) PROVE Types'
  <2>1. InboxTypes' /\ Head(inbox[x]) \in Frames
    BY <1>28 DEF RecvTakes, InboxTypes
  <2>2. x # Srv => x \in Calls
    BY DEF Ends
  <2>3. LogTypes'
    BY <1>28, <2>1, <2>2, Appends DEF RecvTakes, LogTypes
  <2> QED
    BY <1>28, <2>1, <2>3 DEF RecvTakes, SessTypes, WireTypes, AtTypes, EndTypes
<1>29. ASSUME NEW x \in Ends, CloseStarts(x) PROVE Types'
  <2>1. end[x] \in End
    OBVIOUS
  <2>2. AtEnd(x) \in BOOLEAN /\ (x # Srv /\ ~end[x].term) \in BOOLEAN
    BY <2>1 DEF AtEnd, End, EndRecord
  <2>3. [end[x] EXCEPT !.closed = TRUE, !.closing = "cancelled", !.atEnd = AtEnd(x),
                       !.poison = x # Srv /\ ~end[x].term] \in End
    BY <2>1, <2>2, EndFields DEF Loops
  <2>4. EndTypes'
    BY <1>29, <2>3 DEF CloseStarts, EndTypes
  <2> QED
    BY <1>29, <2>4 DEF CloseStarts, hist, SessTypes, WireTypes, AtTypes, InboxTypes, LogTypes
<1>30. ASSUME NEW x \in Ends, CloseAborts(x) PROVE Types'
  <2>1. end[x] \in End
    OBVIOUS
  <2>2. [end[x] EXCEPT !.poison = TRUE, !.closing = "wait"] \in End
    BY <2>1, EndFields DEF Loops
  <2>3. EndTypes' /\ SessTypes'
    BY <1>30, <2>2 DEF CloseAborts, EndTypes, SessTypes
  <2> QED
    BY <1>30, <2>3 DEF CloseAborts, hist, WireTypes, AtTypes, InboxTypes, LogTypes
<1>31. ASSUME NEW x \in Ends, CloseDetaches(x) PROVE Types'
  <2>1. SideOf(x) \in Sides /\ end[x] \in End
    BY DEF SideOf, Sides
  <2>2. [NewEnd EXCEPT !.closed = TRUE, !.closing = "done", !.term = end[x].term,
                       !.loop = "done", !.half = end[x].half, !.atEnd = end[x].atEnd,
                       !.sendClosed = end[x].sendClosed] \in End
    <3>1. /\ end[x].term \in BOOLEAN /\ end[x].atEnd \in BOOLEAN
          /\ end[x].half \in BOOLEAN /\ end[x].sendClosed \in BOOLEAN
      BY <2>1 DEF End, EndRecord
    <3> QED
      BY <3>1, NewEndType DEF Loops
  <2>3. EndTypes' /\ InboxTypes'
    BY <1>31, <2>2 DEF CloseDetaches, EndTypes, InboxTypes
  <2>4. sess[SideOf(x)] \in Session /\ sess[SideOf(x)].reusable \in BOOLEAN
    BY <2>1 DEF SessTypes, Session
  <2>5. [sess[SideOf(x)] EXCEPT !.inCall = FALSE,
           !.reusable = sess[SideOf(x)].reusable /\ ~(sess[SideOf(x)].inCall /\ end[x].poison)]
          \in Session
    BY <2>4, SessionFields
  <2>6. SessTypes'
    BY <1>31, <2>1, <2>5 DEF CloseDetaches, SessTypes
  <2>7. AtTypes' /\ cur' \in Calls \cup {None}
    BY <1>31 DEF CloseDetaches, SrvPlaces, AtTypes
  <2> QED
    BY <1>31, <2>3, <2>6, <2>7 DEF CloseDetaches, hist, WireTypes, LogTypes
<1>32. CASE UNCHANGED vars
  BY <1>32 DEF vars, SessTypes, WireTypes, AtTypes, EndTypes, InboxTypes, LogTypes
<1> QED
  BY <1>1, <1>2, <1>3, <1>4, <1>5, <1>6, <1>7, <1>8, <1>9, <1>10, <1>11, <1>12, <1>13, <1>14,
      <1>15, <1>16, <1>17, <1>18, <1>19, <1>20, <1>21, <1>22, <1>23, <1>24, <1>25, <1>26, <1>27,
      <1>28, <1>29, <1>30, <1>31, <1>32
  DEF Next, Loop, LoopLost, Close

(***************************************************************************)
(* What a step does to the end of a call                                   *)
(***************************************************************************)
ItemKept(x) ==
  /\ end'[x].item = end[x].item /\ end'[x].msgs = end[x].msgs
  /\ end'[x].half <=> end[x].half
  /\ end'[x].term <=> end[x].term
LoopKept(x) == end'[x].loop = end[x].loop
CloseKept(x) ==
  /\ end'[x].closed <=> end[x].closed
  /\ end'[x].closing = end[x].closing
  /\ end'[x].atEnd <=> end[x].atEnd
  /\ end'[x].poison <=> end[x].poison
OthersKept(x) == \A y \in Ends : y # x => end'[y] = end[y]

(* openCall wrote its OPEN and has an end, or failed and has none. *)
LEMMA OpenEnd ==
  ASSUME Types, NEW k \in Calls, OpenWrites(k)
  PROVE  /\ OthersKept(k) /\ ItemKept(k) /\ CloseKept(k)
         /\ \/ /\ Writes("C", Frame("open", k, 0)) /\ end'[k].loop = "read"
               /\ at' = [at EXCEPT ![k] = "user"]
            \/ /\ sess'["C"].reusable = FALSE /\ end' = end /\ UNCHANGED <<conn, wire>>
               /\ at' = [at EXCEPT ![k] = "dead"]
<1>1. end \in [Ends -> End] /\ k \in Ends /\ end[k] \in End /\ sess["C"] \in Session /\ "C" \in Sides
      /\ sess \in [Sides -> Session]
  BY Ints DEF Types, EndTypes, SessTypes, Sides
<1>2. CASE /\ Writes("C", Frame("open", k, 0))
           /\ end' = [end EXCEPT ![k].loop = "read"]
           /\ Goto(k, "user")
  BY <1>1, <1>2 DEF Goto, OthersKept, ItemKept, CloseKept, End, EndRecord
<1>3. CASE /\ sess' = [sess EXCEPT !["C"] = [@ EXCEPT !.inCall = FALSE, !.reusable = FALSE]]
           /\ Goto(k, "dead")
           /\ UNCHANGED <<conn, wire, end>>
  BY <1>1, <1>3 DEF Goto, OthersKept, ItemKept, CloseKept, Session
<1> QED
  BY <1>2, <1>3 DEF OpenWrites

(* Send and HalfClose touch neither loop nor Close. *)
LEMMA SendEnd ==
  ASSUME Types, NEW k \in Calls, Send(k) \/ HalfClose(k) \/ SendPauses(k)
  PROVE  /\ OthersKept(k) /\ LoopKept(k) /\ CloseKept(k)
         /\ end'[k].item = end[k].item
         /\ end'[k].term <=> end[k].term
         /\ end'[k].half <=> end[k].half
<1>1. end \in [Ends -> End] /\ k \in Ends /\ end[k] \in End
  BY Ints DEF Types, EndTypes
<1>2. CASE end' = [end EXCEPT ![k].msgs = @ + 1]
  BY <1>1, <1>2 DEF OthersKept, LoopKept, CloseKept, End, EndRecord
<1>3. CASE end' = [end EXCEPT ![k].sendClosed = TRUE]
  BY <1>1, <1>3 DEF OthersKept, LoopKept, CloseKept, End, EndRecord
<1> QED
  BY <1>2, <1>3 DEF Send, HalfClose, SendPauses

(* A message sent counts, and changes nothing else of the end. *)
LEMMA ServerSendEnd ==
  ASSUME Types, ServerSend
  PROVE  /\ OthersKept(Srv) /\ LoopKept(Srv) /\ CloseKept(Srv)
         /\ end'[Srv].item = end[Srv].item /\ end'[Srv].msgs = end[Srv].msgs + 1
         /\ end'[Srv].term <=> end[Srv].term
         /\ end'[Srv].half <=> end[Srv].half
<1>1. end \in [Ends -> End] /\ Srv \in Ends /\ end[Srv] \in End
  BY Ints DEF Types, EndTypes
<1> QED
  BY <1>1 DEF ServerSend, OthersKept, LoopKept, CloseKept, End, EndRecord

(* STATUS sent changes the terminal flag of the end only. *)
LEMMA ServerFinishEnd ==
  ASSUME Types, ServerFinish
  PROVE  /\ OthersKept(Srv) /\ LoopKept(Srv) /\ CloseKept(Srv)
         /\ end'[Srv].item = end[Srv].item
         /\ end'[Srv].half <=> end[Srv].half
<1>1. end \in [Ends -> End] /\ Srv \in Ends /\ end[Srv] \in End
  BY Ints DEF Types, EndTypes
<1> QED
  BY <1>1 DEF ServerFinish, OthersKept, LoopKept, CloseKept, End, EndRecord

(* A call accepted has an end of its own. *)
LEMMA AcceptEnd ==
  ASSUME Types, AcceptCall
  PROVE  /\ OthersKept(Srv) /\ end'[Srv].loop = "read" /\ end'[Srv].closing = "no"
         /\ end'[Srv].item = None /\ end'[Srv].msgs = 0
         /\ ~end'[Srv].closed /\ ~end'[Srv].half /\ ~end'[Srv].term /\ ~end'[Srv].atEnd
<1>1. end \in [Ends -> End] /\ Srv \in Ends
  BY Ints DEF Types, EndTypes
<1> QED
  BY <1>1 DEF AcceptCall, NewEnd, OthersKept

(* recvLoop has a frame in hand, or has put it straight into the inbox. *)
Reads(x, f) ==
  \/ /\ f.t = "data" /\ inbox' = [inbox EXCEPT ![x] = Append(@, f)]
     /\ end' = end
  \/ /\ UNCHANGED inbox /\ OthersKept(x) /\ CloseKept(x)
     /\ end'[x].item = f /\ end'[x].msgs = end[x].msgs
     /\ end'[x].half <=> (end[x].half \/ f.t = "end")
     /\ end'[x].term <=> (end[x].term \/ f.t = "status")
     /\ end'[x].loop = IF f.t = "data" THEN "push" ELSE "last"

(* recvLoop read a frame. *)
LEMMA LoopReadsEnd ==
  ASSUME Types, NEW x \in Ends, LoopReads(x)
  PROVE  Reads(x, Head(wire[SideOf(x)]))
<1> DEFINE f == Head(wire[SideOf(x)])
<1>1. end \in [Ends -> End] /\ end[x] \in End
  BY DEF Types, EndTypes
<1>2. CASE f.t = "data" /\ inbox' = [inbox EXCEPT ![x] = Append(@, f)] /\ UNCHANGED end
  BY <1>2 DEF Reads
<1>3. CASE /\ end' = [end EXCEPT ![x] =
                    [@ EXCEPT !.item = f, !.half = end[x].half \/ f.t = "end",
                              !.term = end[x].term \/ f.t = "status",
                              !.loop = IF f.t = "data" THEN "push" ELSE "last"]]
           /\ UNCHANGED inbox
  <2>1. OthersKept(x)
    BY <1>1, <1>3 DEF OthersKept
  <2>2. end'[x] = [end[x] EXCEPT !.item = f, !.half = end[x].half \/ f.t = "end",
                              !.term = end[x].term \/ f.t = "status",
                              !.loop = IF f.t = "data" THEN "push" ELSE "last"]
    BY <1>1, <1>3
  <2>3. /\ CloseKept(x)
        /\ end'[x].item = f /\ end'[x].msgs = end[x].msgs
        /\ end'[x].half = (end[x].half \/ f.t = "end")
        /\ end'[x].term = (end[x].term \/ f.t = "status")
        /\ end'[x].loop = IF f.t = "data" THEN "push" ELSE "last"
    BY <1>1, <2>2 DEF CloseKept, End, EndRecord
  <2> QED
    BY <1>3, <2>1, <2>3 DEF Reads
<1> QED
  BY <1>2, <1>3 DEF LoopReads

(* recvLoop met a second OPEN and ends. *)
LEMMA LoopReadsOpenEnd ==
  ASSUME Types, NEW x \in Ends, LoopReadsOpen(x)
  PROVE  OthersKept(x) /\ ItemKept(x) /\ CloseKept(x) /\ end'[x].loop = "done"
<1>1. end \in [Ends -> End] /\ end[x] \in End
  BY DEF Types, EndTypes
<1> QED
  BY <1>1 DEF LoopReadsOpen, OthersKept, ItemKept, CloseKept, End, EndRecord

(* A read that failed ends recvLoop, with what it pushes. *)
LEMMA LoopFailsEnd ==
  ASSUME Types, NEW x \in Ends, LoopLost(x)
  PROVE  /\ UNCHANGED <<wire, cut, dial, at, ctx, cur, sent, got, late>>
         /\ end[x].loop = "read" /\ (UNCHANGED events \/ Event)
         /\ OthersKept(x) /\ ItemKept(x) /\ CloseKept(x) /\ end'[x].loop = "done"
         /\ \/ UNCHANGED <<sess, conn, inbox>>
            \/ \E e \in {"eof", "err"} :
                 /\ inbox' = Push(x, Failure(e))
                 /\ sess' = IF e = "err" THEN MarkedBad(SideOf(x)) ELSE sess
                 /\ conn' = IF e = "err" THEN conn \ {SideOf(x)} ELSE conn
<1>1. end \in [Ends -> End] /\ end[x] \in End
  BY DEF Types, EndTypes
<1>2. /\ UNCHANGED <<wire, cut, dial, at, ctx, cur, sent, got, late>>
      /\ end[x].loop = "read" /\ (UNCHANGED events \/ Event)
  BY DEF LoopLost, LoopFails, LoopRefuses, LoopEnds, hist
<1>3. PICK e \in {"eof", "err"} :
        \/ end' = [end EXCEPT ![x].loop = "done"] /\ UNCHANGED <<sess, conn, inbox>>
        \/ /\ end' = [end EXCEPT ![x] = [@ EXCEPT !.loop = "done", !.err = e]]
           /\ sess' = IF e = "err" THEN MarkedBad(SideOf(x)) ELSE sess
           /\ conn' = IF e = "err" THEN conn \ {SideOf(x)} ELSE conn
           /\ inbox' = Push(x, Failure(e))
  BY DEF LoopLost, LoopFails, LoopRefuses, LoopEnds, ReadError
<1>4. CASE end' = [end EXCEPT ![x].loop = "done"] /\ UNCHANGED <<sess, conn, inbox>>
  BY <1>1, <1>2, <1>4 DEF OthersKept, ItemKept, CloseKept, End, EndRecord
<1>5. CASE /\ end' = [end EXCEPT ![x] = [@ EXCEPT !.loop = "done", !.err = e]]
           /\ sess' = IF e = "err" THEN MarkedBad(SideOf(x)) ELSE sess
           /\ conn' = IF e = "err" THEN conn \ {SideOf(x)} ELSE conn
           /\ inbox' = Push(x, Failure(e))
  <2>1. OthersKept(x) /\ ItemKept(x) /\ CloseKept(x) /\ end'[x].loop = "done"
    BY <1>1, <1>5 DEF OthersKept, ItemKept, CloseKept, End, EndRecord
  <2> QED
    BY <1>2, <1>3, <1>5, <2>1
<1> QED
  BY <1>3, <1>4, <1>5

(* recvLoop handed its frame over. *)
LEMMA LoopPushesEnd ==
  ASSUME Types, NEW x \in Ends, LoopPushes(x)
  PROVE  /\ OthersKept(x) /\ CloseKept(x) /\ end'[x].msgs = end[x].msgs
         /\ end'[x].half <=> end[x].half
         /\ end'[x].term <=> end[x].term
         /\ end[x].item \in Frames /\ end'[x].item = None
         /\ end'[x].loop = IF end[x].loop = "push" THEN "read" ELSE "exit"
<1>1. end \in [Ends -> End] /\ end[x] \in End
  BY DEF Types, EndTypes
<1>2. end'[x] = [end[x] EXCEPT !.item = None,
                               !.loop = IF end[x].loop = "push" THEN "read" ELSE "exit"]
  BY <1>1 DEF LoopPushes
<1>3. OthersKept(x) /\ end[x].item \in Frames
  BY <1>1 DEF LoopPushes, OthersKept, End
<1> QED
  BY <1>1, <1>2, <1>3 DEF CloseKept, End, EndRecord

(* A cancelled recvLoop drops its frame and ends. *)
LEMMA LoopCancelledEnd ==
  ASSUME Types, NEW x \in Ends, LoopCancelled(x)
  PROVE  /\ OthersKept(x) /\ CloseKept(x) /\ end'[x].msgs = end[x].msgs
         /\ end'[x].half <=> end[x].half
         /\ end'[x].term <=> end[x].term
         /\ end'[x].item = None /\ end'[x].loop = "done"
<1>1. end \in [Ends -> End] /\ end[x] \in End
  BY DEF Types, EndTypes
<1> QED
  BY <1>1 DEF LoopCancelled, OthersKept, CloseKept, End, EndRecord

(* recvLoop ends behind a last frame. *)
LEMMA LoopDoneEnd ==
  ASSUME Types, NEW x \in Ends, LoopDone(x)
  PROVE  OthersKept(x) /\ CloseKept(x) /\ ItemKept(x) /\ end'[x].loop = "done"
<1>1. end \in [Ends -> End] /\ end[x] \in End
  BY DEF Types, EndTypes
<1> QED
  BY <1>1 DEF LoopDone, OthersKept, CloseKept, ItemKept, End, EndRecord

(* Close cancels, and looks whether recvLoop is at its end. *)
LEMMA CloseStartsEnd ==
  ASSUME Types, NEW x \in Ends, CloseStarts(x)
  PROVE  /\ OthersKept(x) /\ LoopKept(x) /\ ItemKept(x)
         /\ end'[x].closed /\ end'[x].closing = "cancelled"
         /\ end'[x].atEnd <=> AtEnd(x)
         /\ end'[x].poison <=> (x # Srv /\ ~end[x].term)
<1>1. end \in [Ends -> End] /\ end[x] \in End
  BY DEF Types, EndTypes
<1>2. end'[x] = [end[x] EXCEPT !.closed = TRUE, !.closing = "cancelled", !.atEnd = AtEnd(x),
                               !.poison = x # Srv /\ ~end[x].term]
  BY <1>1 DEF CloseStarts
<1>3. /\ LoopKept(x) /\ ItemKept(x)
      /\ end'[x].closed = TRUE /\ end'[x].closing = "cancelled"
      /\ end'[x].atEnd = AtEnd(x)
      /\ end'[x].poison = (x # Srv /\ ~end[x].term)
  BY <1>1, <1>2 DEF LoopKept, ItemKept, End, EndRecord
<1>4. OthersKept(x)
  BY <1>1 DEF CloseStarts, OthersKept
<1> QED
  BY <1>3, <1>4

(* Close closes the connection and goes on to wait. *)
LEMMA CloseAbortsEnd ==
  ASSUME Types, NEW x \in Ends, CloseAborts(x)
  PROVE  /\ OthersKept(x) /\ LoopKept(x) /\ ItemKept(x)
         /\ end'[x].closed <=> end[x].closed
         /\ end'[x].atEnd <=> end[x].atEnd
         /\ end'[x].closing = "wait" /\ end'[x].poison
<1>1. end \in [Ends -> End] /\ end[x] \in End
  BY DEF Types, EndTypes
<1> QED
  BY <1>1 DEF CloseAborts, OthersKept, LoopKept, ItemKept, End, EndRecord

(* Close is over and detaches the end. *)
LEMMA DetachEnd ==
  ASSUME Types, NEW x \in Ends, CloseDetaches(x)
  PROVE  /\ OthersKept(x) /\ end'[x].closed /\ end'[x].closing = "done"
         /\ end'[x].loop = "done" /\ end'[x].item = None
         /\ end'[x].half <=> end[x].half
         /\ end'[x].term <=> end[x].term
         /\ end'[x].atEnd <=> end[x].atEnd
         /\ end'[x].sendClosed <=> end[x].sendClosed
<1>1. end \in [Ends -> End] /\ end[x] \in End
  BY DEF Types, EndTypes
<1>2. end'[x] = [NewEnd EXCEPT !.closed = TRUE, !.closing = "done", !.term = end[x].term,
                     !.loop = "done", !.half = end[x].half, !.atEnd = end[x].atEnd,
                     !.sendClosed = end[x].sendClosed]
  BY <1>1 DEF CloseDetaches
<1>3. OthersKept(x)
  BY <1>1 DEF CloseDetaches, OthersKept
<1> QED
  BY <1>2, <1>3 DEF NewEnd

(***************************************************************************)
(* The inductive invariant                                                 *)
(***************************************************************************)

\* k is the call opened last; it has a stream; it holds the connection.
Last(k) == at[k] # "new" /\ \A j \in Calls : j > k => at[j] = "new"
Begun(k) == at[k] \notin {"new", "open", "dead"}
Holding(k) == at[k] \notin {"new", "dead"} /\ end[k].closing # "done"
Usable == /\ ~sess["C"].closed /\ sess["C"].reusable
          /\ ~sess["C"].ioError /\ ~sess["C"].exclusive

(* recvLoop and Close of one end: Close is over only behind recvLoop, and   *)
(* waits for it only when it is on its way out.                             *)
LoopOk(x) ==
  /\ end[x].closed <=> end[x].closing # "no"
  /\ end[x].loop \notin {"push", "last"} => end[x].item = None
  /\ end[x].loop = "off" => end[x].closing = "no" /\ inbox[x] = <<>>
  /\ end[x].half \/ (end[x].term /\ x # Srv) => end[x].loop \in {"last", "exit", "done"}
  /\ end[x].closing \in {"cancelled", "wait"} => x \in ctx
  /\ end[x].closing = "wait" => SideOf(x) \notin conn
  /\ end[x].closing = "cancelled" /\ end[x].atEnd => AtEnd(x)
  /\ end[x].closing = "done" => end[x].loop = "done" /\ inbox[x] = <<>>

(* The server has a call exactly between AcceptCall and detach. *)
SrvOk ==
  /\ cur # None <=> at[Srv] \in {"user", "close"}
  /\ end[Srv].loop \in {"read", "push", "last", "exit"} => at[Srv] \in {"user", "close"}
  /\ at[Srv] \in {"user", "close"} => end[Srv].loop # "off"
  /\ end[Srv].closing \in {"cancelled", "wait"} => at[Srv] = "close"

CtlInv ==
  /\ SrvOk
  /\ \A x \in Ends : LoopOk(x)
  /\ \A k \in Calls : end[k].loop = "off" <=> ~Begun(k)

(* The calls are opened in order and one at a time, and a session is still *)
(* usable behind a call only if its STATUS was read.                       *)
CallOk(k) ==
  /\ \A j \in Calls : j < k /\ at[k] # "new" => at[j] # "new"
  /\ Holding(k) => sess["C"].inCall /\ Last(k)
  /\ at[k] # "new" /\ ~Holding(k) /\ Usable => end[k].term
  /\ end[k].closing \in {"cancelled", "wait"} /\ ~end[k].poison => end[k].term
  /\ end[k].closing = "done" => k \in ctx
CallInv == \A k \in Calls : CallOk(k)

(* The handler of the call opened last writes its messages, then STATUS. *)
Written ==
  at[Srv] = "user" =>
    /\ cur \in Calls /\ Last(cur) /\ ~HasEnd(sent[cur])
    /\ "S" \in conn => Len(sent[cur]) = end[Srv].msgs
SentOk(k) ==
  /\ \A i \in 1 .. Len(sent[k]) :
       \/ sent[k][i] = Frame("data", k, i) /\ i <= MaxDown[k]
       \/ sent[k][i] = Frame("status", k, 0) /\ i = Len(sent[k])
  /\ at[k] \in {"new", "open"} => sent[k] = <<>> /\ cur # k
SentInv == Written /\ \A k \in Calls : SentOk(k)

(* The handshake: nothing of a call before it is over. *)
HandOk ==
  /\ dial # "ready" => /\ \A k \in Calls : at[k] = "new"
                       /\ at[Srv] \in {"greet", "ack", "fail", "gone"}
  /\ at[Srv] = "greet" => wire["C"] = <<>> /\ dial \notin {"ack", "ready"}
  /\ dial = "greeting" => Len(wire["C"]) <= 1 /\ wire["S"] = <<>>
  /\ dial = "ack" => wire["C"] = <<>> /\ wire["S"] = <<>>
  /\ dial = "ready" /\ (\A k \in Calls : at[k] = "new") => wire["C"] = <<>>
Quiet ==
  events = 0 => ~cut /\ (dial \in {"fail", "failed"} => "S" \notin conn)

(* The two halves of HealthyKept.                                          *)
EndsSent == \A k \in Calls : end[k].closed => end[k].sendClosed
ClientKept ==
  events = 0 /\ (\A k \in Calls : end[k].closed => end[k].atEnd)
    => "C" \in conn \/ "S" \notin conn
ServerKept ==
  events = 0 /\ EndsSent /\ (end[Srv].closed => end[Srv].atEnd)
    => "S" \in conn \/ "C" \notin conn

(* Undisturbed, with both ends open: the server never fails, and the frames *)
(* on their way to it are whole calls, each OPEN behind the ack or an END.  *)
(* The server stands between two calls when it has read END, or before the  *)
(* first OPEN; the stream is settled when what was written up to now ends   *)
(* there, which is when every call begun has sent its END.                  *)
Up == wire["S"]
Between == end[Srv].half \/ (at[Srv] = "idle" /\ ~end[Srv].closed)
Stops(f) == f.t \in {"ack", "end"}
Settled == IF Up = <<>> THEN Between ELSE Stops(Up[Len(Up)])
Calm == events = 0 /\ EndsSent /\ "C" \in conn /\ "S" \in conn
WholeCalls ==
  /\ \A i \in 1 .. Len(Up) :
       Up[i].t = "open" => IF i = 1 THEN Between ELSE Stops(Up[i - 1])
  /\ \A i \in 1 .. Len(Up) - 1 : Stops(Up[i]) => Up[i + 1].t = "open"
  /\ Up # <<>> /\ Between => Up[1].t = "open"
Order ==
  /\ ~sess["S"].closed /\ at[Srv] \notin {"fail", "gone"}
  /\ dial = "ready" /\ at[Srv] = "ack" => Up # <<>> /\ Up[1].t = "ack"
  /\ WholeCalls
  /\ dial = "ready" => (Settled <=> \A k \in Calls : Begun(k) => end[k].sendClosed)
EndFacts ==
  /\ end[Srv].atEnd => end[Srv].half
  /\ at[Srv] \in {"greet", "ack"} => ~end[Srv].closed /\ ~end[Srv].half
  /\ \A k \in Calls : ~Begun(k) => ~end[k].sendClosed
  /\ events = 0 => \A k \in Calls : at[k] \notin {"data", "end"}

(* Down: what a call received, what waits in its inbox and what recvLoop   *)
(* has in hand are a prefix of what was sent for it; the rest is on the    *)
(* wire.                                                                   *)
Held(k) == IF end[k].loop \in {"push", "last"} THEN 1 ELSE 0
GotLen(k) == Len(got[k])
BoxLen(k) == Len(inbox[k])
Taken(k) == GotLen(k) + BoxLen(k) + Held(k)
Fails(f) == f.t \in {"eof", "err"}
GotOk(k) ==
  /\ \A i \in 1 .. Len(got[k]) :
       IF IsAnswer(got[k][i])
       THEN i <= Len(sent[k]) /\ got[k][i] = sent[k][i]
       ELSE /\ i = Len(got[k]) /\ inbox[k] = <<>> /\ Fails(got[k][i])
            /\ end[k].loop = "done" /\ ~end[k].term
  /\ end[k].loop = "off" => got[k] = <<>>
InboxOk(k) ==
  \A i \in 1 .. Len(inbox[k]) :
    IF IsAnswer(inbox[k][i])
    THEN GotLen(k) + i <= Len(sent[k]) /\ inbox[k][i] = sent[k][GotLen(k) + i]
    ELSE /\ i = Len(inbox[k]) /\ Fails(inbox[k][i])
         /\ end[k].loop = "done" /\ ~end[k].term
HeldOk(k) ==
  /\ end[k].loop \in {"push", "last"} =>
       Taken(k) <= Len(sent[k]) /\ end[k].item = sent[k][Taken(k)]
  /\ end[k].loop = "push" => end[k].item.t = "data"
  /\ end[k].loop \in {"last", "exit"} => end[k].term
TermOk(k) ==
  end[k].term => HasEnd(sent[k]) /\ (k \notin ctx => Taken(k) = Len(sent[k]))
WireOk(k) ==
  Last(k) /\ "C" \in conn =>
    /\ end[k].term => wire["C"] = <<>>
    /\ end[k].loop \in {"off", "read", "push"} =>
         /\ Taken(k) + Len(wire["C"]) = Len(sent[k])
         /\ \A i \in 1 .. Len(wire["C"]) : wire["C"][i] = sent[k][Taken(k) + i]
LogOk(k) == GotOk(k) /\ InboxOk(k) /\ HeldOk(k) /\ TermOk(k) /\ WireOk(k)
LogInv == \A k \in Calls : LogOk(k)

(* Up: the frames on their way to the server are the ack of the handshake, *)
(* then one OPEN at most, of the call opened last and before anything else *)
(* of it; what comes behind an OPEN or reaches a call that is being served *)
(* is of that call, unless a Send was overtaken by its Close.              *)
NoOpenUpTo(i) == \A j \in 1 .. i : wire["S"][j].t # "open"
FrameOk(i) ==
  LET f == wire["S"][i] IN
  /\ f.t \in {"ack", "open", "data", "end"}
  /\ f.t = "ack" => dial = "ready" /\ at[Srv] \in {"ack", "fail", "gone"} /\ i = 1
  /\ f.t = "open" =>
       /\ f.k \in Calls /\ Last(f.k) /\ Begun(f.k) /\ sent[f.k] = <<>> /\ cur # f.k
       /\ \A j \in 1 .. Len(wire["S"]) : wire["S"][j].t = "open" => j = i
       /\ ~late => \A j \in i + 1 .. Len(wire["S"]) :
                     wire["S"][j].k = f.k /\ wire["S"][j].t # "ack"
OpenOk == \A i \in 1 .. Len(wire["S"]) : FrameOk(i)
Mine ==
  ~late /\ "S" \in conn /\ cur # None =>
    \A i \in 1 .. Len(wire["S"]) : NoOpenUpTo(i) => wire["S"][i].k = cur
Served ==
  \A k \in Calls :
    "S" \in conn /\ Last(k) /\ Begun(k) /\ cur # None /\ NoOpenUpTo(Len(wire["S"])) => cur = k
Delivered ==
  ~late /\ cur # None =>
    /\ \A i \in 1 .. Len(inbox[Srv]) :
         inbox[Srv][i] \in {Failure("eof"), Failure("err")} \/ inbox[Srv][i].k = cur
    /\ end[Srv].loop \in {"push", "last"} => end[Srv].item.k = cur
UpInv == OpenOk /\ Mine /\ Served /\ Delivered

IInv ==
  /\ Types /\ CtlInv /\ CallInv /\ SentInv /\ HandOk /\ Quiet /\ LogInv /\ UpInv
  /\ ClientKept /\ EndFacts /\ (Calm => Order) /\ ServerKept

(* The call accepted is the one of the OPEN at the head of the wire. *)
LEMMA AcceptsCall ==
  ASSUME Types, OpenOk, AcceptCall
  PROVE  cur' \in Calls /\ wire["S"] # <<>> /\ cur' = wire["S"][1].k /\ wire["S"][1].t = "open"
<1>1. wire["S"] \in Stream /\ wire["S"] # <<>>
  BY DEF Types, WireTypes, Sides, AcceptCall, Arriving
<1>2. 1 \in 1 .. Len(wire["S"]) /\ Head(wire["S"]) = wire["S"][1]
  BY <1>1, Streams, Tails
<1>3. FrameOk(1)
  BY <1>2 DEF OpenOk
<1> QED
  BY <1>1, <1>2, <1>3 DEF FrameOk, AcceptCall, Arriving

(* Every step of the loops and of Close, at either end. *)
LEMMA CtlStep == Types /\ OpenOk /\ CtlInv /\ [Next]_vars => CtlInv'
<1> SUFFICES ASSUME Types, OpenOk, CtlInv, [Next]_vars PROVE CtlInv'
  OBVIOUS
<1> USE Ints DEF Types, AtTypes, InboxTypes, SrvPlaces, CtlInv, LoopOk, SrvOk, AtEnd,
                 OthersKept, LoopKept, ItemKept, CloseKept, Begun
<1>1. CASE ClientClose
  BY <1>1 DEF ClientClose, CloseSession, hist
<1>2. CASE ServerClose
  BY <1>2 DEF ServerClose, CloseSession, hist
<1>3. CASE Cut
  BY <1>3 DEF Cut, hist
<1>4. CASE ServerGreets
  BY <1>4 DEF ServerGreets, Goto, WriteFails, Writes, hist
<1>5. CASE ServerReadsAck
  BY <1>5 DEF ServerReadsAck, Goto, hist
<1>6. CASE ClientReadsGreeting
  BY <1>6 DEF ClientReadsGreeting, hist
<1>7. CASE ClientAcks
  BY <1>7 DEF ClientAcks, Writes, hist
<1>8. CASE HandshakeExpires
  BY <1>8 DEF HandshakeExpires, Goto, hist
<1>9. CASE ClosesFailed
  BY <1>9 DEF ClosesFailed, Goto, CloseSession, hist
<1>10. CASE AcceptCall
  <2>1. cur' \in Calls /\ None \notin Calls
    BY <1>10, AcceptsCall, SynthAssumption DEF Calls
  <2> QED
    BY <1>10, <2>1, AcceptEnd DEF AcceptCall, Goto, hist
<1>11. CASE AcceptFails
  BY <1>11 DEF AcceptFails, Goto, hist
<1>12. CASE ServerSend
  BY <1>12, ServerSendEnd DEF ServerSend, HandlerWrites, Writes, WriteFails
<1>13. CASE ServerFinish
  BY <1>13, ServerFinishEnd DEF ServerFinish, HandlerWrites, Writes, WriteFails, Goto
<1>14. ASSUME NEW k \in Calls, Expire(k) PROVE CtlInv'
  BY <1>14 DEF Expire, hist
<1>15. ASSUME NEW k \in Calls, OpenCall(k) PROVE CtlInv'
  BY <1>15 DEF OpenCall, Goto, hist
<1>16. ASSUME NEW k \in Calls, OpenWrites(k) PROVE CtlInv'
  <2>1. OthersKept(k) /\ CloseKept(k) /\ ItemKept(k)
    BY <1>16, OpenEnd
  <2>2. UNCHANGED <<ctx, inbox, cur>> /\ at[k] = "open"
    BY <1>16 DEF OpenWrites
  <2>3. /\ conn' = conn
        /\ \/ end'[k].loop = "read" /\ at' = [at EXCEPT ![k] = "user"]
           \/ end' = end /\ at' = [at EXCEPT ![k] = "dead"]
    BY <1>16, OpenEnd DEF Writes
  <2>9. k \in Ends /\ at \in [Ends -> SrvPlaces \cup CallPlaces]
    OBVIOUS
  <2> HIDE DEF Types, AtTypes, InboxTypes
  <2>4. /\ at'[Srv] = at[Srv]
        /\ \A j \in Calls : j # k => at'[j] = at[j]
        /\ \/ at'[k] = "user" /\ end'[k].loop = "read"
           \/ at'[k] = "dead" /\ end' = end
    BY <2>3, <2>9
  <2>5. SrvOk'
    BY <2>1, <2>2, <2>4
  <2>6. LoopOk(k)'
    BY <2>1, <2>2, <2>3, <2>4
  <2>7. ASSUME NEW x \in Ends, x # k PROVE LoopOk(x)'
    BY <2>1, <2>2, <2>3, <2>7
  <2>8. ASSUME NEW j \in Calls PROVE (end'[j].loop = "off" <=> ~Begun(j)')
    BY <2>1, <2>2, <2>4
  <2> QED
    BY <2>5, <2>6, <2>7, <2>8
<1>17. ASSUME NEW k \in Calls, Send(k) PROVE CtlInv'
  BY <1>17, SendEnd DEF Send, ClientWrites, Writes, WriteFails
<1>18. ASSUME NEW k \in Calls, HalfClose(k) PROVE CtlInv'
  BY <1>18, SendEnd DEF HalfClose, ClientWrites, Writes, WriteFails
<1>19. ASSUME NEW k \in Calls, SendPauses(k) PROVE CtlInv'
  <2>1. /\ OthersKept(k) /\ LoopKept(k) /\ CloseKept(k)
        /\ end'[k].item = end[k].item
        /\ end'[k].term <=> end[k].term
        /\ end'[k].half <=> end[k].half
    BY <1>19, SendEnd
  <2>2. UNCHANGED <<ctx, inbox, cur, conn>> /\ Begun(k)
    BY <1>19 DEF SendPauses, SendOpen, HalfOpen
  <2>3. /\ \A x \in Ends : x # k => at'[x] = at[x]
        /\ Begun(k)'
    BY <1>19 DEF SendPauses, Goto
  <2> HIDE DEF Types, AtTypes, InboxTypes
  <2> QED
    BY <2>1, <2>2, <2>3
<1>20. ASSUME NEW k \in Calls, SendResumes(k) PROVE CtlInv'
  BY <1>20 DEF SendResumes, Goto, WriteFails, Writes, ClientWrites
<1>21. ASSUME NEW k \in Calls, RecvEnds(k) PROVE CtlInv'
  BY <1>21 DEF RecvEnds
<1>22. ASSUME NEW x \in Ends, LoopReads(x) PROVE CtlInv'
  <2>1. UNCHANGED <<conn, at, ctx, cur>> /\ end[x].loop = "read"
    BY <1>22 DEF LoopReads
  <2> QED
    BY <1>22, <2>1, LoopReadsEnd DEF Reads
<1>23. ASSUME NEW x \in Ends, LoopReadsOpen(x) PROVE CtlInv'
  BY <1>23, LoopReadsOpenEnd DEF LoopReadsOpen, Push
<1>24. ASSUME NEW x \in Ends, LoopLost(x) PROVE CtlInv'
  <2>1. UNCHANGED <<at, ctx, cur>> /\ end[x].loop = "read"
    BY <1>24, LoopFailsEnd
  <2>2. conn' \subseteq conn /\ \A y \in Ends : y # x => inbox'[y] = inbox[y]
    BY <1>24, LoopFailsEnd DEF Push
  <2> QED
    BY <1>24, <2>1, <2>2, LoopFailsEnd
<1>25. ASSUME NEW x \in Ends, LoopPushes(x) PROVE CtlInv'
  <2>1. /\ OthersKept(x) /\ CloseKept(x) /\ end'[x].item = None
        /\ end'[x].half <=> end[x].half
        /\ end'[x].term <=> end[x].term
        /\ end'[x].loop = IF end[x].loop = "push" THEN "read" ELSE "exit"
    BY <1>25, LoopPushesEnd
  <2>2. UNCHANGED <<conn, at, ctx, cur>> /\ end[x].loop \in {"push", "last"}
    BY <1>25 DEF LoopPushes
  <2>3. \A y \in Ends : y # x => inbox'[y] = inbox[y]
    BY <1>25 DEF LoopPushes, Push
  <2> HIDE DEF Types, AtTypes, InboxTypes
  <2>4. LoopOk(x)'
    BY <2>1, <2>2
  <2> QED
    BY <2>1, <2>2, <2>3, <2>4
<1>26. ASSUME NEW x \in Ends, LoopCancelled(x) PROVE CtlInv'
  <2>1. UNCHANGED <<conn, at, ctx, inbox, cur>> /\ end[x].loop \in {"push", "last"}
    BY <1>26 DEF LoopCancelled
  <2> QED
    BY <1>26, <2>1, LoopCancelledEnd
<1>27. ASSUME NEW x \in Ends, LoopDone(x) PROVE CtlInv'
  BY <1>27, LoopDoneEnd DEF LoopDone
<1>28. ASSUME NEW x \in Ends, RecvTakes(x) PROVE CtlInv'
  BY <1>28 DEF RecvTakes
<1>29. ASSUME NEW x \in Ends, CloseStarts(x) PROVE CtlInv'
  <2>1. /\ OthersKept(x) /\ LoopKept(x) /\ ItemKept(x)
        /\ end'[x].closed /\ end'[x].closing = "cancelled"
        /\ end'[x].atEnd <=> AtEnd(x)
    BY <1>29, CloseStartsEnd
  <2>2. UNCHANGED <<conn, at, inbox, cur>> /\ ~end[x].closed /\ ctx' = ctx \cup {x}
        /\ (IF x = Srv THEN at[x] = "close" ELSE at[x] \notin {"new", "open", "dead"})
    BY <1>29 DEF CloseStarts
  <2> HIDE DEF Types, AtTypes, InboxTypes
  <2>3. end[x].loop # "off" /\ end[x].closing = "no"
    BY <2>2 DEF Ends
  <2>4. LoopOk(x)'
    BY <2>1, <2>2, <2>3
  <2>5. SrvOk'
    BY <2>1, <2>2
  <2> QED
    BY <2>1, <2>2, <2>4, <2>5
<1>30. ASSUME NEW x \in Ends, CloseAborts(x) PROVE CtlInv'
  <2>1. UNCHANGED <<at, ctx, inbox, cur>> /\ conn' = conn \ {SideOf(x)}
        /\ end[x].closing = "cancelled"
    BY <1>30 DEF CloseAborts
  <2> QED
    BY <1>30, <2>1, CloseAbortsEnd
<1>31. ASSUME NEW x \in Ends, CloseDetaches(x) PROVE CtlInv'
  <2>1. /\ UNCHANGED <<conn, ctx>> /\ end[x].closing \in {"cancelled", "wait"}
        /\ inbox' = [inbox EXCEPT ![x] = <<>>]
        /\ IF x = Srv THEN at' = [at EXCEPT ![x] = "idle"] /\ cur' = None
                      ELSE UNCHANGED <<at, cur>>
    BY <1>31 DEF CloseDetaches, Goto
  <2> QED
    BY <1>31, <2>1, DetachEnd
<1>32. CASE UNCHANGED vars
  BY <1>32 DEF vars
<1> QED
  BY <1>1, <1>2, <1>3, <1>4, <1>5, <1>6, <1>7, <1>8, <1>9, <1>10, <1>11, <1>12, <1>13, <1>14,
      <1>15, <1>16, <1>17, <1>18, <1>19, <1>20, <1>21, <1>22, <1>23, <1>24, <1>25, <1>26, <1>27,
      <1>28, <1>29, <1>30, <1>31, <1>32
  DEF Next, Loop, LoopLost, Close

(* What no step but those of opening and of Close does. *)
SessKept == (sess'["C"].inCall <=> sess["C"].inCall) /\ (Usable' => Usable)
CallKept ==
  /\ \A k \in Calls :
       /\ at'[k] = at[k] \/ (Begun(k) /\ Begun(k)')
       /\ end'[k].closing = end[k].closing /\ (end'[k].poison <=> end[k].poison)
       /\ end[k].term => end'[k].term
       /\ k \in ctx => k \in ctx'
  /\ SessKept

(* A session marked bad or closed does not become usable. *)
LEMMA SessionKept ==
  ASSUME Types, NEW s \in Sides,
         sess'["C"] = sess["C"] \/ sess' = MarkedBad(s) \/ CloseSession(s)
  PROVE  SessKept
<1>1. sess \in [Sides -> Session] /\ "C" \in Sides
  BY DEF Types, SessTypes, Sides
<1>2. sess["C"] \in Session
  BY <1>1
<1>3. CASE sess' = MarkedBad(s)
  <2>1. sess'["C"] = sess["C"] \/ sess'["C"] = [sess["C"] EXCEPT !.reusable = FALSE, !.ioError = TRUE]
    BY <1>1, <1>3 DEF MarkedBad
  <2> QED
    BY <1>2, <2>1 DEF SessKept, Usable, Session
<1>4. CASE CloseSession(s)
  <2>1. sess'["C"] = sess["C"] \/ sess'["C"] = [sess["C"] EXCEPT !.closed = TRUE, !.reusable = FALSE]
    BY <1>1, <1>4 DEF CloseSession
  <2> QED
    BY <1>2, <2>1 DEF SessKept, Usable, Session
<1> QED
  BY <1>3, <1>4 DEF SessKept, Usable

(* Steps that are not about opening and closing keep CallInv. *)
LEMMA CallsKept == CallInv /\ CallKept => CallInv'
<1> SUFFICES ASSUME CallInv, CallKept, NEW k \in Calls PROVE CallOk(k)'
  BY DEF CallInv
<1>1. \A j \in Calls : /\ at'[j] = "new" <=> at[j] = "new"
                       /\ at'[j] = "dead" <=> at[j] = "dead"
  BY DEF CallKept, Begun
<1> QED
  BY <1>1 DEF CallInv, CallKept, SessKept, CallOk, Holding, Last

(* What openCall does to the session. *)
LEMMA LendSession ==
  ASSUME Types, NEW k \in Calls, OpenCall(k)
  PROVE  /\ dial = "ready" /\ at[k] = "new" /\ (k > 1 => at[k - 1] # "new")
         /\ Usable /\ ~sess["C"].inCall /\ sess'["C"].inCall
         /\ at'[k] = "open" /\ \A x \in Ends : x # k => at'[x] = at[x]
         /\ UNCHANGED <<conn, wire, cut, dial, ctx, end, inbox, cur, sent, got, late, events>>
<1>1. PICK b \in {FALSE, (k \in Exclusives)} :
         sess' = [sess EXCEPT !["C"] = [@ EXCEPT !.inCall = TRUE, !.exclusive = b,
                                                 !.reusable = ~b]]
  BY DEF OpenCall
<1>2. sess["C"] \in Session /\ sess \in [Sides -> Session] /\ "C" \in Sides
  BY DEF Types, SessTypes, Sides
<1>3. sess'["C"] = [sess["C"] EXCEPT !.inCall = TRUE, !.exclusive = b, !.reusable = ~b]
  BY <1>1, <1>2
<1>4. sess'["C"].inCall = TRUE
  BY <1>2, <1>3 DEF Session
<1>5. k \in Ends /\ at \in [Ends -> SrvPlaces \cup CallPlaces]
  BY Ints DEF Types, AtTypes
<1>6. at'[k] = "open" /\ \A x \in Ends : x # k => at'[x] = at[x]
  BY <1>5 DEF OpenCall, Goto
<1> QED
  BY <1>4, <1>6 DEF OpenCall, Lendable, Usable, hist

(* What the detach of a Close does to the session. *)
LEMMA DetachSession ==
  ASSUME Types, NEW x \in Ends, CloseDetaches(x)
  PROVE  /\ end[x].closing \in {"cancelled", "wait"} /\ end[x].loop = "done"
         /\ UNCHANGED <<conn, wire, cut, dial, ctx, sent, got, late, events>>
         /\ x = Srv => UNCHANGED sess["C"]
         /\ x # Srv => /\ ~sess'["C"].inCall
                       /\ Usable' => Usable /\ ~(sess["C"].inCall /\ end[x].poison)
         /\ x # Srv => UNCHANGED <<at, cur>>
         /\ x = Srv => /\ at' = [at EXCEPT ![x] = "idle"] /\ cur' = None
         /\ inbox' = [inbox EXCEPT ![x] = <<>>]
<1> DEFINE s == SideOf(x)
           b == sess[s].reusable /\ ~(sess[s].inCall /\ end[x].poison)
<1>1. sess[s] \in Session /\ sess \in [Sides -> Session] /\ "C" \in Sides /\ s \in Sides
  BY DEF Types, SessTypes, Sides, SideOf
<1>2. sess' = [sess EXCEPT ![s] = [@ EXCEPT !.inCall = FALSE, !.reusable = b]]
  BY DEF CloseDetaches
<1>3. CASE x = Srv
  <2>1. sess'["C"] = sess["C"]
    BY <1>1, <1>2, <1>3 DEF SideOf
  <2> QED
    BY <1>3, <2>1 DEF CloseDetaches, Goto, hist
<1>4. CASE x # Srv
  <2>1. s = "C"
    BY <1>4 DEF SideOf
  <2>2. sess'["C"] = [sess["C"] EXCEPT !.inCall = FALSE, !.reusable = b]
    BY <1>1, <1>2, <2>1
  <2>3. /\ sess'["C"].inCall = FALSE /\ sess'["C"].reusable = b
        /\ sess'["C"].closed = sess["C"].closed /\ sess'["C"].ioError = sess["C"].ioError
        /\ sess'["C"].exclusive = sess["C"].exclusive
    BY <1>1, <2>1, <2>2 DEF Session
  <2> HIDE DEF b, s
  <2>4. b => sess["C"].reusable /\ ~(sess["C"].inCall /\ end[x].poison)
    BY <2>1 DEF b, s
  <2> QED
    BY <1>4, <2>3, <2>4 DEF CloseDetaches, Goto, hist, Usable
<1> QED
  BY <1>3, <1>4

(* Of two calls that are both the last, there is one. *)
LEMMA LastUnique ==
  ASSUME NEW j \in Calls, NEW k \in Calls, Last(j), Last(k)
  PROVE  j = k
<1>1. j \in Nat /\ k \in Nat /\ ~(j > k) /\ ~(k > j)
  BY DEF Last, Calls
<1> QED
  BY <1>1

(* The steps in which a call is opened, refused, closed or gives the        *)
(* connection back; no other touches what CallKept names.                  *)
Turns ==
  \/ \E k \in Calls : OpenCall(k) \/ OpenWrites(k) \/ CloseDetaches(k)
  \/ \E x \in Ends : CloseStarts(x) \/ CloseAborts(x)

(* A step is one of opening and closing, or keeps what CallKept names. *)
LEMMA CallsGoOn == Types /\ [Next]_vars => CallKept \/ Turns
<1> SUFFICES ASSUME Types, [Next]_vars PROVE CallKept \/ Turns
  OBVIOUS
<1>w. "C" \in Sides /\ "S" \in Sides /\ \A x \in Ends : SideOf(x) \in Sides
  BY DEF Sides, SideOf
<1>c. \A j \in Calls : j # Srv
  BY Ints
<1> USE <1>w, <1>c, Ints, SessionKept DEF ItemKept, CloseKept, OthersKept
<1>1. CASE ClientClose
  <2>1. SessKept
    BY <1>1 DEF ClientClose, hist
  <2>2. CallKept
    BY <1>1, <2>1 DEF CallKept, ClientClose, hist, Types, AtTypes
  <2> QED
    BY <2>2
<1>2. CASE ServerClose
  <2>1. SessKept
    BY <1>2 DEF ServerClose
  <2> QED
    BY <1>2, <2>1 DEF CallKept, ServerClose, hist
<1>3. CASE Cut
  <2>1. SessKept
    BY <1>3 DEF Cut, hist
  <2>2. CallKept
    BY <1>3, <2>1 DEF CallKept, Cut, hist, Types, AtTypes
  <2> QED
    BY <2>2
<1>4. CASE ServerGreets
  <2>1. SessKept
    BY <1>4 DEF ServerGreets, WriteFails, Writes, hist
  <2>2. CallKept
    BY <1>4, <2>1 DEF CallKept, ServerGreets, Goto, hist, Types, AtTypes
  <2> QED
    BY <2>2
<1>5. CASE ServerReadsAck
  <2>1. SessKept
    BY <1>5 DEF ServerReadsAck, hist
  <2>2. CallKept
    BY <1>5, <2>1 DEF CallKept, ServerReadsAck, Goto, hist, Types, AtTypes
  <2> QED
    BY <2>2
<1>6. CASE ClientReadsGreeting
  <2>1. SessKept
    BY <1>6 DEF ClientReadsGreeting, hist
  <2>2. CallKept
    BY <1>6, <2>1 DEF CallKept, ClientReadsGreeting, hist, Types, AtTypes
  <2> QED
    BY <2>2
<1>7. CASE ClientAcks
  <2>1. SessKept
    BY <1>7 DEF ClientAcks, Writes, hist
  <2>2. CallKept
    BY <1>7, <2>1 DEF CallKept, ClientAcks, hist, Types, AtTypes
  <2> QED
    BY <2>2
<1>8. CASE HandshakeExpires
  <2>1. SessKept
    BY <1>8 DEF HandshakeExpires, hist
  <2>2. CallKept
    BY <1>8, <2>1 DEF CallKept, HandshakeExpires, Goto, hist, Types, AtTypes
  <2> QED
    BY <2>2
<1>9. CASE ClosesFailed
  <2>1. SessKept
    BY <1>9 DEF ClosesFailed, hist
  <2>2. CallKept
    BY <1>9, <2>1 DEF CallKept, ClosesFailed, Goto, hist, Types, AtTypes
  <2> QED
    BY <2>2
<1>10. CASE AcceptCall
  <2>1. SessKept
    BY <1>10 DEF AcceptCall, Types, SessTypes
  <2>2. CallKept
    BY <1>10, <2>1, AcceptEnd DEF CallKept, AcceptCall, Goto, Types, AtTypes
  <2> QED
    BY <2>2
<1>11. CASE AcceptFails
  <2>1. SessKept
    BY <1>11 DEF AcceptFails, hist
  <2>2. CallKept
    BY <1>11, <2>1 DEF CallKept, AcceptFails, Goto, hist, Types, AtTypes
  <2> QED
    BY <2>2
<1>12. CASE ServerSend
  <2>1. SessKept
    BY <1>12 DEF ServerSend, WriteFails, Writes, HandlerWrites
  <2>2. CallKept
    BY <1>12, <2>1, ServerSendEnd DEF CallKept, ServerSend
  <2> QED
    BY <2>2
<1>13. CASE ServerFinish
  <2>1. SessKept
    BY <1>13 DEF ServerFinish, WriteFails, Writes, HandlerWrites
  <2>2. CallKept
    BY <1>13, <2>1, ServerFinishEnd DEF CallKept, ServerFinish, Goto, Types, AtTypes
  <2> QED
    BY <2>2
<1>14. ASSUME NEW k \in Calls, Expire(k) PROVE CallKept \/ Turns
  <2>1. SessKept
    BY <1>14 DEF Expire, hist
  <2>2. CallKept
    BY <1>14, <2>1 DEF CallKept, Expire, hist, Types, AtTypes
  <2> QED
    BY <2>2
<1>15. ASSUME NEW k \in Calls, OpenCall(k) PROVE CallKept \/ Turns
  BY <1>15 DEF Turns
<1>16. ASSUME NEW k \in Calls, OpenWrites(k) PROVE CallKept \/ Turns
  BY <1>16 DEF Turns
<1>17. ASSUME NEW k \in Calls, Send(k) PROVE CallKept \/ Turns
  <2>1. SessKept
    BY <1>17 DEF Send, WriteFails, Writes, ClientWrites
  <2>2. CallKept
    BY <1>17, <2>1, SendEnd DEF CallKept, Send, ClientWrites
  <2> QED
    BY <2>2
<1>18. ASSUME NEW k \in Calls, HalfClose(k) PROVE CallKept \/ Turns
  <2>1. SessKept
    BY <1>18 DEF HalfClose, WriteFails, Writes, ClientWrites
  <2>2. CallKept
    BY <1>18, <2>1, SendEnd DEF CallKept, HalfClose, ClientWrites
  <2> QED
    BY <2>2
<1>19. ASSUME NEW k \in Calls, SendPauses(k) PROVE CallKept \/ Turns
  <2>1. SessKept
    BY <1>19 DEF SendPauses
  <2>2. Begun(k) /\ at' \in {[at EXCEPT ![k] = "data"], [at EXCEPT ![k] = "end"]}
    BY <1>19 DEF SendPauses, SendOpen, HalfOpen, Begun, Goto
  <2>3. \A j \in Calls : at'[j] = at[j] \/ (Begun(j) /\ Begun(j)')
    BY <2>2 DEF Types, AtTypes, Begun
  <2>4. CallKept
    BY <1>19, <2>1, <2>3, SendEnd DEF CallKept, SendPauses
  <2> QED
    BY <2>4
<1>20. ASSUME NEW k \in Calls, SendResumes(k) PROVE CallKept \/ Turns
  <2>1. SessKept
    BY <1>20 DEF SendResumes, WriteFails, Writes, ClientWrites
  <2>2. Begun(k) /\ at' = [at EXCEPT ![k] = "user"]
    BY <1>20 DEF SendResumes, Begun, Goto
  <2>3. \A j \in Calls : at'[j] = at[j] \/ (Begun(j) /\ Begun(j)')
    BY <2>2 DEF Types, AtTypes, Begun
  <2>4. CallKept
    BY <1>20, <2>1, <2>3 DEF CallKept, SendResumes, ClientWrites
  <2> QED
    BY <2>4
<1>21. ASSUME NEW k \in Calls, RecvEnds(k) PROVE CallKept \/ Turns
  <2>1. SessKept
    BY <1>21 DEF RecvEnds
  <2>2. CallKept
    BY <1>21, <2>1 DEF CallKept, RecvEnds, Types, AtTypes
  <2> QED
    BY <2>2
<1>22. ASSUME NEW x \in Ends, LoopReads(x) PROVE CallKept \/ Turns
  <2>1. SessKept
    BY <1>22 DEF LoopReads
  <2>2. CallKept
    BY <1>22, <2>1, LoopReadsEnd DEF CallKept, LoopReads, Reads
  <2> QED
    BY <2>2
<1>23. ASSUME NEW x \in Ends, LoopReadsOpen(x) PROVE CallKept \/ Turns
  <2>1. SessKept
    BY <1>23 DEF LoopReadsOpen
  <2>2. CallKept
    BY <1>23, <2>1, LoopReadsOpenEnd DEF CallKept, LoopReadsOpen
  <2> QED
    BY <2>2
<1>24. ASSUME NEW x \in Ends, LoopLost(x) PROVE CallKept \/ Turns
  <2>1. SessKept
    BY <1>24, LoopFailsEnd
  <2>2. CallKept
    BY <1>24, <2>1, LoopFailsEnd DEF CallKept
  <2> QED
    BY <2>2
<1>25. ASSUME NEW x \in Ends, LoopPushes(x) PROVE CallKept \/ Turns
  <2>1. SessKept
    BY <1>25 DEF LoopPushes
  <2>2. CallKept
    BY <1>25, <2>1, LoopPushesEnd DEF CallKept, LoopPushes
  <2> QED
    BY <2>2
<1>26. ASSUME NEW x \in Ends, LoopCancelled(x) PROVE CallKept \/ Turns
  <2>1. SessKept
    BY <1>26 DEF LoopCancelled
  <2>2. CallKept
    BY <1>26, <2>1, LoopCancelledEnd DEF CallKept, LoopCancelled
  <2> QED
    BY <2>2
<1>27. ASSUME NEW x \in Ends, LoopDone(x) PROVE CallKept \/ Turns
  <2>1. SessKept
    BY <1>27 DEF LoopDone
  <2>2. CallKept
    BY <1>27, <2>1, LoopDoneEnd DEF CallKept, LoopDone
  <2> QED
    BY <2>2
<1>28. ASSUME NEW x \in Ends, RecvTakes(x) PROVE CallKept \/ Turns
  <2>1. SessKept
    BY <1>28 DEF RecvTakes
  <2>2. CallKept
    BY <1>28, <2>1 DEF CallKept, RecvTakes, Types, AtTypes
  <2> QED
    BY <2>2
<1>29. ASSUME NEW x \in Ends, CloseStarts(x) PROVE CallKept \/ Turns
  BY <1>29 DEF Turns
<1>30. ASSUME NEW x \in Ends, CloseAborts(x) PROVE CallKept \/ Turns
  BY <1>30 DEF Turns
<1>31. ASSUME NEW x \in Ends, CloseDetaches(x) PROVE CallKept \/ Turns
  <2>1. CASE x = Srv
    <3>1. SessKept
      BY <1>31, <2>1, DetachSession
    <3> QED
      BY <1>31, <2>1, <3>1, DetachSession, DetachEnd DEF CallKept, Types, AtTypes
  <2>2. CASE x # Srv
    BY <1>31, <2>2 DEF Turns, Ends
  <2> QED
    BY <2>1, <2>2
<1>32. CASE UNCHANGED vars
  <2>1. SessKept
    BY <1>32 DEF vars
  <2> QED
    BY <1>32, <2>1 DEF vars, CallKept
<1> QED
  BY <1>1, <1>2, <1>3, <1>4, <1>5, <1>6, <1>7, <1>8, <1>9, <1>10, <1>11, <1>12, <1>13, <1>14,
      <1>15, <1>16, <1>17, <1>18, <1>19, <1>20, <1>21, <1>22, <1>23, <1>24, <1>25, <1>26, <1>27,
      <1>28, <1>29, <1>30, <1>31, <1>32
  DEF Next, Loop, LoopLost, Close

(* Calls are opened and closed one at a time. *)
LEMMA CallStep == Types /\ CtlInv /\ CallInv /\ [Next]_vars => CallInv'
<1> SUFFICES ASSUME Types, CtlInv, CallInv, [Next]_vars PROVE CallInv'
  OBVIOUS
<1>c. \A j \in Calls : j # Srv
  BY Ints
<1> USE <1>c, Ints DEF ItemKept, CloseKept, OthersKept
<1>1. CASE CallKept
  BY <1>1, CallsKept
<1>2. ASSUME NEW k \in Calls, OpenCall(k) PROVE CallInv'
  <2>1. /\ at[k] = "new" /\ (k > 1 => at[k - 1] # "new")
        /\ Usable /\ ~sess["C"].inCall /\ sess'["C"].inCall
        /\ at'[k] = "open" /\ \A j \in Calls : j # k => at'[j] = at[j]
        /\ UNCHANGED <<end, ctx>>
    BY <1>2, LendSession
  <2>2. \A j \in Calls : j \in Nat /\ (j > k => at[j] = "new") /\ (j < k => at[j] # "new")
    BY <2>1 DEF CallInv, CallOk, Calls
  <2>3. ASSUME NEW j \in Calls, j # k PROVE CallOk(j)'
    <3>1. CallOk(j) /\ ~Holding(j) /\ at'[j] = at[j]
      BY <2>1, <2>3 DEF CallInv, CallOk
    <3>2. \A i \in Calls : i < j /\ at'[j] # "new" => at'[i] # "new"
      BY <2>1, <2>2, <3>1 DEF CallOk
    <3> QED
      BY <2>1, <3>1, <3>2 DEF CallOk, Holding
  <2>4. CallOk(k)'
    <3>1. Last(k)' /\ \A i \in Calls : i < k => at'[i] # "new"
      BY <2>1, <2>2 DEF Last
    <3>2. CallOk(k) /\ end'[k] = end[k] /\ end[k].closing = "no"
      BY <2>1 DEF CallInv, CtlInv, LoopOk, Begun
    <3> QED
      BY <2>1, <3>1, <3>2 DEF CallOk, Holding
  <2> QED
    BY <2>3, <2>4 DEF CallInv
<1>3. ASSUME NEW k \in Calls, OpenWrites(k) PROVE CallInv'
  <2>1. UNCHANGED ctx /\ at[k] = "open" /\ OthersKept(k) /\ CloseKept(k) /\ ItemKept(k)
    BY <1>3, OpenEnd DEF OpenWrites
  <2>2. \/ UNCHANGED sess /\ at' = [at EXCEPT ![k] = "user"]
        \/ sess'["C"].reusable = FALSE /\ at' = [at EXCEPT ![k] = "dead"]
    BY <1>3, OpenEnd DEF Writes
  <2>3. at'[k] \in {"user", "dead"} /\ \A j \in Calls : j # k => at'[j] = at[j]
    BY <2>2 DEF Types, AtTypes
  <2>4. \A j \in Calls : (at'[j] = "new" <=> at[j] = "new") /\ (Last(j)' <=> Last(j))
    BY <2>1, <2>3 DEF Last
  <2>5. CASE UNCHANGED sess /\ at' = [at EXCEPT ![k] = "user"]
    <3>1. at'[k] = "user"
      BY <2>5 DEF Types, AtTypes
    <3> HIDE DEF OthersKept, ItemKept
    <3>2. \A j \in Calls : /\ end'[j].closing = end[j].closing
                           /\ end'[j].term <=> end[j].term
                           /\ end'[j].poison <=> end[j].poison
                           /\ Holding(j)' <=> Holding(j)
      BY <2>1, <2>3, <3>1 DEF OthersKept, ItemKept, Holding
    <3> QED
      BY <2>1, <2>4, <2>5, <3>2 DEF CallInv, CallOk, Usable
  <2>6. CASE sess'["C"].reusable = FALSE /\ at' = [at EXCEPT ![k] = "dead"]
    <3>1. at'[k] = "dead" /\ ~Usable'
      BY <2>6 DEF Types, AtTypes, Usable
    <3>2. \A j \in Calls : /\ end'[j].closing = end[j].closing
                           /\ end'[j].term <=> end[j].term
                           /\ end'[j].poison <=> end[j].poison
      BY <2>1
    <3>3. \A j \in Calls : Holding(j) => j = k
      <4>1. end[k].closing # "done"
        BY <2>1 DEF CtlInv, LoopOk, Begun
      <4> QED
        BY <2>1, <4>1, LastUnique DEF CallInv, CallOk, Holding
    <3>4. \A j \in Calls : ~Holding(j)'
      BY <2>3, <3>1, <3>2, <3>3 DEF Holding
    <3> QED
      BY <2>1, <2>4, <3>1, <3>2, <3>4 DEF CallInv, CallOk
  <2> QED
    BY <2>2, <2>5, <2>6
<1>4. ASSUME NEW x \in Ends, CloseStarts(x) PROVE CallInv'
  <2>1. UNCHANGED <<sess, at>> /\ ctx' = ctx \cup {x} /\ end[x].closing = "no"
    BY <1>4 DEF CloseStarts, CtlInv, LoopOk
  <2>2. \A j \in Calls : end'[j].term <=> end[j].term
    BY <1>4, CloseStartsEnd
  <2>3. ASSUME NEW j \in Calls PROVE CallOk(j)'
    <3>1. CASE j = x
      <4>1. end'[x].closing = "cancelled" /\ (end'[x].poison <=> (x # Srv /\ ~end[x].term))
        BY <1>4, CloseStartsEnd
      <4> QED
        BY <2>1, <2>2, <3>1, <4>1 DEF CallInv, CallOk, Holding, Last, Usable
    <3>2. CASE j # x
      <4>1. end'[j] = end[j]
        BY <1>4, <3>2, CloseStartsEnd
      <4> QED
        BY <2>1, <4>1 DEF CallInv, CallOk, Holding, Last, Usable
    <3> QED
      BY <3>1, <3>2
  <2> QED
    BY <2>3 DEF CallInv
<1>5. ASSUME NEW x \in Ends, CloseAborts(x) PROVE CallInv'
  <2>1. UNCHANGED <<sess, at, ctx>> /\ end[x].closing = "cancelled"
    BY <1>5 DEF CloseAborts
  <2>2. ASSUME NEW j \in Calls PROVE CallOk(j)'
    <3>1. CASE j = x
      <4>1. end'[x].closing = "wait" /\ end'[x].poison /\ (end'[x].term <=> end[x].term)
        BY <1>5, CloseAbortsEnd
      <4> QED
        BY <2>1, <3>1, <4>1 DEF CallInv, CallOk, Holding, Last, Usable
    <3>2. CASE j # x
      <4>1. end'[j] = end[j]
        BY <1>5, <3>2, CloseAbortsEnd
      <4> QED
        BY <2>1, <4>1 DEF CallInv, CallOk, Holding, Last, Usable
    <3> QED
      BY <3>1, <3>2
  <2> QED
    BY <2>2 DEF CallInv
<1>6. ASSUME NEW k \in Calls, CloseDetaches(k) PROVE CallInv'
  <2>1. k \in Ends /\ k # Srv
    OBVIOUS
  <2>2. /\ UNCHANGED <<at, ctx>> /\ end[k].closing \in {"cancelled", "wait"}
        /\ Usable' => Usable /\ ~(sess["C"].inCall /\ end[k].poison)
        /\ end'[k].closing = "done" /\ (end'[k].term <=> end[k].term)
    BY <1>6, <2>1, DetachSession, DetachEnd
  <2>3. Begun(k) /\ k \in ctx
    BY <2>1, <2>2 DEF CtlInv, LoopOk
  <2>4. Holding(k)
    BY <2>2, <2>3 DEF Holding, Begun
  <2>5. ASSUME NEW j \in Calls, j # k PROVE CallOk(j)'
    <3>1. end'[j] = end[j] /\ CallOk(j)
      BY <1>6, <2>5, DetachEnd DEF CallInv
    <3>2. ~Holding(j)
      BY <2>1, <2>4, <2>5, LastUnique DEF CallInv, CallOk
    <3> QED
      BY <2>2, <3>1, <3>2 DEF CallOk, Holding
  <2>6. CallOk(k)'
    <3>1. CallOk(k)
      BY <2>1 DEF CallInv
    <3> QED
      BY <2>2, <2>3, <2>4, <3>1 DEF CallOk, Holding
  <2> QED
    BY <2>5, <2>6 DEF CallInv
<1> QED
  BY <1>1, <1>2, <1>3, <1>4, <1>5, <1>6, CallsGoOn DEF Turns

(* What no step but those of the handler, of opening and accepting does. *)
SentKept ==
  /\ at'[Srv] = "user" =>
       at[Srv] = "user" /\ UNCHANGED cur /\ end'[Srv].msgs = end[Srv].msgs
  /\ "S" \in conn' => "S" \in conn
  /\ cur' \in {cur, None} /\ UNCHANGED sent
  /\ \A k \in Calls : /\ at'[k] = "new" <=> at[k] = "new"
                      /\ at'[k] \in {"new", "open"} => at[k] \in {"new", "open"}

(* None is no call. *)
LEMMA NoneIsNoCall == \A k \in Calls : k # None
  BY SynthAssumption DEF Calls

(* Steps of others than the handler keep SentInv. *)
LEMMA SentsKept == SentInv /\ SentKept => SentInv'
<1> SUFFICES ASSUME SentInv, SentKept PROVE SentInv'
  OBVIOUS
<1>1. \A k \in Calls : Last(k)' <=> Last(k)
  BY DEF SentKept, Last
<1>2. Written'
  BY <1>1 DEF SentInv, SentKept, Written
<1>3. \A k \in Calls : SentOk(k)'
  BY NoneIsNoCall DEF SentInv, SentKept, SentOk
<1> QED
  BY <1>2, <1>3 DEF SentInv

(* A frame of the handler, on the wire or lost with the connection. *)
Spoken(f) ==
  \/ /\ "S" \in conn /\ ~cut /\ UNCHANGED <<conn, sess>>
     /\ sent' = [sent EXCEPT ![cur] = Append(@, f)]
     /\ wire'["S"] = wire["S"]
     /\ wire'["C"] = IF "C" \in conn THEN Append(wire["C"], f) ELSE wire["C"]
  \/ UNCHANGED <<sent, wire>> /\ sess' = MarkedBad("S") /\ conn' = conn \ {"S"}

(* A handler that writes adds to what was sent for its call, or its connection fails. *)
LEMMA HandlerSpeaks ==
  ASSUME Types, NEW f, Says(f)
  PROVE  Spoken(f)
<1>1. wire \in [Sides -> Stream] /\ "C" \in Sides /\ "S" \in Sides
  BY DEF Types, WireTypes, Sides
<1>2. CASE Writes("S", f) /\ sent' = [sent EXCEPT ![cur] = Append(@, f)]
  <2>1. wire' = [wire EXCEPT !["C"] = IF "C" \in conn THEN Append(@, f) ELSE @]
    BY <1>2 DEF Writes, Peer
  <2>2. "S" \in conn /\ ~cut /\ UNCHANGED <<conn, sess>>
    BY <1>2 DEF Writes, Dead
  <2> QED
    BY <1>1, <1>2, <2>1, <2>2 DEF Spoken
<1>3. CASE ~Writes("S", f) \/ sent' # [sent EXCEPT ![cur] = Append(@, f)]
  BY <1>3 DEF Says, HandlerWrites, WriteFails, Spoken
<1> QED
  BY <1>2, <1>3

(* The handler's frame keeps the account of what was sent. *)
LEMMA SentGrows ==
  ASSUME Types, SentInv, at[Srv] = "user", NEW f \in Frames, Spoken(f), "S" \in conn',
         \/ f = Frame("data", cur, Len(sent[cur]) + 1) /\ Len(sent[cur]) + 1 <= MaxDown[cur]
         \/ f = Frame("status", cur, 0)
  PROVE  /\ sent'[cur] = Append(sent[cur], f) /\ Len(sent'[cur]) = Len(sent[cur]) + 1
         /\ sent[cur] \in Stream
         /\ HasEnd(sent'[cur]) <=> f.t = "status"
         /\ \A k \in Calls : k # cur => sent'[k] = sent[k]
         /\ UNCHANGED cur /\ (\A k \in Calls : at'[k] = at[k]) => \A k \in Calls : SentOk(k)'
<1>1. cur \in Calls /\ sent \in [Calls -> Stream] /\ sent[cur] \in Stream /\ Last(cur)
  BY DEF SentInv, Written, Types, LogTypes
<1>2. sent' = [sent EXCEPT ![cur] = Append(@, f)]
  BY DEF Spoken
<1>3. sent'[cur] = Append(sent[cur], f) /\ \A k \in Calls : k # cur => sent'[k] = sent[k]
  BY <1>1, <1>2
<1>4. HasEnd(sent'[cur]) <=> f.t = "status"
  BY <1>1, <1>3, Appends DEF HasEnd
<1>5. ~HasEnd(sent[cur])
  BY DEF SentInv, Written
<1>6. ASSUME NEW i \in 1 .. Len(sent'[cur])
      PROVE  \/ sent'[cur][i] = Frame("data", cur, i) /\ i <= MaxDown[cur]
             \/ sent'[cur][i] = Frame("status", cur, 0) /\ i = Len(sent'[cur])
  <2>1. Len(sent'[cur]) = Len(sent[cur]) + 1 /\ Len(sent[cur]) \in Nat
    BY <1>1, <1>3, Appends, Streams
  <2>2. CASE i = Len(sent[cur]) + 1
    BY <1>1, <1>3, <2>1, <2>2, Appends
  <2>3. CASE i # Len(sent[cur]) + 1
    <3>1. i \in 1 .. Len(sent[cur]) /\ sent'[cur][i] = sent[cur][i]
      BY <1>1, <1>3, <2>1, <2>3, Appends
    <3>2. \/ sent[cur][i] = Frame("data", cur, i) /\ i <= MaxDown[cur]
          \/ sent[cur][i] = Frame("status", cur, 0) /\ i = Len(sent[cur])
      BY <1>1, <3>1 DEF SentInv, SentOk
    <3>3. ~(sent[cur][i] = Frame("status", cur, 0) /\ i = Len(sent[cur]))
      BY <1>1, <1>5, <3>1, Streams DEF HasEnd, Frame
    <3> QED
      BY <3>1, <3>2, <3>3
  <2> QED
    BY <2>2, <2>3
<1>7. ASSUME UNCHANGED cur, \A k \in Calls : at'[k] = at[k], NEW k \in Calls
      PROVE  SentOk(k)'
  <2>1. at[cur] \notin {"new", "open"}
    BY <1>1 DEF SentInv, SentOk
  <2>2. CASE k = cur
    BY <1>1, <1>6, <1>7, <2>1, <2>2 DEF SentOk
  <2>3. CASE k # cur
    BY <1>3, <1>7, <2>3 DEF SentInv, SentOk
  <2> QED
    BY <2>2, <2>3
<1> QED
  BY <1>1, <1>3, <1>4, <1>7, Appends

(* The handler writes for the call opened last, and its STATUS last. *)
LEMMA SentStep ==
  Types /\ CtlInv /\ CallInv /\ SentInv /\ LogInv /\ OpenOk /\ [Next]_vars => SentInv'
<1> SUFFICES ASSUME Types, CtlInv, CallInv, SentInv, LogInv, OpenOk, [Next]_vars PROVE SentInv'
  OBVIOUS
<1>c. /\ \A j \in Calls : j # Srv
      /\ Srv \in Ends /\ \A j \in Calls : j \in Ends
      /\ at \in [Ends -> SrvPlaces \cup CallPlaces]
  BY Ints DEF Types, AtTypes
<1> USE <1>c, SentsKept
<1>1. CASE ClientClose
  <2>1. SentKept
    BY <1>1 DEF SentKept, ClientClose, hist, CloseSession
  <2> QED
    BY <2>1
<1>2. CASE ServerClose
  <2>1. SentKept
    BY <1>2 DEF SentKept, ServerClose, hist, CloseSession
  <2> QED
    BY <2>1
<1>3. CASE Cut
  <2>1. SentKept
    BY <1>3 DEF SentKept, Cut, hist
  <2> QED
    BY <2>1
<1>4. CASE ServerGreets
  <2>1. SentKept
    BY <1>4 DEF SentKept, ServerGreets, Goto, hist, Writes, WriteFails
  <2> QED
    BY <2>1
<1>5. CASE ServerReadsAck
  <2>1. SentKept
    BY <1>5 DEF SentKept, ServerReadsAck, Goto, hist
  <2> QED
    BY <2>1
<1>6. CASE ClientReadsGreeting
  <2>1. SentKept
    BY <1>6 DEF SentKept, ClientReadsGreeting, hist
  <2> QED
    BY <2>1
<1>7. CASE ClientAcks
  <2>1. SentKept
    BY <1>7 DEF SentKept, ClientAcks, hist, Writes
  <2> QED
    BY <2>1
<1>8. CASE HandshakeExpires
  <2>1. SentKept
    BY <1>8 DEF SentKept, HandshakeExpires, Goto, hist
  <2> QED
    BY <2>1
<1>9. CASE ClosesFailed
  <2>1. SentKept
    BY <1>9 DEF SentKept, ClosesFailed, Goto, hist, CloseSession
  <2> QED
    BY <2>1
<1>10. CASE AcceptCall
  <2>1. /\ cur' \in Calls /\ wire["S"] # <<>> /\ cur' = wire["S"][1].k
        /\ wire["S"][1].t = "open" /\ wire["S"] \in Stream
    BY <1>10, AcceptsCall DEF Types, WireTypes, Sides
  <2>2. 1 \in 1 .. Len(wire["S"])
    BY <2>1, Streams
  <2>3. PICK k \in Calls : k = cur' /\ Last(k) /\ Begun(k) /\ sent[k] = <<>>
    BY <2>1, <2>2 DEF OpenOk, FrameOk
  <2>4. UNCHANGED sent /\ end'[Srv].msgs = 0 /\ \A j \in Calls : at'[j] = at[j]
    BY <1>10, AcceptEnd DEF AcceptCall, Goto, hist
  <2>5. Last(k)'
    BY <2>3, <2>4 DEF Last
  <2>6. Written'
    BY <2>3, <2>4, <2>5, Streams DEF Written, HasEnd, Last
  <2>7. \A j \in Calls : SentOk(j)'
    BY <2>3, <2>4 DEF SentInv, SentOk, Begun
  <2> QED
    BY <2>6, <2>7 DEF SentInv
<1>11. CASE AcceptFails
  <2>1. SentKept
    BY <1>11 DEF SentKept, AcceptFails, Goto, hist
  <2> QED
    BY <2>1
<1>12. CASE ServerSend
  <2> DEFINE f == Frame("data", cur, end[Srv].msgs + 1)
  <2>1. /\ at[Srv] = "user" /\ UNCHANGED <<at, cur>> /\ end[Srv].msgs < MaxDown[cur]
        /\ Says(f) /\ cur \in Calls /\ end[Srv].msgs \in Nat
    BY <1>12 DEF Says, ServerSend, SentInv, Written, Types, EndTypes, End, EndRecord
  <2>2. f \in Frames /\ Spoken(f) /\ end'[Srv].msgs = end[Srv].msgs + 1
    BY <1>12, <2>1, FrameType, HandlerSpeaks, ServerSendEnd DEF Tags
  <2>3. CASE "S" \in conn'
    <3>1. "S" \in conn /\ Len(sent[cur]) = end[Srv].msgs
      BY <2>1, <2>2, <2>3 DEF Spoken, SentInv, Written
    <3>2. MaxDown[cur] \in Nat
      BY <2>1, SynthAssumption DEF Calls
    <3>3. /\ Len(sent'[cur]) = Len(sent[cur]) + 1 /\ ~HasEnd(sent'[cur])
          /\ \A j \in Calls : SentOk(j)'
      BY <2>1, <2>2, <2>3, <3>1, <3>2, SentGrows DEF Frame
    <3>4. Written'
      BY <2>1, <2>2, <3>1, <3>3 DEF SentInv, Written, Last
    <3> QED
      BY <3>3, <3>4 DEF SentInv
  <2>4. CASE "S" \notin conn'
    <3>1. UNCHANGED sent
      BY <2>2, <2>4 DEF Spoken
    <3> QED
      BY <2>1, <2>4, <3>1 DEF SentInv, Written, SentOk, Last
  <2> QED
    BY <2>3, <2>4
<1>13. CASE ServerFinish
  <2> DEFINE f == Frame("status", cur, 0)
  <2>1. /\ at[Srv] = "user" /\ at' = [at EXCEPT ![Srv] = "close"] /\ UNCHANGED cur
        /\ Says(f) /\ cur \in Calls
    BY <1>13 DEF Says, ServerFinish, Goto, SentInv, Written
  <2>2. f \in Frames /\ Spoken(f)
    BY <2>1, FrameType, HandlerSpeaks DEF Tags
  <2>3. Written' /\ \A j \in Calls : at'[j] = at[j]
    BY <2>1 DEF Written
  <2>4. \A j \in Calls : SentOk(j)'
    <3>1. CASE "S" \in conn'
      BY <2>1, <2>2, <2>3, <3>1, SentGrows
    <3>2. CASE "S" \notin conn'
      BY <2>1, <2>2, <2>3, <3>2 DEF Spoken, SentInv, SentOk
    <3> QED
      BY <3>1, <3>2
  <2> QED
    BY <2>3, <2>4 DEF SentInv
<1>14. ASSUME NEW k \in Calls, Expire(k) PROVE SentInv'
  <2>1. SentKept
    BY <1>14 DEF SentKept, Expire, hist
  <2> QED
    BY <2>1
<1>15. ASSUME NEW k \in Calls, OpenCall(k) PROVE SentInv'
  <2>1. at[Srv] # "user"
    <3>1. SUFFICES ASSUME at[Srv] = "user" PROVE FALSE
      OBVIOUS
    <3>2. cur \in Calls /\ at[cur] # "new" /\ ~HasEnd(sent[cur])
      BY <3>1 DEF SentInv, Written, Last
    <3>3. ~Holding(cur) /\ Usable
      BY <1>15, <3>2, LendSession DEF CallInv, CallOk
    <3> QED
      BY <3>2, <3>3 DEF CallInv, CallOk, LogInv, LogOk, TermOk
  <2>2. at'[Srv] # "user"
    BY <1>15, <2>1, LendSession
  <2>3. \A j \in Calls : at'[j] \in {"new", "open"} => at[j] \in {"new", "open"}
    BY <1>15, LendSession
  <2> QED
    BY <1>15, <2>2, <2>3, LendSession DEF SentInv, SentOk, Written
<1>16. ASSUME NEW k \in Calls, OpenWrites(k) PROVE SentInv'
  <2>1. UNCHANGED <<cur, sent>> /\ at[k] = "open" /\ conn' = conn /\ OthersKept(k)
    BY <1>16, OpenEnd DEF OpenWrites, Writes, hist
  <2>2. at' \in {[at EXCEPT ![k] = "user"], [at EXCEPT ![k] = "dead"]}
    BY <1>16, OpenEnd
  <2>3. at'[Srv] = at[Srv] /\ \A j \in Calls : at'[j] = at[j] \/ (j = k /\ at'[j] \in {"user", "dead"})
    BY <2>2
  <2>4. SentKept
    BY <2>1, <2>3 DEF SentKept, OthersKept
  <2> QED
    BY <2>4
<1>17. ASSUME NEW k \in Calls, Send(k) PROVE SentInv'
  <2>1. SentKept
    BY <1>17, SendEnd DEF SentKept, OthersKept, Send, Writes, WriteFails, ClientWrites
  <2> QED
    BY <2>1
<1>18. ASSUME NEW k \in Calls, HalfClose(k) PROVE SentInv'
  <2>1. SentKept
    BY <1>18, SendEnd DEF SentKept, OthersKept, HalfClose, Writes, WriteFails, ClientWrites
  <2> QED
    BY <2>1
<1>19. ASSUME NEW k \in Calls, SendPauses(k) PROVE SentInv'
  <2>1. SentKept
    BY <1>19, SendEnd DEF SentKept, OthersKept, SendPauses, SendOpen, HalfOpen, Goto, hist
  <2> QED
    BY <2>1
<1>20. ASSUME NEW k \in Calls, SendResumes(k) PROVE SentInv'
  <2>1. SentKept
    BY <1>20 DEF SentKept, SendResumes, Goto, Writes, WriteFails, ClientWrites
  <2> QED
    BY <2>1
<1>21. ASSUME NEW k \in Calls, RecvEnds(k) PROVE SentInv'
  <2>1. SentKept
    BY <1>21 DEF SentKept, RecvEnds
  <2> QED
    BY <2>1
<1>22. ASSUME NEW x \in Ends, LoopReads(x) PROVE SentInv'
  <2>1. SentKept
    BY <1>22, LoopReadsEnd DEF SentKept, OthersKept, LoopReads, Reads, hist
  <2> QED
    BY <2>1
<1>23. ASSUME NEW x \in Ends, LoopReadsOpen(x) PROVE SentInv'
  <2>1. SentKept
    BY <1>23, LoopReadsOpenEnd DEF SentKept, OthersKept, ItemKept, LoopReadsOpen, hist
  <2> QED
    BY <2>1
<1>24. ASSUME NEW x \in Ends, LoopLost(x) PROVE SentInv'
  <2>1. conn' \subseteq conn
    BY <1>24, LoopFailsEnd
  <2>2. SentKept
    BY <1>24, <2>1, LoopFailsEnd DEF SentKept, OthersKept, ItemKept
  <2> QED
    BY <2>2
<1>25. ASSUME NEW x \in Ends, LoopPushes(x) PROVE SentInv'
  <2>1. SentKept
    BY <1>25, LoopPushesEnd DEF SentKept, OthersKept, ItemKept, LoopPushes, hist
  <2> QED
    BY <2>1
<1>26. ASSUME NEW x \in Ends, LoopCancelled(x) PROVE SentInv'
  <2>1. SentKept
    BY <1>26, LoopCancelledEnd DEF SentKept, OthersKept, ItemKept, LoopCancelled, hist
  <2> QED
    BY <2>1
<1>27. ASSUME NEW x \in Ends, LoopDone(x) PROVE SentInv'
  <2>1. SentKept
    BY <1>27, LoopDoneEnd DEF SentKept, OthersKept, ItemKept, LoopDone, hist
  <2> QED
    BY <2>1
<1>28. ASSUME NEW x \in Ends, RecvTakes(x) PROVE SentInv'
  <2>1. SentKept
    BY <1>28 DEF SentKept, RecvTakes
  <2> QED
    BY <2>1
<1>29. ASSUME NEW x \in Ends, CloseStarts(x) PROVE SentInv'
  <2>1. SentKept
    BY <1>29, CloseStartsEnd DEF SentKept, OthersKept, ItemKept, CloseStarts, hist
  <2> QED
    BY <2>1
<1>30. ASSUME NEW x \in Ends, CloseAborts(x) PROVE SentInv'
  <2>1. SentKept
    BY <1>30, CloseAbortsEnd DEF SentKept, OthersKept, ItemKept, CloseAborts, hist
  <2> QED
    BY <2>1
<1>31. ASSUME NEW x \in Ends, CloseDetaches(x) PROVE SentInv'
  <2>1. SentKept
    BY <1>31, DetachSession, DetachEnd DEF SentKept, OthersKept, CtlInv, SrvOk
  <2> QED
    BY <2>1
<1>32. CASE UNCHANGED vars
  <2>1. SentKept
    BY <1>32 DEF vars, SentKept
  <2> QED
    BY <2>1
<1> QED
  BY <1>1, <1>2, <1>3, <1>4, <1>5, <1>6, <1>7, <1>8, <1>9, <1>10, <1>11, <1>12, <1>13, <1>14,
      <1>15, <1>16, <1>17, <1>18, <1>19, <1>20, <1>21, <1>22, <1>23, <1>24, <1>25, <1>26, <1>27,
      <1>28, <1>29, <1>30, <1>31, <1>32
  DEF Next, Loop, LoopLost, Close

(* A step of a call or of the server's call, with the handshake over. *)
LEMMA HandsKept ==
  ASSUME HandOk, UNCHANGED dial, dial = "ready", at'[Srv] # "greet",
         (\A k \in Calls : at'[k] = "new") =>
            (\A k \in Calls : at[k] = "new") /\ wire'["C"] = wire["C"]
  PROVE  HandOk'
BY DEF HandOk

\* The end x has a stream.
HasStream(x) == IF x = Srv THEN at[x] \in {"user", "close"} ELSE Begun(x)

(* An end with a stream lives behind the handshake. *)
LEMMA HandshakeOver ==
  ASSUME HandOk, NEW x \in Ends, HasStream(x)
  PROVE  dial = "ready" /\ at[Srv] # "greet"
BY DEF HandOk, HasStream, Begun, Ends

(* An end whose recvLoop or Close runs has a stream. *)
LEMMA Looping ==
  ASSUME CtlInv, NEW x \in Ends,
         end[x].loop \in {"read", "push", "last", "exit"} \/ end[x].closing \in {"cancelled", "wait"}
  PROVE  HasStream(x)
<1>1. CASE x = Srv
  BY <1>1 DEF CtlInv, SrvOk, HasStream
<1>2. CASE x # Srv
  BY <1>2 DEF CtlInv, LoopOk, HasStream, Ends
<1> QED
  BY <1>1, <1>2

(* Every step keeps the account of the handshake. *)
LEMMA HandStep ==
  Types /\ CtlInv /\ SentInv /\ HandOk /\ OpenOk /\ [Next]_vars => HandOk'
<1> SUFFICES ASSUME Types, CtlInv, SentInv, HandOk, OpenOk, [Next]_vars PROVE HandOk'
  OBVIOUS
<1>c. /\ \A j \in Calls : j # Srv
      /\ Srv \in Ends /\ \A j \in Calls : j \in Ends
      /\ at \in [Ends -> SrvPlaces \cup CallPlaces]
      /\ wire \in [Sides -> Stream] /\ "C" \in Sides /\ "S" \in Sides
  BY Ints DEF Types, AtTypes, WireTypes, Sides
<1> USE <1>c, HandsKept
<1>1. CASE ClientClose
  BY <1>1 DEF HandOk, ClientClose, hist
<1>2. CASE ServerClose
  BY <1>2 DEF HandOk, ServerClose, hist
<1>3. CASE Cut
  BY <1>3 DEF HandOk, Cut, hist
<1>4. CASE ServerGreets
  <2>1. /\ at[Srv] = "greet" /\ wire["C"] = <<>> /\ dial \notin {"ack", "ready"} /\ UNCHANGED dial
        /\ at' \in {[at EXCEPT ![Srv] = "ack"], [at EXCEPT ![Srv] = "fail"]}
    BY <1>4 DEF ServerGreets, HandOk, Goto
  <2>2. at'[Srv] \in {"ack", "fail"} /\ \A j \in Calls : at'[j] = at[j]
    BY <2>1
  <2>3. Frame("greeting", None, 0) \in Frames
    BY FrameType DEF Tags
  <2>4. Len(wire'["C"]) <= 1 /\ wire'["S"] = wire["S"]
    <3>1. CASE Writes("S", Frame("greeting", None, 0))
      <4>1. \/ wire'["C"] = wire["C"]
            \/ wire'["C"] = Append(wire["C"], Frame("greeting", None, 0))
        BY <3>1 DEF Writes, Peer
      <4>2. wire'["S"] = wire["S"]
        BY <3>1 DEF Writes, Peer
      <4>3. Len(wire["C"]) = 0
        BY <2>1, Streams
      <4>4. Len(Append(wire["C"], Frame("greeting", None, 0))) = Len(wire["C"]) + 1
        BY <2>3, Appends
      <4> QED
        BY <4>1, <4>2, <4>3, <4>4
    <3>2. CASE WriteFails("S")
      BY <2>1, <3>2, Streams DEF WriteFails
    <3> QED
      BY <1>4, <3>1, <3>2 DEF ServerGreets
  <2> QED
    BY <2>1, <2>2, <2>4 DEF HandOk
<1>5. CASE ServerReadsAck
  <2>1. /\ at[Srv] = "ack" /\ UNCHANGED dial /\ wire'["C"] = wire["C"]
        /\ \A j \in Calls : at'[j] = at[j]
    BY <1>5 DEF ServerReadsAck, Goto
  <2>2. CASE Arriving("S", "ack") /\ at' = [at EXCEPT ![Srv] = "idle"]
    <3>1. wire["S"] # <<>> /\ wire["S"][1].t = "ack"
      BY <2>2, Tails DEF Arriving
    <3>2. 1 \in 1 .. Len(wire["S"])
      BY <3>1, Streams
    <3>3. dial = "ready"
      BY <3>1, <3>2 DEF OpenOk, FrameOk
    <3> QED
      BY <2>1, <2>2, <3>3
  <2>3. CASE at' = [at EXCEPT ![Srv] = "fail"] /\ UNCHANGED wire
    BY <2>1, <2>3 DEF HandOk
  <2> QED
    BY <1>5, <2>2, <2>3 DEF ServerReadsAck, Goto
<1>6. CASE ClientReadsGreeting
  <2>1. CASE dial' = "ack" /\ Arriving("C", "greeting") /\ wire' = [wire EXCEPT !["C"] = Tail(@)]
    <3>1. wire["C"] # <<>> /\ Len(wire["C"]) <= 1 /\ at[Srv] # "greet" /\ wire["S"] = <<>>
      BY <1>6, <2>1 DEF Arriving, HandOk, ClientReadsGreeting
    <3>2. wire'["C"] = Tail(wire["C"]) /\ wire'["S"] = wire["S"]
      BY <2>1
    <3>3. wire'["C"] = <<>>
      BY <3>1, <3>2, Tails, Streams
    <3> QED
      BY <1>6, <2>1, <3>1, <3>2, <3>3 DEF ClientReadsGreeting, HandOk, hist
  <2>2. CASE dial' = "fail" /\ UNCHANGED wire
    BY <1>6, <2>2 DEF ClientReadsGreeting, HandOk, hist
  <2> QED
    BY <1>6, <2>1, <2>2 DEF ClientReadsGreeting
<1>7. CASE ClientAcks
  <2>1. wire'["C"] = wire["C"]
    BY <1>7 DEF ClientAcks, Writes, Peer
  <2> QED
    BY <1>7, <2>1 DEF ClientAcks, HandOk, hist
<1>8. CASE HandshakeExpires
  BY <1>8 DEF HandOk, HandshakeExpires, Goto, hist
<1>9. CASE ClosesFailed
  BY <1>9 DEF HandOk, ClosesFailed, Goto, hist
<1>10. CASE AcceptCall
  <2>1. dial = "ready" /\ wire'["C"] = wire["C"] /\ UNCHANGED dial
    BY <1>10 DEF HandOk, AcceptCall
  <2>2. at'[Srv] = "user" /\ \A j \in Calls : at'[j] = at[j]
    BY <1>10 DEF AcceptCall, Goto
  <2> QED
    BY <2>1, <2>2
<1>11. CASE AcceptFails
  BY <1>11 DEF HandOk, AcceptFails, Goto, hist
<1>12. CASE ServerSend
  <2>1. at[Srv] = "user" /\ UNCHANGED dial /\ at'[Srv] # "greet" /\ \A j \in Calls : at'[j] = at[j]
    BY <1>12 DEF Says, ServerSend
  <2>2. dial = "ready" /\ cur \in Calls /\ at[cur] # "new"
    BY <2>1 DEF HandOk, SentInv, Written, Last
  <2> QED
    BY <2>1, <2>2
<1>13. CASE ServerFinish
  <2>1. at[Srv] = "user" /\ UNCHANGED dial /\ at'[Srv] # "greet" /\ \A j \in Calls : at'[j] = at[j]
    BY <1>13 DEF Says, ServerFinish, Goto
  <2>2. dial = "ready" /\ cur \in Calls /\ at[cur] # "new"
    BY <2>1 DEF HandOk, SentInv, Written, Last
  <2> QED
    BY <2>1, <2>2
<1>14. ASSUME NEW k \in Calls, Expire(k) PROVE HandOk'
  BY <1>14 DEF HandOk, Expire, hist
<1>15. ASSUME NEW k \in Calls, OpenCall(k) PROVE HandOk'
  <2>1. dial = "ready" /\ UNCHANGED dial /\ at'[Srv] = at[Srv] /\ at'[k] = "open"
    BY <1>15, LendSession
  <2>2. at[Srv] # "greet"
    BY <2>1 DEF HandOk
  <2> QED
    BY <2>1, <2>2
<1>16. ASSUME NEW k \in Calls, OpenWrites(k) PROVE HandOk'
  <2>1. at[k] = "open" /\ UNCHANGED dial
    BY <1>16 DEF OpenWrites
  <2>2. at' \in {[at EXCEPT ![k] = "user"], [at EXCEPT ![k] = "dead"]}
    BY <1>16, OpenEnd
  <2>3. at'[k] # "new" /\ at'[Srv] = at[Srv] /\ dial = "ready" /\ at[Srv] # "greet"
    BY <2>1, <2>2 DEF HandOk
  <2> QED
    BY <2>1, <2>3
<1>17. ASSUME NEW k \in Calls, Send(k) PROVE HandOk'
  <2>1. at[k] = "user" /\ UNCHANGED <<dial, at>>
    BY <1>17 DEF Send, SendOpen, ClientWrites
  <2>2. dial = "ready" /\ at[Srv] # "greet"
    BY <2>1 DEF HandOk
  <2> QED
    BY <2>1, <2>2
<1>18. ASSUME NEW k \in Calls, HalfClose(k) PROVE HandOk'
  <2>1. at[k] = "user" /\ UNCHANGED <<dial, at>>
    BY <1>18 DEF HalfClose, HalfOpen, ClientWrites
  <2>2. dial = "ready" /\ at[Srv] # "greet"
    BY <2>1 DEF HandOk
  <2> QED
    BY <2>1, <2>2
<1>19. ASSUME NEW k \in Calls, SendPauses(k) PROVE HandOk'
  <2>1. at[k] = "user" /\ UNCHANGED dial
    BY <1>19 DEF SendPauses, SendOpen, HalfOpen
  <2>2. at'[k] # "new" /\ at'[Srv] = at[Srv] /\ dial = "ready" /\ at[Srv] # "greet"
    BY <1>19, <2>1 DEF HandOk, SendPauses, Goto
  <2> QED
    BY <2>1, <2>2
<1>20. ASSUME NEW k \in Calls, SendResumes(k) PROVE HandOk'
  <2>1. at[k] # "new" /\ UNCHANGED dial
    BY <1>20 DEF SendResumes, ClientWrites
  <2>2. at'[k] # "new" /\ at'[Srv] = at[Srv] /\ dial = "ready" /\ at[Srv] # "greet"
    BY <1>20, <2>1 DEF HandOk, SendResumes, Goto
  <2> QED
    BY <2>1, <2>2
<1>21. ASSUME NEW k \in Calls, RecvEnds(k) PROVE HandOk'
  <2>1. at[k] = "user" /\ UNCHANGED <<dial, at>>
    BY <1>21 DEF RecvEnds
  <2>2. dial = "ready" /\ at[Srv] # "greet"
    BY <2>1 DEF HandOk
  <2> QED
    BY <2>1, <2>2
<1>22. ASSUME NEW x \in Ends, LoopReads(x) PROVE HandOk'
  <2>1. HasStream(x) /\ UNCHANGED <<dial, at>> /\ wire' = [wire EXCEPT ![SideOf(x)] = Tail(@)]
    BY <1>22, Looping DEF LoopReads
  <2>2. dial = "ready" /\ at[Srv] # "greet"
    BY <2>1, HandshakeOver
  <2>3. (\A k \in Calls : at[k] = "new") => x = Srv
    BY <2>1 DEF HasStream, Begun, Ends
  <2>4. x = Srv => wire'["C"] = wire["C"]
    BY <2>1 DEF SideOf
  <2> QED
    BY <2>1, <2>2, <2>3, <2>4
<1>23. ASSUME NEW x \in Ends, LoopReadsOpen(x) PROVE HandOk'
  <2>1. HasStream(x) /\ UNCHANGED <<dial, at>> /\ wire' = [wire EXCEPT ![SideOf(x)] = Tail(@)]
    BY <1>23, Looping DEF LoopReadsOpen
  <2>2. dial = "ready" /\ at[Srv] # "greet"
    BY <2>1, HandshakeOver
  <2>3. (\A k \in Calls : at[k] = "new") => x = Srv
    BY <2>1 DEF HasStream, Begun, Ends
  <2>4. x = Srv => wire'["C"] = wire["C"]
    BY <2>1 DEF SideOf
  <2> QED
    BY <2>1, <2>2, <2>3, <2>4
<1>24. ASSUME NEW x \in Ends, LoopLost(x) PROVE HandOk'
  BY <1>24, LoopFailsEnd DEF HandOk
<1>25. ASSUME NEW x \in Ends, LoopPushes(x) PROVE HandOk'
  BY <1>25 DEF HandOk, LoopPushes, hist
<1>26. ASSUME NEW x \in Ends, LoopCancelled(x) PROVE HandOk'
  BY <1>26 DEF HandOk, LoopCancelled, hist
<1>27. ASSUME NEW x \in Ends, LoopDone(x) PROVE HandOk'
  BY <1>27 DEF HandOk, LoopDone, hist
<1>28. ASSUME NEW x \in Ends, RecvTakes(x) PROVE HandOk'
  BY <1>28 DEF HandOk, RecvTakes
<1>29. ASSUME NEW x \in Ends, CloseStarts(x) PROVE HandOk'
  BY <1>29 DEF HandOk, CloseStarts, hist
<1>30. ASSUME NEW x \in Ends, CloseAborts(x) PROVE HandOk'
  BY <1>30 DEF HandOk, CloseAborts, hist
<1>31. ASSUME NEW x \in Ends, CloseDetaches(x) PROVE HandOk'
  <2>1. HasStream(x) /\ UNCHANGED <<dial, wire>>
    BY <1>31, Looping, DetachSession
  <2>2. dial = "ready" /\ at[Srv] # "greet"
    BY <2>1, HandshakeOver
  <2>3. at'[Srv] # "greet" /\ \A j \in Calls : at'[j] = at[j]
    BY <1>31, <2>2, DetachSession
  <2> QED
    BY <2>1, <2>2, <2>3
<1>32. CASE UNCHANGED vars
  BY <1>32 DEF vars, HandOk
<1> QED
  BY <1>1, <1>2, <1>3, <1>4, <1>5, <1>6, <1>7, <1>8, <1>9, <1>10, <1>11, <1>12, <1>13, <1>14,
      <1>15, <1>16, <1>17, <1>18, <1>19, <1>20, <1>21, <1>22, <1>23, <1>24, <1>25, <1>26, <1>27,
      <1>28, <1>29, <1>30, <1>31, <1>32
  DEF Next, Loop, LoopLost, Close

(* A step that has nothing to do with what k receives. *)
LogKept(k) ==
  /\ got'[k] = got[k] /\ inbox'[k] = inbox[k] /\ sent'[k] = sent[k]
  /\ end'[k].loop = end[k].loop /\ end'[k].item = end[k].item
  /\ end'[k].term <=> end[k].term
  /\ k \in ctx => k \in ctx'
  /\ Last(k)' /\ "C" \in conn' => Last(k) /\ "C" \in conn /\ wire'["C"] = wire["C"]

(* A step that leaves the frames of a call alone keeps its log. *)
LEMMA LogsKept ==
  ASSUME NEW k \in Calls, LogOk(k), LogKept(k)
  PROVE  LogOk(k)'
<1>1. Held(k)' = Held(k) /\ Taken(k)' = Taken(k) /\ GotLen(k)' = GotLen(k)
  BY DEF LogKept, Held, Taken, GotLen, BoxLen
<1>2. GotOk(k)'
  BY DEF LogOk, GotOk, LogKept
<1>3. InboxOk(k)' /\ HeldOk(k)' /\ TermOk(k)'
  BY <1>1 DEF LogOk, InboxOk, HeldOk, TermOk, LogKept
<1>4. WireOk(k)'
  BY <1>1 DEF LogOk, WireOk, LogKept
<1> QED
  BY <1>2, <1>3, <1>4 DEF LogOk

(* The sequences of a call, and their lengths. *)
LEMMA LogTyped ==
  ASSUME Types, NEW k \in Calls
  PROVE  /\ got[k] \in Stream /\ inbox[k] \in Stream /\ sent[k] \in Stream /\ wire["C"] \in Stream
         /\ GotLen(k) = Len(got[k]) /\ BoxLen(k) = Len(inbox[k])
         /\ GotLen(k) \in Nat /\ BoxLen(k) \in Nat /\ Len(sent[k]) \in Nat
         /\ Len(wire["C"]) \in Nat /\ Taken(k) \in Nat
<1>1. /\ got[k] \in Stream /\ inbox[k] \in Stream /\ sent[k] \in Stream /\ wire["C"] \in Stream
  BY Ints DEF Types, LogTypes, InboxTypes, WireTypes, Sides
<1>2. Held(k) \in Nat
  BY DEF Held
<1>3. /\ GotLen(k) \in Nat /\ BoxLen(k) \in Nat /\ Len(sent[k]) \in Nat
      /\ Len(wire["C"]) \in Nat
  BY <1>1, Streams DEF GotLen, BoxLen
<1>4. Taken(k) \in Nat
  BY <1>2, <1>3 DEF Taken
<1> QED
  BY <1>1, <1>3, <1>4 DEF GotLen, BoxLen

(* The sequences of all calls. *)
LEMMA LogFuns ==
  ASSUME Types
  PROVE  /\ inbox \in [Ends -> Stream] /\ got \in [Calls -> Stream] /\ wire \in [Sides -> Stream]
         /\ "C" \in Sides /\ \A k \in Calls : k \in Ends /\ k # Srv /\ SideOf(k) = "C"
BY Ints DEF Types, LogTypes, InboxTypes, WireTypes, Sides, SideOf

(* While recvLoop reads, k holds the connection and has received answers only. *)
LEMMA LoopingCall ==
  ASSUME CtlInv, CallInv, NEW k \in Calls,
         end[k].loop \in {"read", "push", "last", "exit"} \/ end[k].closing \in {"cancelled", "wait"}
  PROVE  /\ Begun(k) /\ Holding(k) /\ Last(k) /\ sess["C"].inCall
         /\ end[k].loop = "read" => ~end[k].term
<1>1. Begun(k) /\ end[k].closing # "done"
  BY Ints DEF CtlInv, LoopOk
<1>2. Holding(k)
  BY <1>1 DEF Begun, Holding
<1> QED
  BY <1>1, <1>2, Ints DEF CallInv, CallOk, CtlInv, LoopOk

(* What waits on the wire for a call that reads. *)
LEMMA WireHead ==
  ASSUME Types, CtlInv, CallInv, SentInv, LogInv, NEW k \in Calls,
         end[k].loop = "read", "C" \in conn, wire["C"] # <<>>
  PROVE  /\ Taken(k) = GotLen(k) + BoxLen(k)
         /\ Taken(k) + 1 <= Len(sent[k]) /\ Head(wire["C"]) = sent[k][Taken(k) + 1]
         /\ \/ Head(wire["C"]).t = "data"
            \/ Head(wire["C"]).t = "status" /\ Taken(k) + 1 = Len(sent[k]) /\ Len(wire["C"]) = 1
         /\ Taken(k) + 1 + Len(Tail(wire["C"])) = Len(sent[k])
         /\ \A i \in 1 .. Len(Tail(wire["C"])) : Tail(wire["C"])[i] = sent[k][Taken(k) + 1 + i]
<1> DEFINE n == Taken(k)
           w == wire["C"]
<1>1. Last(k)
  BY LoopingCall
<1>2. n + Len(w) = Len(sent[k]) /\ \A i \in 1 .. Len(w) : w[i] = sent[k][n + i]
  BY <1>1 DEF LogInv, LogOk, WireOk
<1>3. w \in Stream /\ n \in Nat /\ Len(w) \in Nat /\ Len(sent[k]) \in Nat /\ w # <<>>
  BY LogTyped
<1>4. Held(k) = 0
  BY DEF Held
<1>5. GotLen(k) \in Nat /\ BoxLen(k) \in Nat
  BY LogTyped
<1>6. n = GotLen(k) + BoxLen(k)
  BY <1>4, <1>5 DEF Taken
<1> HIDE DEF n, w
<1>7. /\ Len(w) > 0 /\ Len(Tail(w)) = Len(w) - 1 /\ Head(w) = w[1]
      /\ \A i \in 1 .. Len(w) - 1 : Tail(w)[i] = w[i + 1]
  BY <1>3, Streams, Tails
<1>8. n + 1 <= Len(sent[k]) /\ n + 1 \in 1 .. Len(sent[k]) /\ 1 \in 1 .. Len(w)
  BY <1>2, <1>3, <1>7
<1>9. PICK m \in 1 .. Len(sent[k]) : m = n + 1
  BY <1>8
<1>10. Head(w) = sent[k][m]
  BY <1>2, <1>7, <1>8, <1>9
<1>11. Head(w).t = "data" \/ (Head(w).t = "status" /\ m = Len(sent[k]))
  <2>1. \/ sent[k][m] = Frame("data", k, m)
        \/ sent[k][m] = Frame("status", k, 0) /\ m = Len(sent[k])
    BY <1>9 DEF SentInv, SentOk
  <2> QED
    BY <1>10, <2>1 DEF Frame
<1>12. \A i \in 1 .. Len(Tail(w)) : Tail(w)[i] = sent[k][n + 1 + i]
  <2> TAKE i \in 1 .. Len(Tail(w))
  <2>1. i \in 1 .. Len(w) - 1 /\ i + 1 \in 1 .. Len(w) /\ i \in Nat
    BY <1>3, <1>7
  <2>2. Tail(w)[i] = w[i + 1] /\ w[i + 1] = sent[k][n + (i + 1)]
    BY <1>2, <1>7, <2>1
  <2>3. n + (i + 1) = n + 1 + i
    BY <1>3, <2>1
  <2> QED
    BY <2>2, <2>3
<1>13. n + 1 + Len(Tail(w)) = Len(sent[k]) /\ (m = Len(sent[k]) => Len(w) = 1)
  <2>1. n + Len(w) = Len(sent[k]) /\ Len(Tail(w)) = Len(w) - 1
    BY <1>2, <1>7
  <2> QED
    BY <1>3, <1>9, <2>1
<1> QED
  BY <1>6, <1>8, <1>9, <1>10, <1>11, <1>12, <1>13 DEF n, w

(* recvLoop takes the frame at the head of the wire. *)
LEMMA ReadsLog ==
  ASSUME Types, CtlInv, CallInv, SentInv, LogInv, NEW k \in Calls, LoopReads(k)
  PROVE  LogOk(k)'
<1> DEFINE f == Head(wire["C"])
           n == Taken(k)
<1>1. /\ end[k].loop = "read" /\ "C" \in conn /\ wire["C"] # <<>>
      /\ UNCHANGED <<conn, at, ctx, sent, got>> /\ wire'["C"] = Tail(wire["C"])
      /\ Reads(k, f)
  BY LogFuns, LoopReadsEnd DEF LoopReads, Dead, hist
<1>2. /\ n = GotLen(k) + BoxLen(k) /\ n + 1 <= Len(sent[k]) /\ f = sent[k][n + 1]
      /\ \/ f.t = "data"
         \/ f.t = "status" /\ n + 1 = Len(sent[k]) /\ Len(wire["C"]) = 1
      /\ n + 1 + Len(Tail(wire["C"])) = Len(sent[k])
      /\ \A i \in 1 .. Len(Tail(wire["C"])) : Tail(wire["C"])[i] = sent[k][n + 1 + i]
  BY <1>1, WireHead
<1>3. /\ n \in Nat /\ f \in Frames /\ inbox[k] \in Stream /\ GotLen(k) \in Nat
      /\ BoxLen(k) \in Nat /\ BoxLen(k) = Len(inbox[k]) /\ Len(sent[k]) \in Nat /\ k \in Ends
      /\ inbox \in [Ends -> Stream] /\ sent[k] \in Stream
  BY <1>1, LogTyped, LogFuns, Tails
<1>4. ~end[k].term /\ Last(k) /\ LogOk(k)
  BY <1>1, LoopingCall DEF LogInv
<1>5. /\ \A i \in 1 .. Len(got[k]) :
           IsAnswer(got[k][i]) /\ i <= Len(sent[k]) /\ got[k][i] = sent[k][i]
      /\ \A i \in 1 .. Len(inbox[k]) :
           IsAnswer(inbox[k][i]) /\ GotLen(k) + i <= Len(sent[k])
           /\ inbox[k][i] = sent[k][GotLen(k) + i]
  BY <1>1, <1>4 DEF LogOk, GotOk, InboxOk
<1> HIDE DEF f, n
<1>6. CASE f.t = "data" /\ inbox' = [inbox EXCEPT ![k] = Append(@, f)] /\ end' = end
  <2>1. /\ inbox'[k] = Append(inbox[k], f) /\ Len(inbox'[k]) = Len(inbox[k]) + 1
        /\ inbox'[k][Len(inbox[k]) + 1] = f
        /\ \A i \in 1 .. Len(inbox[k]) : inbox'[k][i] = inbox[k][i]
    BY <1>3, <1>6, Appends
  <2>2. Taken(k)' = n + 1 /\ GotLen(k)' = GotLen(k)
    <3>1. Held(k)' = 0 /\ GotLen(k)' = GotLen(k) /\ BoxLen(k)' = BoxLen(k) + 1
      BY <1>1, <1>6, <2>1 DEF Held, GotLen, BoxLen
    <3> QED
      BY <1>2, <1>3, <3>1 DEF Taken
  <2>3. GotOk(k)'
    BY <1>1, <1>4, <1>5, <1>6 DEF GotOk, LogOk
  <2>4. InboxOk(k)'
    <3> SUFFICES ASSUME NEW i \in 1 .. Len(inbox'[k])
                 PROVE  /\ IsAnswer(inbox'[k][i]) /\ GotLen(k) + i <= Len(sent[k])
                        /\ inbox'[k][i] = sent[k][GotLen(k) + i]
      BY <1>1, <2>2 DEF InboxOk
    <3>1. CASE i = BoxLen(k) + 1
      <4>1. inbox'[k][i] = f /\ n = GotLen(k) + BoxLen(k)
        BY <1>2, <1>3, <2>1, <3>1
      <4>2. GotLen(k) + i = n + 1
        BY <1>3, <3>1, <4>1
      <4> QED
        BY <1>2, <1>6, <4>1, <4>2 DEF IsAnswer
    <3>2. CASE i # BoxLen(k) + 1
      <4>1. i \in 1 .. Len(inbox[k])
        BY <1>3, <2>1, <3>2
      <4> QED
        BY <1>5, <2>1, <4>1
    <3> QED
      BY <3>1, <3>2
  <2>5. HeldOk(k)' /\ TermOk(k)'
    BY <1>1, <1>4, <1>6 DEF HeldOk, TermOk
  <2>6. WireOk(k)'
    BY <1>1, <1>2, <1>4, <1>6, <2>2 DEF WireOk
  <2> QED
    BY <2>3, <2>4, <2>5, <2>6 DEF LogOk
<1>7. CASE /\ UNCHANGED inbox
           /\ end'[k].item = f
           /\ end'[k].term <=> (end[k].term \/ f.t = "status")
           /\ end'[k].loop = IF f.t = "data" THEN "push" ELSE "last"
  <2>1. Taken(k)' = n + 1
    <3>1. Held(k)' = 1 /\ GotLen(k)' = GotLen(k) /\ BoxLen(k)' = BoxLen(k)
      BY <1>7, <1>1 DEF Held, GotLen, BoxLen
    <3> QED
      BY <1>2, <1>3, <3>1 DEF Taken
  <2>2. GotOk(k)' /\ InboxOk(k)'
    BY <1>1, <1>5, <1>7 DEF GotOk, InboxOk, GotLen
  <2>3. end'[k].term => f.t = "status" /\ n + 1 = Len(sent[k]) /\ Len(wire["C"]) = 1
    BY <1>2, <1>4, <1>7
  <2>4. HeldOk(k)'
    BY <1>1, <1>2, <1>7, <2>1 DEF HeldOk
  <2>5. TermOk(k)'
    <3>1. ASSUME end'[k].term PROVE HasEnd(sent[k])
      <4>1. f.t = "status" /\ sent[k][Len(sent[k])] = f /\ Len(sent[k]) > 0
        BY <1>2, <1>3, <2>3, <3>1
      <4> QED
        BY <1>3, <4>1, Streams DEF HasEnd
    <3> QED
      BY <1>1, <2>1, <2>3, <3>1 DEF TermOk
  <2>6. WireOk(k)'
    <3>1. end'[k].term => wire'["C"] = <<>>
      <4>1. wire["C"] \in Stream /\ Tail(wire["C"]) \in Stream
        BY <1>1, LogTyped, Tails
      <4>2. Len(Tail(wire["C"])) = Len(wire["C"]) - 1
        BY <1>1, <4>1, Tails
      <4>3. Len(Tail(wire["C"])) = 0 => Tail(wire["C"]) = <<>>
        BY <4>1, Streams
      <4> QED
        BY <1>1, <2>3, <4>2, <4>3
    <3> QED
      BY <1>1, <1>2, <2>1, <3>1 DEF WireOk
  <2> QED
    BY <2>2, <2>4, <2>5, <2>6 DEF LogOk
<1> QED
  BY <1>1, <1>6, <1>7 DEF Reads

(* Of a call whose recvLoop is not done, only answers are received. *)
LEMMA AnswersOnly ==
  ASSUME LogInv, NEW k \in Calls, end[k].loop # "done" \/ end[k].term
  PROVE  /\ \A i \in 1 .. Len(got[k]) :
              IsAnswer(got[k][i]) /\ i <= Len(sent[k]) /\ got[k][i] = sent[k][i]
         /\ \A i \in 1 .. Len(inbox[k]) :
              IsAnswer(inbox[k][i]) /\ GotLen(k) + i <= Len(sent[k])
              /\ inbox[k][i] = sent[k][GotLen(k) + i]
BY DEF LogInv, LogOk, GotOk, InboxOk

(* The server sends no OPEN, so that no call reads one. *)
LEMMA NoOpenRead ==
  ASSUME Types, CtlInv, CallInv, SentInv, LogInv, NEW k \in Calls
  PROVE  ~LoopReadsOpen(k)
<1> SUFFICES ASSUME LoopReadsOpen(k) PROVE FALSE
  OBVIOUS
<1>1. end[k].loop = "read" /\ "C" \in conn /\ wire["C"] # <<>> /\ Head(wire["C"]).t = "open"
  BY LogFuns DEF LoopReadsOpen, Arriving, Dead
<1> QED
  BY <1>1, WireHead

(* recvLoop pushes a failure behind the answers. *)
LEMMA FailsLog ==
  ASSUME Types, CtlInv, CallInv, LogInv, NEW k \in Calls, LoopLost(k)
  PROVE  LogOk(k)'
<1>1. /\ end[k].loop = "read" /\ end'[k].loop = "done" /\ (end'[k].term <=> end[k].term)
      /\ UNCHANGED <<got, sent>> /\ ~end[k].term /\ LogOk(k)
  BY LoopFailsEnd, LoopingCall, LogFuns DEF ItemKept, LogInv
<1>2. /\ inbox[k] \in Stream /\ inbox \in [Ends -> Stream] /\ k \in Ends
      /\ BoxLen(k) \in Nat /\ BoxLen(k) = Len(inbox[k])
  BY LogTyped, LogFuns
<1>3. PICK e \in {"eof", "err"} : inbox'[k] \in {inbox[k], Append(inbox[k], Failure(e))}
  BY <1>2, LoopFailsEnd DEF Push
<1>4. GotOk(k)' /\ HeldOk(k)' /\ TermOk(k)' /\ WireOk(k)'
  BY <1>1, AnswersOnly DEF GotOk, HeldOk, TermOk, WireOk
<1>5. InboxOk(k)'
  <2> SUFFICES ASSUME NEW i \in 1 .. Len(inbox'[k])
               PROVE  IF IsAnswer(inbox'[k][i])
                      THEN GotLen(k) + i <= Len(sent[k]) /\ inbox'[k][i] = sent[k][GotLen(k) + i]
                      ELSE i = Len(inbox'[k]) /\ Fails(inbox'[k][i])
    <3>1. GotLen(k)' = GotLen(k)
      BY <1>1 DEF GotLen
    <3> QED
      BY <1>1, <3>1 DEF InboxOk
  <2>1. CASE inbox'[k] = inbox[k]
    BY <1>1, <2>1, AnswersOnly
  <2>2. CASE inbox'[k] = Append(inbox[k], Failure(e))
    <3>1. /\ Len(inbox'[k]) = BoxLen(k) + 1 /\ inbox'[k][BoxLen(k) + 1] = Failure(e)
          /\ \A j \in 1 .. Len(inbox[k]) : inbox'[k][j] = inbox[k][j]
      BY <1>2, <2>2, FrameType, Appends
    <3>2. CASE i = BoxLen(k) + 1
      BY <3>1, <3>2 DEF Failure, Frame, Fails, IsAnswer
    <3>3. CASE i # BoxLen(k) + 1
      <4>1. i \in 1 .. Len(inbox[k])
        BY <1>2, <3>1, <3>3
      <4> QED
        BY <1>1, <3>1, <4>1, AnswersOnly
    <3> QED
      BY <3>2, <3>3
  <2> QED
    BY <1>3, <2>1, <2>2
<1> QED
  BY <1>4, <1>5 DEF LogOk

(* recvLoop pushes the frame it has in hand. *)
LEMMA PushesLog ==
  ASSUME Types, CtlInv, CallInv, SentInv, LogInv, NEW k \in Calls, LoopPushes(k)
  PROVE  LogOk(k)'
<1> DEFINE n == Taken(k)
           it == end[k].item
<1>1. /\ end[k].loop \in {"push", "last"} /\ UNCHANGED <<got, sent, wire, conn, at, ctx>>
      /\ inbox' = [inbox EXCEPT ![k] = Append(@, it)]
      /\ end'[k].loop = IF end[k].loop = "push" THEN "read" ELSE "exit"
      /\ end'[k].term <=> end[k].term
      /\ it \in Frames
  BY LogFuns, LoopPushesEnd DEF LoopPushes, Push, hist
<1>2. /\ inbox[k] \in Stream /\ inbox \in [Ends -> Stream] /\ k \in Ends
      /\ BoxLen(k) \in Nat /\ BoxLen(k) = Len(inbox[k]) /\ GotLen(k) \in Nat /\ n \in Nat
      /\ Len(sent[k]) \in Nat
  BY LogTyped, LogFuns
<1>3. LogOk(k)
  BY DEF LogInv
<1>4. n <= Len(sent[k]) /\ it = sent[k][n] /\ (end[k].loop = "last" => end[k].term)
  BY <1>1, <1>3 DEF LogOk, HeldOk
<1>5. n = GotLen(k) + BoxLen(k) + 1
  <2>1. Held(k) = 1
    BY <1>1 DEF Held
  <2> QED
    BY <2>1 DEF Taken
<1>6. /\ inbox'[k] = Append(inbox[k], it) /\ Len(inbox'[k]) = BoxLen(k) + 1
      /\ inbox'[k][BoxLen(k) + 1] = it
      /\ \A j \in 1 .. Len(inbox[k]) : inbox'[k][j] = inbox[k][j]
  BY <1>1, <1>2, Appends
<1>7. Taken(k)' = n /\ GotLen(k)' = GotLen(k)
  <2>1. Held(k)' = 0 /\ GotLen(k)' = GotLen(k) /\ BoxLen(k)' = BoxLen(k) + 1
    BY <1>1, <1>6 DEF Held, GotLen, BoxLen
  <2> HIDE DEF n
  <2> QED
    BY <1>2, <1>5, <2>1 DEF Taken
<1> HIDE DEF n, it
<1>8. IsAnswer(it)
  <2>1. n \in 1 .. Len(sent[k])
    BY <1>2, <1>4, <1>5
  <2>2. sent[k][n] = Frame("data", k, n) \/ sent[k][n] = Frame("status", k, 0)
    BY <2>1 DEF SentInv, SentOk
  <2> QED
    BY <1>4, <2>2 DEF Frame, IsAnswer
<1>9. GotOk(k)'
  BY <1>1, AnswersOnly DEF GotOk
<1>10. InboxOk(k)'
  <2> SUFFICES ASSUME NEW i \in 1 .. Len(inbox'[k])
               PROVE  /\ IsAnswer(inbox'[k][i]) /\ GotLen(k) + i <= Len(sent[k])
                      /\ inbox'[k][i] = sent[k][GotLen(k) + i]
    BY <1>1, <1>7 DEF InboxOk
  <2>1. CASE i = BoxLen(k) + 1
    <3>1. GotLen(k) + i = n
      BY <1>2, <1>5, <2>1
    <3> QED
      BY <1>4, <1>6, <1>8, <2>1, <3>1
  <2>2. CASE i # BoxLen(k) + 1
    <3>1. i \in 1 .. Len(inbox[k])
      BY <1>2, <1>6, <2>2
    <3> QED
      BY <1>1, <1>6, <3>1, AnswersOnly
  <2> QED
    BY <2>1, <2>2
<1>11. HeldOk(k)' /\ TermOk(k)'
  BY <1>1, <1>3, <1>4, <1>7 DEF HeldOk, TermOk, LogOk, n
<1>12. WireOk(k)'
  BY <1>1, <1>3, <1>7 DEF WireOk, Last, LogOk, n
<1> QED
  BY <1>9, <1>10, <1>11, <1>12 DEF LogOk

(* recvLoop gives up on its item, or returns. *)
LEMMA StopsLog ==
  ASSUME Types, LogInv, NEW k \in Calls, LoopCancelled(k) \/ LoopDone(k)
  PROVE  LogOk(k)'
<1>1. /\ end[k].loop \in {"push", "last", "exit"} /\ end'[k].loop = "done"
      /\ end'[k].term <=> end[k].term
      /\ UNCHANGED <<got, sent, wire, conn, at, ctx, inbox>>
      /\ end[k].loop \in {"push", "last"} => k \in ctx
      /\ LogOk(k)
  BY LogFuns, LoopCancelledEnd, LoopDoneEnd DEF LoopCancelled, LoopDone, ItemKept, hist, LogInv
<1>2. GotLen(k)' = GotLen(k) /\ (k \notin ctx => Taken(k)' = Taken(k))
  BY <1>1 DEF GotLen, BoxLen, Taken, Held
<1>3. GotOk(k)' /\ InboxOk(k)'
  BY <1>1, <1>2, AnswersOnly DEF GotOk, InboxOk
<1>4. HeldOk(k)' /\ TermOk(k)' /\ WireOk(k)'
  BY <1>1, <1>2 DEF HeldOk, TermOk, WireOk, Last, LogOk
<1> QED
  BY <1>3, <1>4 DEF LogOk


(* Recv takes an item, or reports the end of the stream. *)
LEMMA TakesLog ==
  ASSUME Types, CtlInv, SentInv, LogInv, NEW k \in Calls, RecvTakes(k)
  PROVE  LogOk(k)'
<1> DEFINE f == Head(inbox[k])
<1>1. /\ inbox[k] # <<>> /\ \A i \in 1 .. Len(got[k]) : got[k][i].t = "data"
      /\ inbox' = [inbox EXCEPT ![k] = Tail(@)]
      /\ got' = [got EXCEPT ![k] = Append(@, f)]
      /\ UNCHANGED <<end, sent, wire, conn, at, ctx>> /\ at[k] = "user"
  BY LogFuns DEF RecvTakes, Streaming
<1>2. /\ inbox[k] \in Stream /\ inbox \in [Ends -> Stream] /\ k \in Ends
      /\ got[k] \in Stream /\ got \in [Calls -> Stream]
      /\ BoxLen(k) \in Nat /\ BoxLen(k) = Len(inbox[k]) /\ GotLen(k) \in Nat
      /\ GotLen(k) = Len(got[k]) /\ Len(sent[k]) \in Nat
  BY LogTyped, LogFuns
<1>3. LogOk(k)
  BY DEF LogInv
<1>4. /\ inbox'[k] = Tail(inbox[k]) /\ got'[k] = Append(got[k], f) /\ f \in Frames
      /\ f = inbox[k][1] /\ BoxLen(k) > 0 /\ Len(inbox'[k]) = BoxLen(k) - 1
      /\ \A i \in 1 .. BoxLen(k) - 1 : inbox'[k][i] = inbox[k][i + 1]
      /\ inbox'[k] \in Stream
  BY <1>1, <1>2, Streams, Tails
<1> HIDE DEF f
<1>5. /\ Len(got'[k]) = GotLen(k) + 1 /\ got'[k][GotLen(k) + 1] = f
      /\ \A i \in 1 .. Len(got[k]) : got'[k][i] = got[k][i]
  BY <1>2, <1>4, Appends
<1>6. GotLen(k)' = GotLen(k) + 1 /\ BoxLen(k)' = BoxLen(k) - 1 /\ Held(k)' = Held(k)
  BY <1>1, <1>4, <1>5 DEF GotLen, BoxLen, Held
<1>7. Taken(k)' = Taken(k)
  <2>1. Held(k) \in Nat
    BY DEF Held
  <2> QED
    BY <1>2, <1>4, <1>6, <2>1 DEF Taken
<1>8. 1 \in 1 .. BoxLen(k)
  BY <1>2, <1>4
<1>9. GotOk(k)'
  <2>1. ASSUME NEW i \in 1 .. Len(got'[k])
        PROVE  IF IsAnswer(got'[k][i]) THEN i <= Len(sent[k]) /\ got'[k][i] = sent[k][i]
               ELSE /\ i = Len(got'[k]) /\ inbox'[k] = <<>> /\ Fails(got'[k][i])
                    /\ end[k].loop = "done" /\ ~end[k].term
    <3>1. CASE i = GotLen(k) + 1
      <4>1. IF IsAnswer(f) THEN GotLen(k) + 1 <= Len(sent[k]) /\ f = sent[k][GotLen(k) + 1]
            ELSE /\ BoxLen(k) = 1 /\ Fails(f) /\ end[k].loop = "done" /\ ~end[k].term
        BY <1>2, <1>3, <1>4, <1>8 DEF LogOk, InboxOk
      <4>2. BoxLen(k) = 1 => inbox'[k] = <<>>
        <5>1. BoxLen(k) = 1 => Len(inbox'[k]) = 0
          BY <1>4
        <5>2. inbox'[k] # <<>> => Len(inbox'[k]) > 0
          BY <1>4, Streams
        <5> QED
          BY <5>1, <5>2
      <4> QED
        BY <1>5, <3>1, <4>1, <4>2
    <3>2. CASE i # GotLen(k) + 1
      <4>1. i \in 1 .. Len(got[k])
        BY <1>2, <1>5, <3>2
      <4> QED
        BY <1>1, <1>3, <1>5, <4>1 DEF IsAnswer, LogOk, GotOk
    <3> QED
      BY <3>1, <3>2
  <2>2. end[k].loop # "off"
    BY <1>1, Ints DEF CtlInv, LoopOk
  <2> QED
    BY <1>1, <2>1, <2>2 DEF GotOk
<1>10. InboxOk(k)'
  <2> SUFFICES ASSUME NEW i \in 1 .. Len(inbox'[k])
               PROVE  IF IsAnswer(inbox'[k][i])
                      THEN GotLen(k) + 1 + i <= Len(sent[k])
                           /\ inbox'[k][i] = sent[k][GotLen(k) + 1 + i]
                      ELSE /\ i = Len(inbox'[k]) /\ Fails(inbox'[k][i])
                           /\ end[k].loop = "done" /\ ~end[k].term
    BY <1>1, <1>6 DEF InboxOk
  <2>1. i \in 1 .. BoxLen(k) - 1 /\ i \in Nat
    BY <1>2, <1>4
  <2>2. PICK m \in 1 .. BoxLen(k) : m = i + 1
    BY <1>2, <2>1
  <2>3. inbox'[k][i] = inbox[k][m]
    BY <1>4, <2>1, <2>2
  <2>4. IF IsAnswer(inbox[k][m])
        THEN GotLen(k) + m <= Len(sent[k]) /\ inbox[k][m] = sent[k][GotLen(k) + m]
        ELSE /\ m = BoxLen(k) /\ Fails(inbox[k][m])
             /\ end[k].loop = "done" /\ ~end[k].term
    BY <1>2, <1>3 DEF LogOk, InboxOk
  <2>5. GotLen(k) + m = GotLen(k) + 1 + i /\ (m = BoxLen(k) => i = BoxLen(k) - 1)
    BY <1>2, <2>1, <2>2
  <2> QED
    BY <1>4, <2>3, <2>4, <2>5
<1>11. HeldOk(k)' /\ TermOk(k)' /\ WireOk(k)'
  BY <1>1, <1>3, <1>7 DEF HeldOk, TermOk, WireOk, Last, LogOk
<1> QED
  BY <1>9, <1>10, <1>11 DEF LogOk

(* Recv reports the end. *)
LEMMA EndsLog ==
  ASSUME Types, SentInv, LogInv, NEW k \in Calls, RecvEnds(k)
  PROVE  LogOk(k)'
<1> DEFINE f == EndOfStream(k)
<1>1. /\ inbox[k] = <<>> /\ \A i \in 1 .. Len(got[k]) : got[k][i].t = "data"
      /\ end[k].loop = "done" /\ k \notin ctx
      /\ got' = [got EXCEPT ![k] = Append(@, f)]
      /\ UNCHANGED <<end, sent, wire, conn, at, ctx, inbox>>
  BY LogFuns DEF RecvEnds, Streaming
<1>2. /\ got[k] \in Stream /\ got \in [Calls -> Stream] /\ sent[k] \in Stream
      /\ BoxLen(k) = Len(inbox[k]) /\ GotLen(k) \in Nat /\ BoxLen(k) \in Nat
      /\ GotLen(k) = Len(got[k]) /\ Len(sent[k]) \in Nat
  BY LogTyped, LogFuns
<1>3. LogOk(k)
  BY DEF LogInv
<1>4. f \in Frames /\ Fails(f) /\ ~IsAnswer(f)
  <2>1. end[k].err \in {None, "eof", "err"}
    BY LogFuns DEF Types, EndTypes, End, EndRecord
  <2>2. f = Failure("eof") \/ f = Failure("err")
    BY <2>1 DEF EndOfStream
  <2> QED
    BY <2>2, FrameType DEF Failure, Frame, Fails, IsAnswer
<1> HIDE DEF f
<1>5. /\ got'[k] = Append(got[k], f)
      /\ Len(got'[k]) = GotLen(k) + 1 /\ got'[k][GotLen(k) + 1] = f
      /\ \A i \in 1 .. Len(got[k]) : got'[k][i] = got[k][i]
  BY <1>1, <1>2, <1>4, Appends
<1>6. ~end[k].term
  <2> SUFFICES ASSUME end[k].term PROVE FALSE
    OBVIOUS
  <2>1. Held(k) = 0 /\ BoxLen(k) = 0
    BY <1>1, <1>2, Streams DEF Held
  <2>2. HasEnd(sent[k]) /\ Taken(k) = Len(sent[k])
    BY <1>1, <1>3 DEF LogOk, TermOk
  <2>3. GotLen(k) = Len(sent[k])
    BY <1>2, <2>1, <2>2 DEF Taken
  <2>4. Len(sent[k]) \in 1 .. Len(sent[k]) /\ sent[k][Len(sent[k])].t = "status"
    BY <1>2, <2>2, Streams DEF HasEnd
  <2>5. got[k][Len(sent[k])] = sent[k][Len(sent[k])]
    BY <1>2, <2>3, <2>4, AnswersOnly
  <2> QED
    BY <1>1, <1>2, <2>3, <2>4, <2>5
<1>7. GotOk(k)'
  <2>1. ASSUME NEW i \in 1 .. Len(got'[k])
        PROVE  IF IsAnswer(got'[k][i]) THEN i <= Len(sent[k]) /\ got'[k][i] = sent[k][i]
               ELSE i = Len(got'[k]) /\ Fails(got'[k][i])
    <3>1. CASE i = GotLen(k) + 1
      BY <1>4, <1>5, <3>1
    <3>2. CASE i # GotLen(k) + 1
      <4>1. i \in 1 .. Len(got[k])
        BY <1>2, <1>5, <3>2
      <4> QED
        BY <1>1, <1>3, <1>5, <4>1 DEF IsAnswer, LogOk, GotOk
    <3> QED
      BY <3>1, <3>2
  <2> QED
    BY <1>1, <1>6, <2>1 DEF GotOk
<1>8. InboxOk(k)' /\ HeldOk(k)' /\ TermOk(k)' /\ WireOk(k)'
  <2>1. Len(inbox'[k]) = 0
    BY <1>1, Streams
  <2> QED
    BY <1>1, <1>3, <1>6, <2>1 DEF InboxOk, HeldOk, TermOk, WireOk, Last, LogOk
<1> QED
  BY <1>7, <1>8 DEF LogOk

(* The handler writes for its call. *)
LEMMA GrowsLog ==
  ASSUME Types, SentInv, LogInv, at[Srv] = "user", NEW f \in Frames, Spoken(f), "S" \in conn',
         \/ f = Frame("data", cur, Len(sent[cur]) + 1) /\ Len(sent[cur]) + 1 <= MaxDown[cur]
         \/ f = Frame("status", cur, 0),
         UNCHANGED <<got, inbox, ctx, cur>>, \A j \in Calls : at'[j] = at[j] /\ end'[j] = end[j]
  PROVE  LogInv'
<1> SUFFICES ASSUME NEW k \in Calls PROVE LogOk(k)'
  BY DEF LogInv
<1>1. cur \in Calls /\ Last(cur) /\ ~HasEnd(sent[cur])
  BY DEF SentInv, Written
<1>2. /\ UNCHANGED conn
      /\ wire'["C"] = IF "C" \in conn THEN Append(wire["C"], f) ELSE wire["C"]
  BY DEF Spoken
<1>3. Last(k)' <=> Last(k)
  BY DEF Last
<1>4. LogOk(k)
  BY DEF LogInv
<1>5. CASE k # cur
  <2>1. ~Last(k)
    BY <1>1, <1>5, LastUnique
  <2>2. sent'[k] = sent[k]
    BY <1>5, SentGrows
  <2>3. LogKept(k)
    BY <1>3, <2>1, <2>2 DEF LogKept
  <2> QED
    BY <1>4, <2>3, LogsKept
<1>6. CASE k = cur
  <2>1. /\ sent'[k] = Append(sent[k], f) /\ Len(sent'[k]) = Len(sent[k]) + 1
        /\ Len(sent[k]) \in Nat /\ sent[k] \in Stream
        /\ sent'[k][Len(sent[k]) + 1] = f
        /\ \A i \in 1 .. Len(sent[k]) : sent'[k][i] = sent[k][i]
    BY <1>6, LogTyped, SentGrows, Appends
  <2>2. ~end[k].term
    BY <1>1, <1>4, <1>6 DEF LogOk, TermOk
  <2>3. Taken(k)' = Taken(k) /\ GotLen(k)' = GotLen(k)
    BY DEF Taken, GotLen, BoxLen, Held
  <2>4. \A i \in Nat : i > 0 /\ i <= Len(sent[k]) => i <= Len(sent'[k]) /\ sent'[k][i] = sent[k][i]
    BY <2>1
  <2>5. GotOk(k)'
    <3>1. \A i \in 1 .. Len(got[k]) : i \in Nat /\ i > 0
      BY LogTyped
    <3> QED
      BY <1>4, <2>4, <3>1 DEF LogOk, GotOk
  <2>6. InboxOk(k)'
    <3>1. \A i \in 1 .. Len(inbox[k]) : GotLen(k) + i \in Nat /\ GotLen(k) + i > 0
      BY LogTyped
    <3> QED
      BY <1>4, <2>3, <2>4, <3>1 DEF LogOk, InboxOk
  <2>7. HeldOk(k)'
    <3>1. end[k].loop \in {"push", "last"} => Taken(k) \in Nat /\ Taken(k) > 0
      <4>1. end[k].loop \in {"push", "last"} => Held(k) = 1
        BY DEF Held
      <4>2. GotLen(k) \in Nat /\ BoxLen(k) \in Nat
        BY LogTyped
      <4> QED
        BY <4>1, <4>2 DEF Taken
    <3> QED
      BY <1>4, <2>3, <2>4, <3>1 DEF LogOk, HeldOk
  <2>8. TermOk(k)'
    BY <2>2 DEF TermOk
  <2>9. WireOk(k)'
    <3>1. ASSUME "C" \in conn, end[k].loop \in {"off", "read", "push"}
          PROVE  /\ Taken(k) + Len(wire'["C"]) = Len(sent'[k])
                 /\ \A i \in 1 .. Len(wire'["C"]) : wire'["C"][i] = sent'[k][Taken(k) + i]
      <4> DEFINE w == wire["C"]
                 n == Taken(k)
      <4>1. /\ n + Len(w) = Len(sent[k])
            /\ \A i \in 1 .. Len(w) : w[i] = sent[k][n + i]
        BY <1>1, <1>4, <1>6, <3>1 DEF LogOk, WireOk
      <4>2. w \in Stream /\ n \in Nat /\ Len(w) \in Nat
        BY LogTyped
      <4>3. /\ wire'["C"] = Append(w, f) /\ Len(wire'["C"]) = Len(w) + 1
            /\ wire'["C"][Len(w) + 1] = f
            /\ \A i \in 1 .. Len(w) : wire'["C"][i] = w[i]
        BY <1>2, <3>1, <4>2, Appends
      <4> HIDE DEF w, n
      <4>4. n + Len(wire'["C"]) = Len(sent'[k])
        <5> DEFINE a == Len(wire'["C"])
                   b == Len(sent[k])
                   c == Len(sent'[k])
        <5>1. n + Len(w) = b /\ a = Len(w) + 1 /\ c = b + 1
          BY <2>1, <4>1, <4>3
        <5> HIDE DEF a, b, c
        <5>2. n + a = c
          BY <4>2, <5>1
        <5> QED
          BY <5>2 DEF a, c
      <4>5. ASSUME NEW i \in 1 .. Len(wire'["C"]) PROVE wire'["C"][i] = sent'[k][n + i]
        <5>1. CASE i = Len(w) + 1
          <6>1. n + i = Len(sent[k]) + 1
            BY <4>1, <4>2, <5>1
          <6> QED
            BY <2>1, <4>3, <5>1, <6>1
        <5>2. CASE i # Len(w) + 1
          <6>1. i \in 1 .. Len(w) /\ i \in Nat
            BY <4>2, <4>3, <5>2
          <6>2. n + i \in 1 .. Len(sent[k])
            BY <4>1, <4>2, <6>1
          <6>3. wire'["C"][i] = sent[k][n + i]
            BY <4>1, <4>3, <6>1
          <6> QED
            BY <2>1, <6>2, <6>3
        <5> QED
          BY <5>1, <5>2
      <4> QED
        BY <4>4, <4>5 DEF n
    <3> QED
      BY <1>2, <2>2, <2>3, <3>1 DEF WireOk
  <2> QED
    BY <2>5, <2>6, <2>7, <2>8, <2>9 DEF LogOk
<1> QED
  BY <1>5, <1>6

(* A call is opened behind one whose STATUS was read: nothing is left on    *)
(* the wire.                                                               *)
LEMMA LendsLog ==
  ASSUME Types, CtlInv, CallInv, SentInv, HandOk, LogInv, NEW k \in Calls, OpenCall(k)
  PROVE  LogInv'
<1>1. /\ dial = "ready" /\ at[k] = "new" /\ (k > 1 => at[k - 1] # "new")
      /\ Usable /\ ~sess["C"].inCall
      /\ at'[k] = "open" /\ \A x \in Ends : x # k => at'[x] = at[x]
      /\ UNCHANGED <<conn, wire, ctx, end, inbox, sent, got>>
  BY LendSession
<1>2. \A j \in Calls : j \in Nat /\ j \in Ends
  BY Ints DEF Calls
<1>3. ASSUME "C" \in conn PROVE wire["C"] = <<>>
  <2>1. CASE k = 1
    <3>1. \A j \in Calls : at[j] = "new"
      <4>1. \A j \in Calls : j # k => k < j
        BY <2>1 DEF Calls
      <4> QED
        BY <1>1, <4>1 DEF CallInv, CallOk
    <3> QED
      BY <1>1, <3>1 DEF HandOk
  <2>2. CASE k # 1
    <3>1. k - 1 \in Calls /\ k > 1
      BY <2>2, Ints DEF Calls
    <3>2. PICK j \in Calls : j = k - 1
      BY <3>1
    <3>3. at[j] # "new" /\ \A i \in Calls : i > j => i = k \/ k < i
      BY <1>1, <1>2, <3>1, <3>2
    <3>4. Last(j)
      BY <1>1, <3>3 DEF Last, CallInv, CallOk
    <3>5. end[j].term
      BY <1>1, <3>3 DEF CallInv, CallOk
    <3> QED
      BY <1>3, <3>4, <3>5 DEF LogInv, LogOk, WireOk
  <2> QED
    BY <2>1, <2>2
<1>4. ASSUME NEW j \in Calls, j # k PROVE LogOk(j)'
  <2>1. ~Last(j)'
    <3>1. j < k \/ j > k
      BY <1>2, <1>4
    <3>2. j > k => at'[j] = "new"
      BY <1>1, <1>2, <1>4 DEF CallInv, CallOk
    <3> QED
      BY <1>1, <3>1, <3>2, <1>2 DEF Last
  <2>2. LogKept(j)
    BY <1>1, <2>1 DEF LogKept
  <2> QED
    BY <2>2, LogsKept DEF LogInv
<1>5. LogOk(k)'
  <2>1. sent[k] = <<>> /\ end[k].loop = "off" /\ inbox[k] = <<>> /\ got[k] = <<>>
    BY <1>1, <1>2 DEF SentInv, SentOk, CtlInv, LoopOk, Begun, LogInv, LogOk, GotOk
  <2>2. GotOk(k)' /\ InboxOk(k)' /\ HeldOk(k)' /\ TermOk(k)'
    <3>1. Taken(k)' = Taken(k)
      BY <1>1 DEF Taken, Held, GotLen, BoxLen
    <3>2. GotOk(k)' /\ InboxOk(k)'
      BY <1>1, <2>1, Streams DEF GotOk, InboxOk
    <3>3. HeldOk(k)' /\ TermOk(k)'
      BY <1>1, <2>1, <3>1 DEF HeldOk, TermOk, LogInv, LogOk
    <3> QED
      BY <3>2, <3>3
  <2>3. Taken(k)' = 0 /\ Len(sent[k]) = 0
    <3>1. GotLen(k)' = 0 /\ BoxLen(k)' = 0 /\ Held(k)' = 0
      BY <1>1, <2>1, Streams DEF GotLen, BoxLen, Held
    <3> QED
      BY <2>1, <3>1, Streams DEF Taken
  <2>4. WireOk(k)'
    <3>1. "C" \in conn => Len(wire["C"]) = 0
      BY <1>3, Streams
    <3> QED
      BY <1>1, <1>3, <2>3, <3>1 DEF WireOk
  <2> QED
    BY <2>2, <2>4 DEF LogOk
<1> QED
  BY <1>4, <1>5 DEF LogInv

(* The first frame is on the wire: recvLoop starts. *)
LEMMA OpensLog ==
  ASSUME Types, CtlInv, LogInv, NEW k \in Calls, OpenWrites(k)
  PROVE  LogOk(k)'
<1>1. /\ UNCHANGED <<got, inbox, sent, ctx>> /\ conn' = conn /\ wire'["C"] = wire["C"]
      /\ end'[k].item = end[k].item /\ (end'[k].term <=> end[k].term)
      /\ end'[k].loop \in {end[k].loop, "read"} /\ at[k] = "open"
      /\ at' \in {[at EXCEPT ![k] = "user"], [at EXCEPT ![k] = "dead"]}
  <2>1. conn' = conn /\ wire'["C"] = wire["C"]
    BY LogFuns, OpenEnd DEF Writes, Peer
  <2>2. /\ end'[k].item = end[k].item /\ (end'[k].term <=> end[k].term)
        /\ end'[k].loop \in {end[k].loop, "read"}
        /\ at' \in {[at EXCEPT ![k] = "user"], [at EXCEPT ![k] = "dead"]}
    BY OpenEnd DEF ItemKept
  <2> QED
    BY <2>1, <2>2 DEF OpenWrites, hist
<1>2. end[k].loop = "off" /\ inbox[k] = <<>> /\ LogOk(k)
  BY <1>1, Ints DEF CtlInv, LoopOk, Begun, LogInv
<1>3. got[k] = <<>>
  BY <1>2 DEF LogOk, GotOk
<1>4. Last(k)' => Last(k)
  <2>1. \A j \in Calls : j > k => at'[j] = at[j]
    <3>1. \A j \in Calls : j > k => j # k
      BY DEF Calls
    <3> QED
      BY <1>1, <3>1, Ints DEF Types, AtTypes
  <2> QED
    BY <1>1, <2>1 DEF Last
<1>5. Taken(k)' = Taken(k) /\ GotLen(k)' = GotLen(k)
  BY <1>1, <1>2 DEF Taken, GotLen, BoxLen, Held
<1>6. GotOk(k)' /\ InboxOk(k)'
  BY <1>1, <1>2, <1>3, Streams DEF GotOk, InboxOk
<1>7. HeldOk(k)' /\ TermOk(k)' /\ WireOk(k)'
  BY <1>1, <1>2, <1>4, <1>5 DEF HeldOk, TermOk, WireOk, LogOk
<1> QED
  BY <1>6, <1>7 DEF LogOk

(* Close throws away what is left in the inbox. *)
LEMMA DetachLog ==
  ASSUME Types, CtlInv, LogInv, NEW k \in Calls, CloseDetaches(k)
  PROVE  LogOk(k)'
<1>1. /\ end[k].loop = "done" /\ end'[k].loop = "done" /\ (end'[k].term <=> end[k].term)
      /\ UNCHANGED <<got, sent, ctx, conn, wire, at>> /\ inbox'[k] = <<>> /\ k \in ctx
      /\ LogOk(k)
  BY LogFuns, DetachSession, DetachEnd DEF CtlInv, LoopOk, LogInv
<1>2. GotOk(k)' /\ HeldOk(k)' /\ TermOk(k)' /\ WireOk(k)'
  BY <1>1 DEF GotOk, HeldOk, TermOk, WireOk, Last, LogOk
<1>3. InboxOk(k)'
  BY <1>1, Streams DEF InboxOk
<1> QED
  BY <1>2, <1>3 DEF LogOk

(* A step of the end x: the other calls receive nothing. *)
LEMMA OthersLog ==
  ASSUME LogInv, NEW x \in Ends, UNCHANGED sent,
         \A j \in Calls : j # x => /\ got'[j] = got[j] /\ inbox'[j] = inbox[j]
                                   /\ end'[j] = end[j] /\ (j \in ctx => j \in ctx'),
         \A j \in Calls : Last(j)' => Last(j),
         "C" \in conn' => "C" \in conn,
         wire'["C"] = wire["C"] \/ (x \in Calls /\ Last(x))
  PROVE  \A j \in Calls : j # x => LogOk(j)'
<1> SUFFICES ASSUME NEW j \in Calls, j # x PROVE LogOk(j)'
  OBVIOUS
<1>1. wire'["C"] # wire["C"] => ~Last(j)
  BY LastUnique
<1>2. LogKept(j)
  BY <1>1 DEF LogKept
<1> QED
  BY <1>2, LogsKept DEF LogInv

(* Every step keeps the logs. *)
LEMMA LogStep ==
  Types /\ CtlInv /\ CallInv /\ SentInv /\ HandOk /\ LogInv /\ [Next]_vars => LogInv'
<1> SUFFICES ASSUME Types, CtlInv, CallInv, SentInv, HandOk, LogInv, [Next]_vars PROVE LogInv'
  OBVIOUS
<1>c. /\ \A j \in Calls : j # Srv /\ j \in Ends /\ SideOf(j) = "C"
      /\ \A x \in Ends : x \in Calls \/ (x = Srv /\ SideOf(x) = "S")
      /\ Srv \in Ends
      /\ at \in [Ends -> SrvPlaces \cup CallPlaces]
      /\ wire \in [Sides -> Stream] /\ "C" \in Sides /\ "S" \in Sides
      /\ got \in [Calls -> Stream] /\ inbox \in [Ends -> Stream]
  BY Ints DEF Types, AtTypes, WireTypes, LogTypes, InboxTypes, Sides, SideOf, Ends
<1>k. (\A j \in Calls : LogKept(j)) => LogInv'
  BY LogsKept DEF LogInv
<1>l. (\A j \in Calls : at'[j] = "new" <=> at[j] = "new") => \A j \in Calls : Last(j)' <=> Last(j)
  BY DEF Last
<1> USE <1>c, <1>k, <1>l
<1>1. CASE ClientClose
  <2>1. UNCHANGED <<got, inbox, sent, end, ctx, at>> /\ wire'["C"] = wire["C"] /\ conn' \subseteq conn
    BY <1>1 DEF ClientClose, hist, CloseSession
  <2>2. \A j \in Calls : LogKept(j)
    BY <2>1 DEF LogKept
  <2> QED
    BY <2>2
<1>2. CASE ServerClose
  <2>1. UNCHANGED <<got, inbox, sent, end, ctx, at>> /\ wire'["C"] = wire["C"] /\ conn' \subseteq conn
    BY <1>2 DEF ServerClose, hist, CloseSession
  <2>2. \A j \in Calls : LogKept(j)
    BY <2>1 DEF LogKept
  <2> QED
    BY <2>2
<1>3. CASE Cut
  <2>1. UNCHANGED <<got, inbox, sent, end, ctx, at>> /\ wire'["C"] = wire["C"] /\ conn' \subseteq conn
    BY <1>3 DEF Cut, hist
  <2>2. \A j \in Calls : LogKept(j)
    BY <2>1 DEF LogKept
  <2> QED
    BY <2>2
<1>4. CASE ServerGreets
  <2>1. UNCHANGED <<got, inbox, sent, end, ctx>> /\ \A j \in Calls : at'[j] = at[j] /\ at[j] = "new"
    BY <1>4 DEF ServerGreets, HandOk, hist, Goto
  <2>2. \A j \in Calls : LogKept(j)
    BY <2>1 DEF LogKept, Last
  <2> QED
    BY <2>2
<1>5. CASE ServerReadsAck
  <2>1. /\ UNCHANGED <<got, inbox, sent, end, ctx>> /\ wire'["C"] = wire["C"] /\ conn' \subseteq conn
        /\ \A j \in Calls : at'[j] = at[j]
    BY <1>5 DEF ServerReadsAck, hist, Goto
  <2>2. \A j \in Calls : LogKept(j)
    BY <2>1 DEF LogKept
  <2> QED
    BY <2>2
<1>6. CASE ClientReadsGreeting
  <2>1. UNCHANGED <<got, inbox, sent, end, ctx>> /\ \A j \in Calls : at'[j] = at[j] /\ at[j] = "new"
    BY <1>6 DEF ClientReadsGreeting, HandOk, hist
  <2>2. \A j \in Calls : LogKept(j)
    BY <2>1 DEF LogKept, Last
  <2> QED
    BY <2>2
<1>7. CASE ClientAcks
  <2>1. UNCHANGED <<got, inbox, sent, end, ctx, at>> /\ wire'["C"] = wire["C"] /\ conn' \subseteq conn
    BY <1>7 DEF ClientAcks, hist, Writes, Peer
  <2>2. \A j \in Calls : LogKept(j)
    BY <2>1 DEF LogKept
  <2> QED
    BY <2>2
<1>8. CASE HandshakeExpires
  <2>1. /\ UNCHANGED <<got, inbox, sent, end, ctx>> /\ wire'["C"] = wire["C"] /\ conn' \subseteq conn
        /\ \A j \in Calls : at'[j] = at[j]
    BY <1>8 DEF HandshakeExpires, hist, Goto
  <2>2. \A j \in Calls : LogKept(j)
    BY <2>1 DEF LogKept
  <2> QED
    BY <2>2
<1>9. CASE ClosesFailed
  <2>1. /\ UNCHANGED <<got, inbox, sent, end, ctx>> /\ wire'["C"] = wire["C"] /\ conn' \subseteq conn
        /\ \A j \in Calls : at'[j] = at[j]
    BY <1>9 DEF ClosesFailed, hist, CloseSession, Goto
  <2>2. \A j \in Calls : LogKept(j)
    BY <2>1 DEF LogKept
  <2> QED
    BY <2>2
<1>10. CASE AcceptCall
  <2>1. UNCHANGED <<got, sent, conn>> /\ wire'["C"] = wire["C"] /\ OthersKept(Srv)
    BY <1>10, AcceptEnd DEF AcceptCall, hist
  <2>2. \A j \in Calls : at'[j] = at[j] /\ inbox'[j] = inbox[j] /\ (j \in ctx => j \in ctx')
    BY <1>10 DEF AcceptCall, Goto
  <2>3. \A j \in Calls : LogKept(j)
    BY <2>1, <2>2 DEF LogKept, OthersKept
  <2> QED
    BY <2>3
<1>11. CASE AcceptFails
  <2>1. /\ UNCHANGED <<got, inbox, sent, end, ctx>> /\ wire'["C"] = wire["C"] /\ conn' \subseteq conn
        /\ \A j \in Calls : at'[j] = at[j]
    BY <1>11 DEF AcceptFails, hist, Goto
  <2>2. \A j \in Calls : LogKept(j)
    BY <2>1 DEF LogKept
  <2> QED
    BY <2>2
<1>12. CASE ServerSend
  <2> DEFINE f == Frame("data", cur, end[Srv].msgs + 1)
  <2>1. /\ at[Srv] = "user" /\ UNCHANGED <<at, cur, got, inbox, ctx>>
        /\ end[Srv].msgs < MaxDown[cur] /\ Says(f) /\ cur \in Calls
        /\ end[Srv].msgs \in Nat /\ MaxDown[cur] \in Nat
    BY <1>12, SynthAssumption
    DEF Says, ServerSend, SentInv, Written, Types, EndTypes, End, EndRecord, Calls
  <2>2. f \in Frames /\ Spoken(f) /\ OthersKept(Srv)
    BY <1>12, <2>1, FrameType, HandlerSpeaks, ServerSendEnd DEF Tags
  <2>3. \A j \in Calls : end'[j] = end[j]
    BY <2>2 DEF OthersKept
  <2>4. CASE "S" \in conn'
    <3>1. "S" \in conn /\ Len(sent[cur]) = end[Srv].msgs
      BY <2>1, <2>2, <2>4 DEF Spoken, SentInv, Written
    <3>2. Len(sent[cur]) + 1 <= MaxDown[cur] /\ f = Frame("data", cur, Len(sent[cur]) + 1)
      BY <2>1, <3>1
    <3> QED
      BY <2>1, <2>2, <2>3, <2>4, <3>2, GrowsLog
  <2>5. CASE "S" \notin conn'
    <3>1. UNCHANGED <<sent, wire>> /\ conn' \subseteq conn
      BY <2>2, <2>5 DEF Spoken
    <3>2. \A j \in Calls : LogKept(j)
      BY <2>1, <2>3, <3>1 DEF LogKept
    <3> QED
      BY <3>2
  <2> QED
    BY <2>4, <2>5
<1>13. CASE ServerFinish
  <2> DEFINE f == Frame("status", cur, 0)
  <2>1. /\ at[Srv] = "user" /\ UNCHANGED <<cur, got, inbox, ctx>>
        /\ Says(f) /\ cur \in Calls /\ \A j \in Calls : at'[j] = at[j]
    BY <1>13 DEF Says, ServerFinish, SentInv, Written, Goto
  <2>2. f \in Frames /\ Spoken(f) /\ OthersKept(Srv)
    BY <1>13, <2>1, FrameType, HandlerSpeaks, ServerFinishEnd DEF Tags
  <2>3. \A j \in Calls : end'[j] = end[j]
    BY <2>2 DEF OthersKept
  <2>4. CASE "S" \in conn'
    BY <2>1, <2>2, <2>3, <2>4, GrowsLog
  <2>5. CASE "S" \notin conn'
    <3>1. UNCHANGED <<sent, wire>> /\ conn' \subseteq conn
      BY <2>2, <2>5 DEF Spoken
    <3>2. \A j \in Calls : LogKept(j)
      BY <2>1, <2>3, <3>1 DEF LogKept
    <3> QED
      BY <3>2
  <2> QED
    BY <2>4, <2>5
<1>14. ASSUME NEW k \in Calls, Expire(k) PROVE LogInv'
  <2>1. /\ UNCHANGED <<got, inbox, sent, end, at>> /\ wire' = wire /\ conn' = conn
        /\ ctx' = ctx \cup {k}
    BY <1>14 DEF Expire, hist
  <2>2. \A j \in Calls : LogKept(j)
    BY <2>1 DEF LogKept
  <2> QED
    BY <2>2
<1>15. ASSUME NEW k \in Calls, OpenCall(k) PROVE LogInv'
  BY <1>15, LendsLog
<1>16. ASSUME NEW k \in Calls, OpenWrites(k) PROVE LogInv'
  <2>1. /\ UNCHANGED <<got, inbox, sent, ctx>> /\ conn' = conn /\ wire'["C"] = wire["C"]
        /\ OthersKept(k)
    BY <1>16, OpenEnd DEF OpenWrites, hist, Writes, Peer
  <2>2. at[k] = "open" /\ at' \in {[at EXCEPT ![k] = "user"], [at EXCEPT ![k] = "dead"]}
    BY <1>16, OpenEnd DEF OpenWrites
  <2>3. \A j \in Calls : at'[j] = "new" <=> at[j] = "new"
    BY <2>2
  <2>4. \A j \in Calls : j # k => LogOk(j)'
    BY <2>1, <2>3, OthersLog DEF OthersKept
  <2> QED
    BY <1>16, <2>4, OpensLog DEF LogInv
<1>17. ASSUME NEW k \in Calls, Send(k) PROVE LogInv'
  <2>1. /\ UNCHANGED <<got, inbox, sent, ctx>> /\ wire'["C"] = wire["C"] /\ conn' \subseteq conn
        /\ OthersKept(k) /\ LoopKept(k) /\ end'[k].item = end[k].item
        /\ end'[k].term <=> end[k].term
    BY <1>17, SendEnd DEF Send, ClientWrites, Writes, WriteFails, Peer
  <2>2. \A j \in Calls : at'[j] = "new" <=> at[j] = "new"
    BY <1>17 DEF Send, SendOpen
  <2>3. \A j \in Calls : LogKept(j)
    BY <2>1, <2>2 DEF LogKept, OthersKept, LoopKept
  <2> QED
    BY <2>3
<1>18. ASSUME NEW k \in Calls, HalfClose(k) PROVE LogInv'
  <2>1. /\ UNCHANGED <<got, inbox, sent, ctx>> /\ wire'["C"] = wire["C"] /\ conn' \subseteq conn
        /\ OthersKept(k) /\ LoopKept(k) /\ end'[k].item = end[k].item
        /\ end'[k].term <=> end[k].term
    BY <1>18, SendEnd DEF HalfClose, ClientWrites, Writes, WriteFails, Peer
  <2>2. \A j \in Calls : at'[j] = "new" <=> at[j] = "new"
    BY <1>18 DEF HalfClose, HalfOpen
  <2>3. \A j \in Calls : LogKept(j)
    BY <2>1, <2>2 DEF LogKept, OthersKept, LoopKept
  <2> QED
    BY <2>3
<1>19. ASSUME NEW k \in Calls, SendPauses(k) PROVE LogInv'
  <2>1. /\ UNCHANGED <<got, inbox, sent, ctx>> /\ wire'["C"] = wire["C"] /\ conn' \subseteq conn
        /\ OthersKept(k) /\ LoopKept(k) /\ end'[k].item = end[k].item
        /\ end'[k].term <=> end[k].term
    BY <1>19, SendEnd DEF SendPauses, hist
  <2>2. \A j \in Calls : at'[j] = "new" <=> at[j] = "new"
    BY <1>19 DEF SendPauses, Goto, SendOpen, HalfOpen
  <2>3. \A j \in Calls : LogKept(j)
    BY <2>1, <2>2 DEF LogKept, OthersKept, LoopKept
  <2> QED
    BY <2>3
<1>20. ASSUME NEW k \in Calls, SendResumes(k) PROVE LogInv'
  <2>1. UNCHANGED <<got, inbox, sent, ctx, end>> /\ wire'["C"] = wire["C"] /\ conn' \subseteq conn
    BY <1>20 DEF SendResumes, ClientWrites, Writes, WriteFails, Peer
  <2>2. \A j \in Calls : at'[j] = "new" <=> at[j] = "new"
    BY <1>20 DEF SendResumes, Goto
  <2>3. \A j \in Calls : LogKept(j)
    BY <2>1, <2>2 DEF LogKept
  <2> QED
    BY <2>3
<1>21. ASSUME NEW k \in Calls, RecvEnds(k) PROVE LogInv'
  <2>1. /\ UNCHANGED <<inbox, sent, ctx, end, at, wire, conn>>
        /\ \A j \in Calls : j # k => got'[j] = got[j]
    BY <1>21 DEF RecvEnds
  <2>2. \A j \in Calls : j # k => LogOk(j)'
    BY <2>1, OthersLog
  <2> QED
    BY <1>21, <2>2, EndsLog DEF LogInv
<1>22. ASSUME NEW x \in Ends, LoopReads(x) PROVE LogInv'
  <2>1. /\ UNCHANGED <<sent, ctx, at, conn, got>> /\ end[x].loop = "read"
        /\ wire' = [wire EXCEPT ![SideOf(x)] = Tail(@)]
    BY <1>22 DEF LoopReads, hist
  <2>2. \A j \in Calls : j # x => end'[j] = end[j] /\ inbox'[j] = inbox[j]
    BY <1>22, LoopReadsEnd DEF Reads, OthersKept
  <2>3. wire'["C"] = wire["C"] \/ (x \in Calls /\ Last(x))
    <3>1. CASE x = Srv
      BY <2>1, <3>1
    <3>2. CASE x \in Calls
      BY <2>1, <3>2, LoopingCall
    <3> QED
      BY <3>1, <3>2
  <2>4. \A j \in Calls : j # x => LogOk(j)'
    BY <2>1, <2>2, <2>3, OthersLog
  <2> QED
    BY <1>22, <2>4, ReadsLog DEF LogInv
<1>23. ASSUME NEW x \in Ends, LoopReadsOpen(x) PROVE LogInv'
  <2>1. x = Srv
    BY <1>23, NoOpenRead
  <2>2. /\ UNCHANGED <<sent, ctx, at, got>> /\ wire'["C"] = wire["C"] /\ conn' \subseteq conn
    BY <1>23, <2>1 DEF LoopReadsOpen, hist
  <2>3. \A j \in Calls : end'[j] = end[j] /\ inbox'[j] = inbox[j]
    BY <1>23, <2>1, LoopReadsOpenEnd DEF LoopReadsOpen, Push, OthersKept
  <2>4. \A j \in Calls : LogKept(j)
    BY <2>2, <2>3 DEF LogKept
  <2> QED
    BY <2>4
<1>24. ASSUME NEW x \in Ends, LoopLost(x) PROVE LogInv'
  <2>1. UNCHANGED <<sent, ctx, at, got, wire>> /\ conn' \subseteq conn
    BY <1>24, LoopFailsEnd
  <2>2. \A j \in Calls : j # x => end'[j] = end[j] /\ inbox'[j] = inbox[j]
    BY <1>24, LoopFailsEnd DEF Push, OthersKept
  <2>3. \A j \in Calls : j # x => LogOk(j)'
    BY <2>1, <2>2, OthersLog
  <2> QED
    BY <1>24, <2>3, FailsLog DEF LogInv
<1>25. ASSUME NEW x \in Ends, LoopPushes(x) PROVE LogInv'
  <2>1. UNCHANGED <<sent, ctx, at, got, wire, conn>>
    BY <1>25 DEF LoopPushes, hist
  <2>2. \A j \in Calls : j # x => end'[j] = end[j] /\ inbox'[j] = inbox[j]
    BY <1>25, LoopPushesEnd DEF LoopPushes, Push, OthersKept
  <2>3. \A j \in Calls : j # x => LogOk(j)'
    BY <2>1, <2>2, OthersLog
  <2> QED
    BY <1>25, <2>3, PushesLog DEF LogInv
<1>26. ASSUME NEW x \in Ends, LoopCancelled(x) PROVE LogInv'
  <2>1. UNCHANGED <<sent, ctx, at, got, wire, conn, inbox>> /\ OthersKept(x)
    BY <1>26, LoopCancelledEnd DEF LoopCancelled, hist
  <2>2. \A j \in Calls : j # x => LogOk(j)'
    BY <2>1, OthersLog DEF OthersKept
  <2> QED
    BY <1>26, <2>2, StopsLog DEF LogInv
<1>27. ASSUME NEW x \in Ends, LoopDone(x) PROVE LogInv'
  <2>1. UNCHANGED <<sent, ctx, at, got, wire, conn, inbox>> /\ OthersKept(x)
    BY <1>27, LoopDoneEnd DEF LoopDone, hist
  <2>2. \A j \in Calls : j # x => LogOk(j)'
    BY <2>1, OthersLog DEF OthersKept
  <2> QED
    BY <1>27, <2>2, StopsLog DEF LogInv
<1>28. ASSUME NEW x \in Ends, RecvTakes(x) PROVE LogInv'
  <2>1. /\ UNCHANGED <<sent, ctx, end, at, wire, conn>>
        /\ \A j \in Calls : j # x => got'[j] = got[j] /\ inbox'[j] = inbox[j]
    BY <1>28 DEF RecvTakes
  <2>2. \A j \in Calls : j # x => LogOk(j)'
    BY <2>1, OthersLog
  <2> QED
    BY <1>28, <2>2, TakesLog DEF LogInv
<1>29. ASSUME NEW x \in Ends, CloseStarts(x) PROVE LogInv'
  <2>1. /\ UNCHANGED <<sent, at, got, wire, inbox>> /\ ctx \subseteq ctx' /\ conn' \subseteq conn
        /\ OthersKept(x) /\ LoopKept(x) /\ ItemKept(x)
    BY <1>29, CloseStartsEnd DEF CloseStarts, hist
  <2>2. \A j \in Calls : LogKept(j)
    BY <2>1 DEF LogKept, OthersKept, LoopKept, ItemKept
  <2> QED
    BY <2>2
<1>30. ASSUME NEW x \in Ends, CloseAborts(x) PROVE LogInv'
  <2>1. /\ UNCHANGED <<sent, at, got, wire, inbox>> /\ ctx \subseteq ctx' /\ conn' \subseteq conn
        /\ OthersKept(x) /\ LoopKept(x) /\ ItemKept(x)
    BY <1>30, CloseAbortsEnd DEF CloseAborts, hist
  <2>2. \A j \in Calls : LogKept(j)
    BY <2>1 DEF LogKept, OthersKept, LoopKept, ItemKept
  <2> QED
    BY <2>2
<1>31. ASSUME NEW x \in Ends, CloseDetaches(x) PROVE LogInv'
  <2>1. /\ UNCHANGED <<sent, ctx, got, wire, conn>> /\ inbox' = [inbox EXCEPT ![x] = <<>>]
        /\ OthersKept(x)
    BY <1>31, DetachSession, DetachEnd
  <2>2. \A j \in Calls : at'[j] = at[j]
    BY <1>31, DetachSession
  <2>3. \A j \in Calls : j # x => LogOk(j)'
    BY <2>1, <2>2, OthersLog DEF OthersKept
  <2> QED
    BY <1>31, <2>3, DetachLog DEF LogInv
<1>32. CASE UNCHANGED vars
  <2>1. \A j \in Calls : LogKept(j)
    BY <1>32 DEF vars, LogKept, Last
  <2> QED
    BY <2>1
<1> QED
  BY <1>1, <1>2, <1>3, <1>4, <1>5, <1>6, <1>7, <1>8, <1>9, <1>10, <1>11, <1>12, <1>13, <1>14,
      <1>15, <1>16, <1>17, <1>18, <1>19, <1>20, <1>21, <1>22, <1>23, <1>24, <1>25, <1>26, <1>27,
      <1>28, <1>29, <1>30, <1>31, <1>32
  DEF Next, Loop, LoopLost, Close

(* The calls go on, or the server's call ends: what is on its way stays     *)
(* what it was.                                                            *)
Goes ==
  /\ dial = "ready" => dial' = "ready"
  /\ \A k \in Calls : /\ Last(k)' <=> Last(k)
                      /\ Begun(k) => Begun(k)'
                      /\ sent'[k] = sent[k] \/ k = cur
  /\ late => late'
  /\ "S" \in conn' => "S" \in conn
  /\ cur' \in {cur, None}
Starts == \E k \in Calls : Begun(k)' /\ ~Begun(k)
Acks == at[Srv] \in {"ack", "fail", "gone"} => at'[Srv] \in {"ack", "fail", "gone"}

Upward == OpenOk /\ Mine /\ Served
UpTyped == wire["S"] \in Stream /\ Len(wire["S"]) \in Nat

(* A step that leaves the upward wire alone keeps what is said of it. *)
LEMMA UpKept ==
  ASSUME UpInv, Goes, Acks, ~Starts \/ "S" \notin conn', wire'["S"] = wire["S"]
  PROVE  Upward'
<1>1. \A i : NoOpenUpTo(i)' <=> NoOpenUpTo(i)
  BY DEF NoOpenUpTo
<1>2. ASSUME NEW i \in 1 .. Len(wire["S"]) PROVE FrameOk(i)'
  <2>1. FrameOk(i)
    BY DEF UpInv, OpenOk
  <2> QED
    BY <2>1, NoneIsNoCall DEF FrameOk, Goes, Acks
<1>3. Mine'
  BY <1>1 DEF UpInv, Mine, Goes
<1>4. Served'
  BY <1>1 DEF UpInv, Served, Goes, Starts
<1> QED
  BY <1>2, <1>3, <1>4 DEF OpenOk, Upward

(* The first frame is read: it is not an OPEN, or the connection is         *)
(* aborted.                                                                *)
LEMMA ShiftOk ==
  ASSUME UpInv, Goes, ~Starts, UpTyped, wire["S"] # <<>>, wire'["S"] = Tail(wire["S"])
  PROVE  /\ OpenOk'
         /\ wire["S"][1].t # "open" \/ "S" \notin conn' => Upward'
<1> DEFINE w == wire["S"]
           v == wire'["S"]
<1>1. PICK n \in Nat, m \in Nat : n = Len(w) /\ m = Len(v)
  BY Tails, Streams DEF UpTyped
<1>2. n \in Nat /\ m \in Nat /\ m = n - 1 /\ n > 0
  <2>1. Len(v) = Len(w) - 1 /\ Len(w) > 0
    BY Tails, Streams DEF UpTyped
  <2> QED
    BY <1>1, <2>1
<1>3. \A i \in 1 .. m : v[i] = w[i + 1]
  BY <1>1, <1>2, Tails DEF UpTyped
<1>4. \A i \in 1 .. m : i + 1 \in 1 .. n /\ i + 1 # 1 /\ i \in Nat
  BY <1>2
<1>5. ASSUME NEW i \in 1 .. m PROVE FrameOk(i)'
  <2>1. PICK l \in 1 .. n : l = i + 1
    BY <1>4
  <2>2. v[i] = w[l] /\ l # 1 /\ FrameOk(l)
    BY <1>1, <1>3, <1>4, <2>1 DEF UpInv, OpenOk
  <2>3. ASSUME NEW j \in 1 .. m, v[j].t = "open", v[i].t = "open" PROVE j = i
    <3>1. PICK h \in 1 .. n : h = j + 1
      BY <1>4
    <3>2. w[h].t = "open"
      BY <1>3, <2>3, <3>1
    <3>3. h = l
      BY <1>1, <2>2, <2>3, <3>2 DEF FrameOk
    <3>4. j \in Nat /\ i \in Nat
      BY <1>4
    <3> QED
      BY <2>1, <3>1, <3>3, <3>4
  <2>4. ASSUME NEW j \in i + 1 .. m, v[i].t = "open", ~late'
        PROVE  v[j].k = v[i].k /\ v[j].t # "ack"
    <3>1. j \in 1 .. m /\ j + 1 \in l + 1 .. n
      BY <1>2, <1>4, <2>1
    <3>2. v[j] = w[j + 1] /\ ~late
      BY <1>3, <2>4, <3>1 DEF Goes
    <3> QED
      BY <1>1, <2>2, <2>4, <3>1, <3>2 DEF FrameOk
  <2> QED
    BY <1>1, <2>2, <2>3, <2>4, NoneIsNoCall DEF FrameOk, Goes
<1>6. ASSUME w[1].t # "open", NEW i \in 1 .. m, NoOpenUpTo(i)'
      PROVE  NoOpenUpTo(i + 1)
  <2> SUFFICES ASSUME NEW j \in 1 .. i + 1 PROVE w[j].t # "open"
    BY DEF NoOpenUpTo
  <2>1. CASE j = 1
    BY <1>6, <2>1
  <2>2. CASE j # 1
    <3>1. PICK l \in 1 .. i : j = l + 1
      <4>1. j - 1 \in 1 .. i /\ j = (j - 1) + 1
        BY <1>4, <2>2
      <4> QED
        BY <4>1
    <3>2. l \in 1 .. m
      BY <1>2, <1>4, <3>1
    <3> QED
      BY <1>3, <1>6, <3>1, <3>2 DEF NoOpenUpTo
  <2> QED
    BY <2>1, <2>2
<1>7. ASSUME w[1].t # "open" PROVE Mine' /\ Served'
  <2>1. Mine'
    <3> SUFFICES ASSUME ~late', "S" \in conn', cur' # None, NEW i \in 1 .. m, NoOpenUpTo(i)'
                 PROVE  v[i].k = cur'
      BY <1>1 DEF Mine
    <3>1. NoOpenUpTo(i + 1) /\ v[i] = w[i + 1]
      BY <1>3, <1>6, <1>7
    <3>2. i + 1 \in 1 .. Len(w)
      BY <1>1, <1>4
    <3> QED
      BY <3>1, <3>2 DEF UpInv, Mine, Goes
  <2>2. Served'
    <3>1. NoOpenUpTo(m)' => NoOpenUpTo(n)
      <4>1. CASE m = 0
        <5>1. \A j \in 1 .. n : j = 1
          BY <1>2, <4>1
        <5> QED
          BY <1>7, <5>1 DEF NoOpenUpTo
      <4>2. CASE m # 0
        <5>1. m \in 1 .. m /\ m + 1 = n
          BY <1>2, <4>2
        <5> QED
          BY <1>6, <1>7, <5>1
      <4> QED
        BY <4>1, <4>2
    <3>2. NoOpenUpTo(Len(wire["S"]))' => NoOpenUpTo(Len(wire["S"]))
      BY <1>1, <3>1
    <3> QED
      BY <3>2 DEF UpInv, Served, Goes, Starts
  <2> QED
    BY <2>1, <2>2
<1>8. "S" \notin conn' => Mine' /\ Served'
  BY DEF Mine, Served
<1> QED
  BY <1>1, <1>5, <1>7, <1>8 DEF OpenOk, Upward

(* A frame is written: the ack, the OPEN, or one of the last call. *)
LEMMA AppendOk ==
  ASSUME UpInv, UpTyped, NEW g \in Frames, wire'["S"] = Append(wire["S"], g), Goes, Acks,
         g.t \in {"ack", "open", "data", "end"},
         Starts => g.t = "open",
         g.t = "ack" => /\ dial' = "ready" /\ at'[Srv] \in {"ack", "fail", "gone"}
                        /\ wire["S"] = <<>> /\ cur = None,
         g.t = "open" => /\ g.k \in Calls /\ Last(g.k)' /\ Begun(g.k)' /\ sent'[g.k] = <<>>
                         /\ cur' # g.k /\ NoOpenUpTo(Len(wire["S"])),
         g.t \in {"data", "end"} /\ ~late' => g.k \in Calls /\ Last(g.k) /\ Begun(g.k)
  PROVE  Upward'
<1> DEFINE w == wire["S"]
           v == wire'["S"]
<1>1. PICK n \in Nat, m \in Nat : n = Len(w) /\ m = Len(v)
  BY Appends, Streams DEF UpTyped
<1>2. n \in Nat /\ m \in Nat /\ m = n + 1
  <2>1. Len(v) = Len(w) + 1
    BY Appends DEF UpTyped
  <2> QED
    BY <1>1, <2>1
<1>3. v[m] = g /\ \A i \in 1 .. n : v[i] = w[i]
  BY <1>1, <1>2, Appends DEF UpTyped
<1>4. \A i \in 1 .. m : i = m \/ i \in 1 .. n
  BY <1>2
<1>5. \A i \in 1 .. n : w[i].t = "open" => g.t # "open"
  BY <1>1 DEF NoOpenUpTo
<1>6. ASSUME NEW i \in 1 .. n, w[i].t = "open", ~late' PROVE g.k = w[i].k /\ g.t # "ack"
  <2>1. w[i].k \in Calls /\ Last(w[i].k) /\ ~late
    BY <1>1, <1>6 DEF UpInv, OpenOk, FrameOk, Goes
  <2>2. g.t # "ack" /\ g.t # "open"
    <3>1. w = <<>> => n = 0
      BY <1>1, Streams
    <3>2. n # 0
      BY <1>2
    <3> QED
      BY <1>5, <1>6, <3>1, <3>2
  <2> QED
    BY <1>6, <2>1, <2>2, LastUnique
<1>7. ASSUME NEW i \in 1 .. n PROVE FrameOk(i)'
  <2>1. FrameOk(i) /\ v[i] = w[i]
    BY <1>1, <1>3 DEF UpInv, OpenOk
  <2>2. ASSUME w[i].t = "open", NEW j \in 1 .. m, v[j].t = "open" PROVE j = i
    BY <1>1, <1>3, <1>4, <1>5, <2>1, <2>2 DEF FrameOk
  <2>3. ASSUME w[i].t = "open", ~late', NEW j \in i + 1 .. m
        PROVE  v[j].k = w[i].k /\ v[j].t # "ack"
    <3>1. j = m \/ j \in i + 1 .. n
      BY <1>2
    <3>2. CASE j = m
      BY <1>3, <1>6, <2>3, <3>2
    <3>3. CASE j \in i + 1 .. n
      <4>1. j \in 1 .. n
        BY <1>2, <3>3
      <4> QED
        BY <1>1, <1>3, <2>1, <2>3, <3>3, <4>1 DEF FrameOk, Goes
    <3> QED
      BY <3>1, <3>2, <3>3
  <2> QED
    BY <1>1, <2>1, <2>2, <2>3, NoneIsNoCall DEF FrameOk, Goes, Acks
<1>8. FrameOk(m)'
  <2>1. g.t = "ack" => m = 1
    <3>1. w = <<>> => n = 0
      BY <1>1, Streams
    <3> QED
      BY <1>2, <3>1
  <2>2. g.t = "open" => \A j \in 1 .. m : v[j].t = "open" => j = m
    BY <1>3, <1>4, <1>5
  <2>3. \A j \in m + 1 .. m : FALSE
    BY <1>2
  <2> QED
    BY <1>1, <1>3, <2>1, <2>2, <2>3 DEF FrameOk
<1>9. OpenOk'
  <2>1. \A i \in 1 .. m : FrameOk(i)'
    BY <1>4, <1>7, <1>8
  <2> QED
    BY <1>1, <2>1 DEF OpenOk
<1>10. NoOpenUpTo(m)' => NoOpenUpTo(n) /\ g.t # "open"
  <2>1. m \in 1 .. m /\ \A i \in 1 .. n : i \in 1 .. m
    BY <1>2
  <2> QED
    BY <1>3, <2>1 DEF NoOpenUpTo
<1>11. Served'
  <2>1. NoOpenUpTo(Len(wire["S"]))' => NoOpenUpTo(Len(wire["S"]))
    BY <1>1, <1>10
  <2> QED
    BY <1>1, <1>10, <2>1 DEF UpInv, Served, Goes, Starts
<1>12. Mine'
  <2> SUFFICES ASSUME ~late', "S" \in conn', cur' # None, NEW i \in 1 .. m, NoOpenUpTo(i)'
               PROVE  v[i].k = cur'
    BY <1>1 DEF Mine
  <2>1. cur' = cur /\ ~late /\ "S" \in conn
    BY DEF Goes
  <2>2. CASE i \in 1 .. n
    <3>1. \A j \in 1 .. i : j \in 1 .. n
      BY <1>2, <2>2
    <3>2. NoOpenUpTo(i)
      BY <1>3, <3>1 DEF NoOpenUpTo
    <3> QED
      BY <1>1, <1>3, <2>1, <2>2, <3>2 DEF UpInv, Mine
  <2>3. CASE i = m
    <3>1. NoOpenUpTo(n) /\ g.t # "open"
      BY <1>10, <2>3
    <3>2. g.k \in Calls /\ Last(g.k) /\ Begun(g.k)
      BY <2>1, <3>1
    <3> QED
      BY <1>1, <1>3, <2>1, <2>3, <3>1, <3>2 DEF UpInv, Served
  <2> QED
    BY <1>4, <2>2, <2>3
<1> QED
  BY <1>9, <1>11, <1>12 DEF Upward

(* A step that begins no call, opens none and lets every OPEN be. *)
LEMMA GoesOn ==
  ASSUME dial = "ready" => dial' = "ready",
         \A k \in Calls : at'[k] = at[k] \/ (Begun(k) /\ Begun(k)'),
         \A k \in Calls : sent'[k] = sent[k] \/ k = cur,
         late => late', "S" \in conn' => "S" \in conn, cur' \in {cur, None}
  PROVE  Goes /\ ~Starts
<1>1. \A k \in Calls : (at'[k] = "new" <=> at[k] = "new") /\ (Begun(k)' <=> Begun(k))
  BY DEF Begun
<1>2. \A k \in Calls : Last(k)' <=> Last(k)
  BY <1>1 DEF Last
<1> QED
  BY <1>1, <1>2 DEF Goes, Starts

(* No OPEN waits while the session may be lent. *)
LEMMA NoOpenPending ==
  ASSUME Types, CallInv, LogInv, UpInv, Usable, ~sess["C"].inCall
  PROVE  NoOpenUpTo(Len(wire["S"]))
<1> SUFFICES ASSUME NEW i \in 1 .. Len(wire["S"]), wire["S"][i].t = "open" PROVE FALSE
  BY DEF NoOpenUpTo
<1>1. PICK k \in Calls : Last(k) /\ sent[k] = <<>>
  BY DEF UpInv, OpenOk, FrameOk
<1>2. end[k].term
  BY <1>1 DEF CallInv, CallOk, Last
<1> QED
  BY <1>1, <1>2 DEF LogInv, LogOk, TermOk, HasEnd

(* openCall has not written yet. *)
LEMMA LendsUp ==
  ASSUME Types, CallInv, LogInv, UpInv, NEW k \in Calls, OpenCall(k)
  PROVE  Upward'
<1>1. /\ at[k] = "new" /\ at'[k] = "open" /\ Usable /\ ~sess["C"].inCall
      /\ at'[Srv] = at[Srv]
      /\ UNCHANGED <<conn, wire, dial, cur, sent, late>>
  BY LendSession, Ints
<1>2. NoOpenUpTo(Len(wire["S"])) /\ \A i : NoOpenUpTo(i)' <=> NoOpenUpTo(i)
  BY <1>1, NoOpenPending DEF NoOpenUpTo
<1>3. OpenOk'
  BY <1>1, <1>2 DEF UpInv, OpenOk, FrameOk, NoOpenUpTo
<1>4. Mine'
  BY <1>1, <1>2 DEF UpInv, Mine
<1>5. ASSUME NEW j \in Calls, Last(j)' PROVE ~Begun(j)'
  <2>1. ~(k > j)
    BY <1>1, <1>5 DEF Last
  <2>2. ~(k < j)
    <3>1. SUFFICES ASSUME k < j PROVE FALSE
      OBVIOUS
    <3>2. at[j] # "new"
      BY <1>5, <3>1, LendSession, Ints DEF Last, Calls
    <3> QED
      BY <1>1, <3>1, <3>2 DEF CallInv, CallOk
  <2>3. j = k
    BY <2>1, <2>2 DEF Calls
  <2> QED
    BY <1>1, <2>3 DEF Begun
<1> QED
  BY <1>3, <1>4, <1>5 DEF Served, Upward

(* The call that opens is the last one and none of it is on the wire yet. *)
LEMMA OpensUp ==
  ASSUME Types, CtlInv, CallInv, SentInv, UpInv, NEW k \in Calls, OpenWrites(k)
  PROVE  Upward'
<1> DEFINE g == Frame("open", k, 0)
<1>1. /\ at[k] = "open" /\ UNCHANGED <<dial, cur, sent, late, conn>> /\ CloseKept(k)
      /\ \/ Writes("C", g) /\ at' = [at EXCEPT ![k] = "user"]
         \/ wire' = wire /\ at' = [at EXCEPT ![k] = "dead"]
  <2>1. /\ at[k] = "open" /\ UNCHANGED <<dial, cur, sent, late>>
    BY DEF OpenWrites, hist
  <2>2. /\ CloseKept(k)
        /\ \/ Writes("C", g) /\ at' = [at EXCEPT ![k] = "user"]
           \/ UNCHANGED <<conn, wire>> /\ at' = [at EXCEPT ![k] = "dead"]
    BY OpenEnd
  <2>3. Writes("C", g) => conn' = conn
    BY DEF Writes
  <2> QED
    BY <2>1, <2>2, <2>3
<1>2. at \in [Ends -> SrvPlaces \cup CallPlaces] /\ k \in Ends /\ k # Srv
      /\ \A j \in Calls : j \in Ends
  BY Ints DEF Types, AtTypes
<1>3. /\ at'[Srv] = at[Srv] /\ at'[k] \in {"user", "dead"}
      /\ \A j \in Calls : j # k => at'[j] = at[j]
  BY <1>1, <1>2, Ints
<1>4. \A j \in Calls : Last(j)' <=> Last(j)
  <2>1. \A j \in Calls : at'[j] = "new" <=> at[j] = "new"
    BY <1>1, <1>3
  <2> QED
    BY <2>1 DEF Last
<1>5. \A j \in Calls : j # k => (Begun(j)' <=> Begun(j))
  BY <1>3 DEF Begun
<1>6. Goes /\ Acks
  BY <1>1, <1>3, <1>4, <1>5 DEF Goes, Acks, Begun
<1>7. end[k].closing = "no"
  BY <1>1, <1>2 DEF CtlInv, LoopOk, Begun
<1>8. Last(k) /\ ~Begun(k)
  BY <1>1, <1>7 DEF CallInv, CallOk, Holding, Begun
<1>9. CASE wire' = wire /\ at' = [at EXCEPT ![k] = "dead"]
  <2>1. at'[k] = "dead"
    BY <1>2, <1>9
  <2>2. ~Starts
    BY <1>5, <2>1 DEF Starts, Begun
  <2> QED
    BY <1>6, <1>9, <2>2, UpKept
<1>10. CASE Writes("C", g) /\ at' = [at EXCEPT ![k] = "user"]
  <2>1. CASE "S" \notin conn
    <3>1. wire'["S"] = wire["S"]
      BY <1>10, <2>1 DEF Writes, Peer, Types, WireTypes, Sides
    <3> QED
      BY <1>1, <1>6, <2>1, <3>1, UpKept
  <2>2. CASE "S" \in conn
    <3>1. g \in Frames /\ UpTyped
      BY FrameType, Streams DEF Tags, UpTyped, Types, WireTypes, Sides
    <3>2. wire'["S"] = Append(wire["S"], g)
      BY <1>10, <2>2 DEF Writes, Peer, Types, WireTypes, Sides
    <3>3. NoOpenUpTo(Len(wire["S"]))
      <4> SUFFICES ASSUME NEW i \in 1 .. Len(wire["S"]), wire["S"][i].t = "open" PROVE FALSE
        BY DEF NoOpenUpTo
      <4>1. PICK j \in Calls : Last(j) /\ Begun(j)
        BY DEF UpInv, OpenOk, FrameOk
      <4> QED
        BY <1>8, <4>1, LastUnique
    <3>4. Last(k)' /\ Begun(k)' /\ sent'[k] = <<>> /\ cur' # k
      BY <1>1, <1>2, <1>4, <1>8, <1>10 DEF SentInv, SentOk, Begun
    <3>5. g.t = "open" /\ g.k = k
      BY DEF Frame
    <3> QED
      BY <1>6, <3>1, <3>2, <3>3, <3>4, <3>5, AppendOk
  <2> QED
    BY <2>1, <2>2
<1> QED
  BY <1>1, <1>9, <1>10

(* A frame of a call: of the one opened last, unless Close overtook it. *)
LEMMA WritesUp ==
  ASSUME Types, CallInv, UpInv, NEW k \in Calls, NEW t \in {"data", "end"}, NEW n \in Nat,
         ClientWrites(k, Frame(t, k, n)), Begun(k), end'[k].closing = end[k].closing,
         UNCHANGED dial, at'[Srv] = at[Srv],
         \A j \in Calls : at'[j] = at[j] \/ (Begun(j) /\ Begun(j)')
  PROVE  Upward'
<1> DEFINE g == Frame(t, k, n)
<1>1. UNCHANGED <<cur, sent>> /\ (late => late')
  <2>1. UNCHANGED <<cur, sent>> /\ late' \in {late, late \/ end[k].closing = "done"}
    BY DEF ClientWrites
  <2>2. late \in BOOLEAN
    BY DEF Types, LogTypes
  <2> QED
    BY <2>1, <2>2
<1>2. /\ wire \in [Sides -> Stream] /\ "S" \in Sides /\ UpTyped
      /\ g \in Frames /\ g.t = t /\ g.k = k
  BY FrameType, Streams DEF Types, WireTypes, Sides, UpTyped, Tags, Frame
<1>3. "S" \in conn' <=> "S" \in conn
  BY DEF ClientWrites, Writes, WriteFails
<1>4. Goes /\ Acks /\ ~Starts
  BY <1>1, <1>3, GoesOn DEF Acks
<1>5. CASE wire'["S"] = wire["S"]
  BY <1>4, <1>5, UpKept
<1>6. CASE wire'["S"] # wire["S"]
  <2>1. Writes("C", g) /\ late' = (late \/ end[k].closing = "done")
    BY <1>6 DEF ClientWrites, WriteFails
  <2>2. wire'["S"] = Append(wire["S"], g)
    BY <1>2, <1>6, <2>1 DEF Writes, Peer
  <2>3. ~late' => Last(k)
    BY <2>1 DEF CallInv, CallOk, Holding, Begun
  <2> QED
    BY <1>2, <1>4, <2>2, <2>3, AppendOk
<1> QED
  BY <1>5, <1>6

(* The server takes the OPEN: what is behind it is of that call. *)
LEMMA AcceptsUp ==
  ASSUME Types, CtlInv, UpInv, AcceptCall
  PROVE  Upward'
<1> DEFINE w == wire["S"]
           v == wire'["S"]
<1>1. /\ cur' \in Calls /\ w # <<>> /\ cur' = w[1].k /\ w[1].t = "open" /\ w \in Stream
      /\ UNCHANGED <<conn, dial, sent, late>> /\ \A j \in Calls : at'[j] = at[j]
      /\ wire'["S"] = Tail(w)
  BY AcceptsCall, Ints DEF AcceptCall, Goto, hist, UpInv, Types, WireTypes, Sides
<1>2. PICK n \in Nat, m \in Nat : n = Len(w) /\ m = Len(v)
  BY <1>1, Tails, Streams
<1>3. n \in Nat /\ m \in Nat /\ m = n - 1 /\ n > 0
  <2>1. Len(v) = Len(w) - 1 /\ Len(w) > 0
    BY <1>1, Tails, Streams
  <2> QED
    BY <1>2, <2>1
<1>4. \A i \in 1 .. m : v[i] = w[i + 1]
  BY <1>1, <1>2, <1>3, Tails
<1>5. \A i \in 1 .. m : i + 1 \in 1 .. n /\ i + 1 # 1 /\ i + 1 \in 1 + 1 .. n
  BY <1>3
<1>6. 1 \in 1 .. n
  BY <1>3
<1>7. FrameOk(1)
  BY <1>2, <1>6 DEF UpInv, OpenOk
<1>8. \A j \in Calls : (Last(j)' <=> Last(j)) /\ (Begun(j)' <=> Begun(j))
  BY <1>1 DEF Last, Begun
<1>9. \A i \in 1 .. m : v[i].t \in {"data", "end"}
  <2> TAKE i \in 1 .. m
  <2>1. PICK l \in 1 .. n : l = i + 1 /\ l # 1
    BY <1>5
  <2>2. FrameOk(l) /\ v[i] = w[l]
    BY <1>2, <1>4, <2>1 DEF UpInv, OpenOk
  <2>3. w[l].t # "open"
    BY <1>1, <1>2, <1>7, <2>1 DEF FrameOk
  <2> QED
    BY <2>1, <2>2, <2>3 DEF FrameOk
<1>10. OpenOk'
  BY <1>2, <1>9 DEF OpenOk, FrameOk
<1>11. Mine'
  <2>1. ~late => \A i \in 1 .. m : v[i].k = cur'
    BY <1>1, <1>2, <1>4, <1>5, <1>7 DEF FrameOk
  <2> QED
    BY <1>1, <1>2, <2>1 DEF Mine
<1>12. Served'
  <2>1. Last(cur')
    BY <1>1, <1>7 DEF FrameOk
  <2>2. \A j \in Calls : Last(j)' => j = cur'
    BY <1>1, <1>8, <2>1, LastUnique
  <2> QED
    BY <2>2 DEF Served
<1> QED
  BY <1>10, <1>11, <1>12 DEF Upward

(* What is on its way to the server. *)
LEMMA UpStep ==
  Types /\ CtlInv /\ CallInv /\ SentInv /\ HandOk /\ LogInv /\ UpInv /\ [Next]_vars => Upward'
<1> SUFFICES ASSUME Types, CtlInv, CallInv, SentInv, HandOk, LogInv, UpInv, [Next]_vars
             PROVE  Upward'
  OBVIOUS
<1>c. /\ \A j \in Calls : j # Srv /\ j \in Ends /\ SideOf(j) = "C"
      /\ \A x \in Ends : x \in Calls \/ (x = Srv /\ SideOf(x) = "S")
      /\ Srv \in Ends /\ UpTyped
      /\ at \in [Ends -> SrvPlaces \cup CallPlaces]
      /\ wire \in [Sides -> Stream] /\ "C" \in Sides /\ "S" \in Sides
  BY Ints, Streams DEF Types, AtTypes, WireTypes, Sides, SideOf, Ends, UpTyped
<1>k. Goes /\ Acks /\ ~Starts /\ wire'["S"] = wire["S"] => Upward'
  BY UpKept
<1> USE <1>c, <1>k, GoesOn
<1>1. CASE ClientClose
  <2>1. /\ wire'["S"] = wire["S"] /\ UNCHANGED <<sent, late, cur>> /\ conn' \subseteq conn
        /\ \A j \in Calls : at'[j] = at[j]
    BY <1>1 DEF ClientClose, hist, CloseSession
  <2>2. (dial = "ready" => dial' = "ready") /\ Acks
    BY <1>1 DEF ClientClose, Acks
  <2>3. Goes /\ ~Starts
    BY <2>1, <2>2
  <2> QED
    BY <2>1, <2>2, <2>3
<1>2. CASE ServerClose
  <2>1. /\ wire'["S"] = wire["S"] /\ UNCHANGED <<sent, late, cur>> /\ conn' \subseteq conn
        /\ \A j \in Calls : at'[j] = at[j]
    BY <1>2 DEF ServerClose, hist, CloseSession
  <2>2. (dial = "ready" => dial' = "ready") /\ Acks
    BY <1>2 DEF ServerClose, Acks
  <2>3. Goes /\ ~Starts
    BY <2>1, <2>2
  <2> QED
    BY <2>1, <2>2, <2>3
<1>3. CASE Cut
  <2>1. /\ wire'["S"] = wire["S"] /\ UNCHANGED <<sent, late, cur>> /\ conn' \subseteq conn
        /\ \A j \in Calls : at'[j] = at[j]
    BY <1>3 DEF Cut, hist
  <2>2. (dial = "ready" => dial' = "ready") /\ Acks
    BY <1>3 DEF Cut, Acks
  <2>3. Goes /\ ~Starts
    BY <2>1, <2>2
  <2> QED
    BY <2>1, <2>2, <2>3
<1>4. CASE ServerGreets
  <2>1. /\ wire'["S"] = wire["S"] /\ UNCHANGED <<sent, late, cur>> /\ conn' \subseteq conn
        /\ \A j \in Calls : at'[j] = at[j]
    BY <1>4 DEF ServerGreets, hist, Goto, Writes, WriteFails, Peer
  <2>2. (dial = "ready" => dial' = "ready") /\ Acks
    BY <1>4 DEF ServerGreets, Goto, Acks
  <2>3. Goes /\ ~Starts
    BY <2>1, <2>2
  <2> QED
    BY <2>1, <2>2, <2>3
<1>5. CASE ServerReadsAck
  <2>1. /\ UNCHANGED <<sent, late, cur, conn, dial>> /\ \A j \in Calls : at'[j] = at[j]
    BY <1>5 DEF ServerReadsAck, hist, Goto
  <2>2. Goes /\ ~Starts
    BY <2>1
  <2>3. CASE UNCHANGED wire /\ at' = [at EXCEPT ![Srv] = "fail"]
    <3>1. Acks
      BY <2>3 DEF Acks
    <3> QED
      BY <2>2, <2>3, <3>1
  <2>4. CASE Arriving("S", "ack") /\ wire' = [wire EXCEPT !["S"] = Tail(@)]
    <3>1. wire["S"] # <<>> /\ wire["S"][1].t = "ack" /\ wire'["S"] = Tail(wire["S"])
      BY <2>4, Tails DEF Arriving
    <3> QED
      BY <2>2, <3>1, ShiftOk
  <2> QED
    BY <1>5, <2>3, <2>4 DEF ServerReadsAck, Goto
<1>6. CASE ClientReadsGreeting
  <2>1. /\ wire'["S"] = wire["S"] /\ UNCHANGED <<sent, late, cur>> /\ conn' \subseteq conn
        /\ \A j \in Calls : at'[j] = at[j]
    BY <1>6 DEF ClientReadsGreeting, hist, Peer
  <2>2. (dial = "ready" => dial' = "ready") /\ Acks
    BY <1>6 DEF ClientReadsGreeting, Acks
  <2>3. Goes /\ ~Starts
    BY <2>1, <2>2
  <2> QED
    BY <2>1, <2>2, <2>3
<1>7. CASE ClientAcks
  <2> DEFINE g == Frame("ack", None, 0)
  <2>1. dial = "ack" /\ UNCHANGED <<sent, late, cur, conn, at>>
    BY <1>7 DEF ClientAcks, Writes, hist
  <2>2. Goes /\ ~Starts /\ Acks
    BY <2>1 DEF Acks
  <2>3. CASE wire'["S"] = wire["S"]
    BY <2>2, <2>3
  <2>4. CASE wire'["S"] # wire["S"]
    <3>1. Writes("C", g) /\ dial' = "ready"
      BY <1>7, <2>4 DEF ClientAcks
    <3>2. wire'["S"] = Append(wire["S"], g)
      BY <2>4, <3>1 DEF Writes, Peer
    <3>3. wire["S"] = <<>> /\ at[Srv] \in {"ack", "fail", "gone"} /\ cur = None
      BY <2>1 DEF HandOk, CtlInv, SrvOk
    <3>4. g \in Frames /\ g.t = "ack"
      BY FrameType DEF Tags, Frame
    <3> QED
      BY <2>1, <2>2, <3>1, <3>2, <3>3, <3>4, AppendOk
  <2> QED
    BY <2>3, <2>4
<1>8. CASE HandshakeExpires
  <2>1. /\ wire'["S"] = wire["S"] /\ UNCHANGED <<sent, late, cur>> /\ conn' \subseteq conn
        /\ \A j \in Calls : at'[j] = at[j]
    BY <1>8 DEF HandshakeExpires, hist, Goto
  <2>2. (dial = "ready" => dial' = "ready") /\ Acks
    BY <1>8 DEF HandshakeExpires, Goto, Acks
  <2>3. Goes /\ ~Starts
    BY <2>1, <2>2
  <2> QED
    BY <2>1, <2>2, <2>3
<1>9. CASE ClosesFailed
  <2>1. /\ wire'["S"] = wire["S"] /\ UNCHANGED <<sent, late, cur>> /\ conn' \subseteq conn
        /\ \A j \in Calls : at'[j] = at[j]
    BY <1>9 DEF ClosesFailed, hist, CloseSession, Goto
  <2>2. (dial = "ready" => dial' = "ready") /\ Acks
    BY <1>9 DEF ClosesFailed, Goto, Acks
  <2>3. Goes /\ ~Starts
    BY <2>1, <2>2
  <2> QED
    BY <2>1, <2>2, <2>3
<1>10. CASE AcceptCall
  BY <1>10, AcceptsUp
<1>11. CASE AcceptFails
  <2>1. /\ wire'["S"] = wire["S"] /\ UNCHANGED <<sent, late, cur>> /\ conn' \subseteq conn
        /\ \A j \in Calls : at'[j] = at[j]
    BY <1>11 DEF AcceptFails, hist, Goto, Peer
  <2>2. (dial = "ready" => dial' = "ready") /\ Acks
    BY <1>11 DEF AcceptFails, Goto, Acks
  <2>3. Goes /\ ~Starts
    BY <2>1, <2>2
  <2> QED
    BY <2>1, <2>2, <2>3
<1>12. CASE ServerSend
  <2>1. Spoken(Frame("data", cur, end[Srv].msgs + 1)) /\ UNCHANGED <<at, dial, late, cur>>
    BY <1>12, HandlerSpeaks DEF Says, ServerSend
  <2>2. wire'["S"] = wire["S"] /\ (\A j \in Calls : sent'[j] = sent[j] \/ j = cur)
        /\ ("S" \in conn' => "S" \in conn)
    BY <2>1 DEF Spoken, Types, LogTypes
  <2>3. Goes /\ ~Starts /\ Acks
    BY <2>1, <2>2 DEF Acks
  <2> QED
    BY <2>2, <2>3
<1>13. CASE ServerFinish
  <2>1. Spoken(Frame("status", cur, 0)) /\ UNCHANGED <<dial, late, cur>> /\ at[Srv] = "user"
        /\ \A j \in Calls : at'[j] = at[j]
    BY <1>13, HandlerSpeaks DEF Says, ServerFinish, Goto
  <2>2. wire'["S"] = wire["S"] /\ (\A j \in Calls : sent'[j] = sent[j] \/ j = cur)
        /\ ("S" \in conn' => "S" \in conn)
    BY <2>1 DEF Spoken, Types, LogTypes
  <2>3. Goes /\ ~Starts /\ Acks
    BY <2>1, <2>2 DEF Acks
  <2> QED
    BY <2>2, <2>3
<1>14. ASSUME NEW k \in Calls, Expire(k) PROVE Upward'
  <2>1. /\ wire'["S"] = wire["S"] /\ UNCHANGED <<sent, late, cur>> /\ conn' \subseteq conn
        /\ \A j \in Calls : at'[j] = at[j]
    BY <1>14 DEF Expire, hist
  <2>2. (dial = "ready" => dial' = "ready") /\ Acks
    BY <1>14 DEF Expire, Acks
  <2>3. Goes /\ ~Starts
    BY <2>1, <2>2
  <2> QED
    BY <2>1, <2>2, <2>3
<1>15. ASSUME NEW k \in Calls, OpenCall(k) PROVE Upward'
  BY <1>15, LendsUp
<1>16. ASSUME NEW k \in Calls, OpenWrites(k) PROVE Upward'
  BY <1>16, OpensUp
<1>17. ASSUME NEW k \in Calls, Send(k) PROVE Upward'
  <2>1. /\ at[k] = "user" /\ UNCHANGED <<at, dial>>
        /\ ClientWrites(k, Frame("data", k, end'[k].msgs))
        /\ end'[k].msgs = end[k].msgs + 1
    BY <1>17 DEF Send, SendOpen, ClientWrites, Types, EndTypes, End, EndRecord
  <2>2. end'[k].closing = end[k].closing
    BY <1>17, SendEnd DEF CloseKept
  <2>3. end'[k].msgs \in Nat /\ Begun(k)
    BY <2>1 DEF Types, EndTypes, End, EndRecord, Begun
  <2> QED
    BY <2>1, <2>2, <2>3, WritesUp
<1>18. ASSUME NEW k \in Calls, HalfClose(k) PROVE Upward'
  <2>1. /\ at[k] = "user" /\ UNCHANGED <<at, dial>>
        /\ ClientWrites(k, Frame("end", k, 0))
    BY <1>18 DEF HalfClose, HalfOpen, ClientWrites
  <2>2. end'[k].closing = end[k].closing
    BY <1>18, SendEnd DEF CloseKept
  <2>3. Begun(k)
    BY <2>1 DEF Begun
  <2> QED
    BY <2>1, <2>2, <2>3, WritesUp
<1>19. ASSUME NEW k \in Calls, SendPauses(k) PROVE Upward'
  <2>1. /\ at[k] = "user" /\ UNCHANGED <<conn, wire, dial, cur, sent, late>>
        /\ at' \in {[at EXCEPT ![k] = "data"], [at EXCEPT ![k] = "end"]}
    BY <1>19 DEF SendPauses, SendOpen, HalfOpen, Goto, hist
  <2>2. Acks /\ \A j \in Calls : at'[j] = at[j] \/ (Begun(j) /\ Begun(j)')
    BY <2>1 DEF Acks, Begun
  <2>3. Goes /\ ~Starts
    BY <2>1, <2>2
  <2> QED
    BY <2>1, <2>2, <2>3
<1>20. ASSUME NEW k \in Calls, SendResumes(k) PROVE Upward'
  <2>1. /\ at[k] \in {"data", "end"} /\ UNCHANGED <<end, dial>>
        /\ ClientWrites(k, Frame(at[k], k, end[k].msgs)) /\ at' = [at EXCEPT ![k] = "user"]
        /\ end[k].msgs \in Nat
    BY <1>20 DEF SendResumes, Goto, ClientWrites, Types, EndTypes, End, EndRecord
  <2>2. at'[Srv] = at[Srv] /\ Begun(k) /\ \A j \in Calls : at'[j] = at[j] \/ (Begun(j) /\ Begun(j)')
    BY <2>1 DEF Begun
  <2> QED
    BY <2>1, <2>2, WritesUp
<1>21. ASSUME NEW k \in Calls, RecvEnds(k) PROVE Upward'
  <2>1. /\ wire'["S"] = wire["S"] /\ UNCHANGED <<sent, late, cur>> /\ conn' \subseteq conn
        /\ \A j \in Calls : at'[j] = at[j]
    BY <1>21 DEF RecvEnds
  <2>2. (dial = "ready" => dial' = "ready") /\ Acks
    BY <1>21 DEF RecvEnds, Acks
  <2>3. Goes /\ ~Starts
    BY <2>1, <2>2
  <2> QED
    BY <2>1, <2>2, <2>3
<1>22. ASSUME NEW x \in Ends, LoopReads(x) PROVE Upward'
  <2>1. UNCHANGED <<sent, late, cur, conn, dial, at>> /\ wire' = [wire EXCEPT ![SideOf(x)] = Tail(@)]
        /\ wire[SideOf(x)] # <<>> /\ Head(wire[SideOf(x)]).t # "open"
    BY <1>22 DEF LoopReads, hist
  <2>2. Goes /\ ~Starts /\ Acks
    BY <2>1 DEF Acks
  <2>3. CASE x = Srv
    <3>1. wire["S"] # <<>> /\ wire["S"][1].t # "open" /\ wire'["S"] = Tail(wire["S"])
      BY <2>1, <2>3, Tails
    <3> QED
      BY <2>2, <3>1, ShiftOk
  <2>4. CASE x # Srv
    BY <2>1, <2>2, <2>4
  <2> QED
    BY <2>3, <2>4
<1>23. ASSUME NEW x \in Ends, LoopReadsOpen(x) PROVE Upward'
  <2>1. UNCHANGED <<sent, late, cur, dial, at>> /\ wire' = [wire EXCEPT ![SideOf(x)] = Tail(@)]
        /\ wire[SideOf(x)] # <<>> /\ conn' = conn \ {SideOf(x)}
    BY <1>23 DEF LoopReadsOpen, Arriving, hist
  <2>2. Goes /\ ~Starts /\ Acks
    BY <2>1 DEF Acks
  <2>3. CASE x = Srv
    <3>1. wire["S"] # <<>> /\ "S" \notin conn' /\ wire'["S"] = Tail(wire["S"])
      BY <2>1, <2>3
    <3> QED
      BY <2>2, <3>1, ShiftOk
  <2>4. CASE x # Srv
    BY <2>1, <2>2, <2>4
  <2> QED
    BY <2>3, <2>4
<1>24. ASSUME NEW x \in Ends, LoopLost(x) PROVE Upward'
  <2>1. UNCHANGED <<sent, late, cur, dial, at, wire>> /\ conn' \subseteq conn
    BY <1>24, LoopFailsEnd
  <2>2. Goes /\ ~Starts /\ Acks
    BY <2>1 DEF Acks
  <2> QED
    BY <2>1, <2>2
<1>25. ASSUME NEW x \in Ends, LoopPushes(x) PROVE Upward'
  <2>1. /\ wire'["S"] = wire["S"] /\ UNCHANGED <<sent, late, cur>> /\ conn' \subseteq conn
        /\ \A j \in Calls : at'[j] = at[j]
    BY <1>25 DEF LoopPushes, hist
  <2>2. (dial = "ready" => dial' = "ready") /\ Acks
    BY <1>25 DEF LoopPushes, Acks
  <2>3. Goes /\ ~Starts
    BY <2>1, <2>2
  <2> QED
    BY <2>1, <2>2, <2>3
<1>26. ASSUME NEW x \in Ends, LoopCancelled(x) PROVE Upward'
  <2>1. /\ wire'["S"] = wire["S"] /\ UNCHANGED <<sent, late, cur>> /\ conn' \subseteq conn
        /\ \A j \in Calls : at'[j] = at[j]
    BY <1>26 DEF LoopCancelled, hist
  <2>2. (dial = "ready" => dial' = "ready") /\ Acks
    BY <1>26 DEF LoopCancelled, Acks
  <2>3. Goes /\ ~Starts
    BY <2>1, <2>2
  <2> QED
    BY <2>1, <2>2, <2>3
<1>27. ASSUME NEW x \in Ends, LoopDone(x) PROVE Upward'
  <2>1. /\ wire'["S"] = wire["S"] /\ UNCHANGED <<sent, late, cur>> /\ conn' \subseteq conn
        /\ \A j \in Calls : at'[j] = at[j]
    BY <1>27 DEF LoopDone, hist
  <2>2. (dial = "ready" => dial' = "ready") /\ Acks
    BY <1>27 DEF LoopDone, Acks
  <2>3. Goes /\ ~Starts
    BY <2>1, <2>2
  <2> QED
    BY <2>1, <2>2, <2>3
<1>28. ASSUME NEW x \in Ends, RecvTakes(x) PROVE Upward'
  <2>1. /\ wire'["S"] = wire["S"] /\ UNCHANGED <<sent, late, cur>> /\ conn' \subseteq conn
        /\ \A j \in Calls : at'[j] = at[j]
    BY <1>28 DEF RecvTakes
  <2>2. (dial = "ready" => dial' = "ready") /\ Acks
    BY <1>28 DEF RecvTakes, Acks
  <2>3. Goes /\ ~Starts
    BY <2>1, <2>2
  <2> QED
    BY <2>1, <2>2, <2>3
<1>29. ASSUME NEW x \in Ends, CloseStarts(x) PROVE Upward'
  <2>1. /\ wire'["S"] = wire["S"] /\ UNCHANGED <<sent, late, cur>> /\ conn' \subseteq conn
        /\ \A j \in Calls : at'[j] = at[j]
    BY <1>29 DEF CloseStarts, hist
  <2>2. (dial = "ready" => dial' = "ready") /\ Acks
    BY <1>29 DEF CloseStarts, Acks
  <2>3. Goes /\ ~Starts
    BY <2>1, <2>2
  <2> QED
    BY <2>1, <2>2, <2>3
<1>30. ASSUME NEW x \in Ends, CloseAborts(x) PROVE Upward'
  <2>1. /\ wire'["S"] = wire["S"] /\ UNCHANGED <<sent, late, cur>> /\ conn' \subseteq conn
        /\ \A j \in Calls : at'[j] = at[j]
    BY <1>30 DEF CloseAborts, hist
  <2>2. (dial = "ready" => dial' = "ready") /\ Acks
    BY <1>30 DEF CloseAborts, Acks
  <2>3. Goes /\ ~Starts
    BY <2>1, <2>2
  <2> QED
    BY <2>1, <2>2, <2>3
<1>31. ASSUME NEW x \in Ends, CloseDetaches(x) PROVE Upward'
  <2>1. /\ UNCHANGED <<sent, late, dial, wire, conn>> /\ cur' \in {cur, None}
        /\ at[Srv] = "close" \/ at'[Srv] = at[Srv]
        /\ \A j \in Calls : at'[j] = at[j]
    BY <1>31, DetachSession DEF CtlInv, SrvOk
  <2>2. Acks
    BY <2>1 DEF Acks
  <2>3. Goes /\ ~Starts
    BY <2>1
  <2> QED
    BY <2>1, <2>2, <2>3
<1>32. CASE UNCHANGED vars
  <2>1. UNCHANGED <<sent, late, cur, conn, dial, at, wire>>
    BY <1>32 DEF vars
  <2>2. Goes /\ ~Starts /\ Acks
    BY <2>1 DEF Acks
  <2> QED
    BY <2>1, <2>2
<1> QED
  BY <1>1, <1>2, <1>3, <1>4, <1>5, <1>6, <1>7, <1>8, <1>9, <1>10, <1>11, <1>12, <1>13, <1>14,
      <1>15, <1>16, <1>17, <1>18, <1>19, <1>20, <1>21, <1>22, <1>23, <1>24, <1>25, <1>26, <1>27,
      <1>28, <1>29, <1>30, <1>31, <1>32
  DEF Next, Loop, LoopLost, Close

(* What is for the server's call: a failure, or a message of it. *)
Own(f) == f \in {Failure("eof"), Failure("err")} \/ f.k = cur

(* A step that leaves the inbox of the server alone keeps Delivered. *)
LEMMA DeliveredKept ==
  ASSUME Delivered, late => late', cur' \in {cur, None}, inbox'[Srv] = inbox[Srv],
         end'[Srv].loop \in {"push", "last"} =>
            end[Srv].loop \in {"push", "last"} /\ end'[Srv].item = end[Srv].item
  PROVE  Delivered'
BY DEF Delivered

(* The inbox of the server's call takes one more. *)
LEMMA DeliveredMore ==
  ASSUME Delivered, InboxTypes, UNCHANGED <<cur, late>>, NEW f \in Frames,
         ~late /\ cur # None => Own(f), inbox' = Push(Srv, f),
         end'[Srv].loop \notin {"push", "last"}
  PROVE  Delivered'
<1> DEFINE q == inbox[Srv]
           r == inbox'[Srv]
<1>1. q \in Stream /\ inbox \in [Ends -> Stream] /\ Srv \in Ends
  BY Ints DEF InboxTypes
<1>2. r = q \/ r = Append(q, f)
  BY <1>1 DEF Push
<1>3. PICK n \in Nat : n = Len(q)
  BY <1>1, Streams
<1>4. CASE r = q
  BY <1>4 DEF Delivered
<1>5. CASE r = Append(q, f)
  <2>1. Len(r) = n + 1 /\ r[n + 1] = f /\ \A i \in 1 .. n : r[i] = q[i]
    BY <1>1, <1>3, <1>5, Appends
  <2>2. ASSUME ~late', cur' # None, NEW i \in 1 .. Len(r)
        PROVE  r[i] \in {Failure("eof"), Failure("err")} \/ r[i].k = cur'
    <3>1. i = n + 1 \/ i \in 1 .. n
      BY <1>3, <2>1
    <3> QED
      BY <1>3, <2>1, <2>2, <3>1 DEF Delivered, Own
  <2> QED
    BY <2>2 DEF Delivered
<1> QED
  BY <1>2, <1>4, <1>5

(* Every step keeps what the server has been delivered. *)
LEMMA DeliveredStep ==
  Types /\ CtlInv /\ UpInv /\ [Next]_vars => Delivered'
<1> SUFFICES ASSUME Types, CtlInv, UpInv, [Next]_vars PROVE Delivered'
  OBVIOUS
<1>c. /\ \A j \in Calls : j # Srv
      /\ \A x \in Ends : x \in Calls \/ x = Srv
      /\ Srv \in Ends /\ InboxTypes /\ inbox \in [Ends -> Stream] /\ SideOf(Srv) = "S"
      /\ Delivered /\ \A t \in {"eof", "err"} : Failure(t) \in Frames
  BY Ints, FrameType DEF Types, InboxTypes, Ends, SideOf, UpInv
<1>f. \A t \in {"eof", "err"} : Own(Failure(t))
  BY DEF Own
<1> USE <1>c, <1>f, DeliveredKept
<1>1. CASE ClientClose
  BY <1>1 DEF ClientClose, hist
<1>2. CASE ServerClose
  BY <1>2 DEF ServerClose, hist
<1>3. CASE Cut
  BY <1>3 DEF Cut, hist
<1>4. CASE ServerGreets
  BY <1>4 DEF ServerGreets, hist
<1>5. CASE ServerReadsAck
  BY <1>5 DEF ServerReadsAck, hist
<1>6. CASE ClientReadsGreeting
  BY <1>6 DEF ClientReadsGreeting, hist
<1>7. CASE ClientAcks
  BY <1>7 DEF ClientAcks, hist
<1>8. CASE HandshakeExpires
  BY <1>8 DEF HandshakeExpires, hist
<1>9. CASE ClosesFailed
  BY <1>9 DEF ClosesFailed, hist
<1>10. CASE AcceptCall
  <2>1. inbox'[Srv] = <<>> /\ end'[Srv].loop = "read"
    BY <1>10, AcceptEnd DEF AcceptCall
  <2> QED
    BY <2>1, Streams DEF Delivered
<1>11. CASE AcceptFails
  BY <1>11 DEF AcceptFails, hist
<1>12. CASE ServerSend
  BY <1>12, ServerSendEnd DEF ServerSend, LoopKept
<1>13. CASE ServerFinish
  BY <1>13, ServerFinishEnd DEF ServerFinish, LoopKept
<1>14. ASSUME NEW k \in Calls, Expire(k) PROVE Delivered'
  BY <1>14 DEF Expire, hist
<1>15. ASSUME NEW k \in Calls, OpenCall(k) PROVE Delivered'
  BY <1>15 DEF OpenCall, hist
<1>16. ASSUME NEW k \in Calls, OpenWrites(k) PROVE Delivered'
  BY <1>16, OpenEnd DEF OpenWrites, OthersKept, hist
<1>17. ASSUME NEW k \in Calls, Send(k) PROVE Delivered'
  <2>1. late => late'
    BY <1>17 DEF Send, ClientWrites, Types, LogTypes
  <2> QED
    BY <1>17, <2>1, SendEnd DEF Send, ClientWrites, OthersKept
<1>18. ASSUME NEW k \in Calls, HalfClose(k) PROVE Delivered'
  <2>1. late => late'
    BY <1>18 DEF HalfClose, ClientWrites, Types, LogTypes
  <2> QED
    BY <1>18, <2>1, SendEnd DEF HalfClose, ClientWrites, OthersKept
<1>19. ASSUME NEW k \in Calls, SendPauses(k) PROVE Delivered'
  BY <1>19, SendEnd DEF SendPauses, hist, OthersKept
<1>20. ASSUME NEW k \in Calls, SendResumes(k) PROVE Delivered'
  <2>1. late => late'
    BY <1>20 DEF SendResumes, ClientWrites, Types, LogTypes
  <2> QED
    BY <1>20, <2>1 DEF SendResumes, ClientWrites
<1>21. ASSUME NEW k \in Calls, RecvEnds(k) PROVE Delivered'
  BY <1>21 DEF RecvEnds
<1>22. ASSUME NEW x \in Ends, LoopReads(x) PROVE Delivered'
  <2> DEFINE f == Head(wire["S"])
  <2>1. UNCHANGED <<cur, late>>
    BY <1>22 DEF LoopReads, hist
  <2>2. CASE x = Srv
    <3>1. /\ wire["S"] # <<>> /\ f.t # "open" /\ wire["S"] \in Stream /\ "S" \in conn
          /\ Reads(Srv, f)
          /\ Len(inbox[Srv]) < InboxCap \/ UNCHANGED inbox
          /\ end[Srv].loop = "read"
      BY <1>22, <2>2, LoopReadsEnd DEF LoopReads, Types, WireTypes, Sides, Dead
    <3>2. f = wire["S"][1] /\ f \in Frames /\ 1 \in 1 .. Len(wire["S"])
      BY <3>1, Streams, Tails
    <3>3. NoOpenUpTo(1)
      BY <3>1, <3>2 DEF NoOpenUpTo
    <3>4. ~late /\ cur # None => Own(f)
      BY <3>1, <3>2, <3>3 DEF UpInv, Mine, Own
    <3>5. CASE inbox' = [inbox EXCEPT ![Srv] = Append(@, f)] /\ end' = end
      <4>1. inbox' = Push(Srv, f)
        BY <3>1, <3>5 DEF Push
      <4> QED
        BY <2>1, <3>1, <3>2, <3>4, <3>5, <4>1, DeliveredMore
    <3>6. CASE UNCHANGED inbox /\ end'[Srv].item = f
      <4>1. ~late /\ cur # None => f.k = cur
        BY <3>1, <3>2, <3>3 DEF UpInv, Mine
      <4> QED
        BY <2>1, <3>6, <4>1 DEF Delivered
    <3> QED
      BY <3>1, <3>5, <3>6 DEF Reads
  <2>3. CASE x # Srv
    <3>1. inbox'[Srv] = inbox[Srv] /\ end'[Srv] = end[Srv]
      BY <1>22, <2>3, LoopReadsEnd DEF Reads, OthersKept
    <3> QED
      BY <2>1, <3>1
  <2> QED
    BY <2>2, <2>3
<1>23. ASSUME NEW x \in Ends, LoopReadsOpen(x) PROVE Delivered'
  <2>1. UNCHANGED <<cur, late>> /\ inbox' = Push(x, Failure("err"))
        /\ end'[x].loop = "done" /\ OthersKept(x)
    BY <1>23, LoopReadsOpenEnd DEF LoopReadsOpen, hist
  <2>2. CASE x = Srv
    BY <2>1, <2>2, DeliveredMore
  <2>3. CASE x # Srv
    BY <2>1, <2>3 DEF Push, OthersKept
  <2> QED
    BY <2>2, <2>3
<1>24. ASSUME NEW x \in Ends, LoopLost(x) PROVE Delivered'
  <2>1. /\ UNCHANGED <<cur, late>> /\ end'[x].loop = "done" /\ OthersKept(x)
        /\ UNCHANGED inbox \/ \E e \in {"eof", "err"} : inbox' = Push(x, Failure(e))
    BY <1>24, LoopFailsEnd
  <2>2. CASE x = Srv
    BY <2>1, <2>2, DeliveredMore
  <2>3. CASE x # Srv
    BY <2>1, <2>3 DEF Push, OthersKept
  <2> QED
    BY <2>2, <2>3
<1>25. ASSUME NEW x \in Ends, LoopPushes(x) PROVE Delivered'
  <2>1. /\ UNCHANGED <<cur, late>> /\ end'[x].loop \in {"read", "exit"} /\ OthersKept(x)
        /\ inbox' = Push(x, end[x].item) /\ end[x].item \in Frames
        /\ end[x].loop \in {"push", "last"}
    BY <1>25, LoopPushesEnd DEF LoopPushes, hist
  <2>2. CASE x = Srv
    <3>1. ~late /\ cur # None => Own(end[Srv].item)
      BY <2>1, <2>2 DEF Delivered, Own
    <3> QED
      BY <2>1, <2>2, <3>1, DeliveredMore
  <2>3. CASE x # Srv
    BY <2>1, <2>3 DEF Push, OthersKept
  <2> QED
    BY <2>2, <2>3
<1>26. ASSUME NEW x \in Ends, LoopCancelled(x) PROVE Delivered'
  BY <1>26, LoopCancelledEnd DEF LoopCancelled, OthersKept, hist
<1>27. ASSUME NEW x \in Ends, LoopDone(x) PROVE Delivered'
  BY <1>27, LoopDoneEnd DEF LoopDone, OthersKept, hist
<1>28. ASSUME NEW x \in Ends, RecvTakes(x) PROVE Delivered'
  <2>1. CASE x = Srv
    <3> DEFINE q == inbox[Srv]
    <3>1. q \in Stream /\ q # <<>> /\ inbox'[Srv] = Tail(q) /\ UNCHANGED <<end, cur, late>>
      BY <1>28, <2>1 DEF RecvTakes
    <3>2. PICK n \in Nat : n = Len(q)
      BY <3>1, Streams
    <3>3. Len(Tail(q)) = n - 1 /\ \A i \in 1 .. n - 1 : Tail(q)[i] = q[i + 1]
      BY <3>1, <3>2, Tails
    <3>4. \A i \in 1 .. n - 1 : i + 1 \in 1 .. n
      BY <3>2
    <3> QED
      BY <3>1, <3>2, <3>3, <3>4 DEF Delivered
  <2>2. CASE x # Srv
    BY <1>28, <2>2 DEF RecvTakes
  <2> QED
    BY <2>1, <2>2
<1>29. ASSUME NEW x \in Ends, CloseStarts(x) PROVE Delivered'
  BY <1>29, CloseStartsEnd DEF CloseStarts, OthersKept, LoopKept, ItemKept, hist
<1>30. ASSUME NEW x \in Ends, CloseAborts(x) PROVE Delivered'
  BY <1>30, CloseAbortsEnd DEF CloseAborts, OthersKept, LoopKept, ItemKept, hist
<1>31. ASSUME NEW x \in Ends, CloseDetaches(x) PROVE Delivered'
  <2>1. CASE x = Srv
    BY <1>31, <2>1, DetachSession DEF Delivered
  <2>2. CASE x # Srv
    <3>1. UNCHANGED <<cur, late>> /\ inbox'[Srv] = inbox[Srv] /\ end'[Srv] = end[Srv]
      BY <1>31, <2>2, DetachSession, DetachEnd DEF OthersKept
    <3> QED
      BY <3>1
  <2> QED
    BY <2>1, <2>2
<1>32. CASE UNCHANGED vars
  BY <1>32 DEF vars
<1> QED
  BY <1>1, <1>2, <1>3, <1>4, <1>5, <1>6, <1>7, <1>8, <1>9, <1>10, <1>11, <1>12, <1>13, <1>14,
      <1>15, <1>16, <1>17, <1>18, <1>19, <1>20, <1>21, <1>22, <1>23, <1>24, <1>25, <1>26, <1>27,
      <1>28, <1>29, <1>30, <1>31, <1>32
  DEF Next, Loop, LoopLost, Close

(* No call is closed before the handshake is over. *)
LEMMA NothingClosed ==
  ASSUME CtlInv, HandOk, dial # "ready"
  PROVE  \A k \in Calls : ~end[k].closed
BY Ints DEF CtlInv, LoopOk, HandOk, Begun

(* Without an event from outside, the server is the first to close. *)
LEMMA ServerFirst ==
  ASSUME Quiet, ClientKept, events = 0, \A k \in Calls : end[k].closed => end[k].atEnd,
         Dead("C") \/ "S" \notin conn
  PROVE  "S" \notin conn
BY DEF Quiet, ClientKept, Dead

(* Without an event nothing is cut. *)
LEMMA QuietKept ==
  ASSUME Quiet, events' = events, UNCHANGED cut, "S" \in conn' => "S" \in conn,
         dial' \in {"fail", "failed"} => dial \in {"fail", "failed"}
  PROVE  Quiet'
BY DEF Quiet

(* Every step keeps Quiet. *)
LEMMA QuietStep ==
  Types /\ CtlInv /\ HandOk /\ Quiet /\ ClientKept /\ [Next]_vars => Quiet'
<1> SUFFICES ASSUME Types, CtlInv, HandOk, Quiet, ClientKept, [Next]_vars PROVE Quiet'
  OBVIOUS
<1>e. Event => events' # 0
  BY DEF Event, Types
<1>q. events' # 0 => Quiet'
  BY DEF Quiet
<1> USE <1>e, <1>q, QuietKept
<1>1. CASE ClientClose
  BY <1>1 DEF ClientClose, hist, CloseSession
<1>2. CASE ServerClose
  BY <1>2 DEF ServerClose, hist, CloseSession
<1>3. CASE Cut
  BY <1>3 DEF Cut, hist
<1>4. CASE ServerGreets
  BY <1>4 DEF ServerGreets, Writes, WriteFails
<1>5. CASE ServerReadsAck
  BY <1>5 DEF ServerReadsAck, hist
<1>6. CASE ClientReadsGreeting
  <2>1. UNCHANGED <<cut, events, conn>> /\ dial = "greeting"
    BY <1>6 DEF ClientReadsGreeting
  <2>2. CASE dial' = "fail" /\ ReadError("C") # {}
    <3>1. Dead("C") \/ "S" \notin conn
      BY <2>2 DEF ReadError, Peer
    <3>2. events = 0 => "S" \notin conn
      BY <2>1, <3>1, NothingClosed, ServerFirst
    <3> QED
      BY <2>1, <3>2 DEF Quiet
  <2>3. CASE dial' = "ack"
    BY <2>1, <2>3
  <2> QED
    BY <1>6, <2>2, <2>3 DEF ClientReadsGreeting
<1>7. CASE ClientAcks
  <2>1. UNCHANGED <<cut, events, conn>> /\ dial = "ack"
    BY <1>7 DEF ClientAcks, Writes
  <2>2. CASE dial' = "fail" /\ Dead("C")
    <3>1. events = 0 => "S" \notin conn
      BY <2>1, <2>2, NothingClosed, ServerFirst
    <3> QED
      BY <2>1, <3>1 DEF Quiet
  <2>3. CASE dial' = "ready"
    BY <2>1, <2>3
  <2> QED
    BY <1>7, <2>2, <2>3 DEF ClientAcks
<1>8. CASE HandshakeExpires
  BY <1>8 DEF HandshakeExpires, hist
<1>9. CASE ClosesFailed
  BY <1>9 DEF ClosesFailed, hist, CloseSession
<1>10. CASE AcceptCall
  BY <1>10 DEF AcceptCall, hist
<1>11. CASE AcceptFails
  <2>1. UNCHANGED <<cut, dial>> /\ conn' \subseteq conn /\ (events' = events \/ Event)
    BY <1>11 DEF AcceptFails
  <2> QED
    BY <2>1
<1>12. CASE ServerSend
  BY <1>12 DEF ServerSend, HandlerWrites, Writes, WriteFails
<1>13. CASE ServerFinish
  BY <1>13 DEF ServerFinish, HandlerWrites, Writes, WriteFails
<1>14. ASSUME NEW k \in Calls, Expire(k) PROVE Quiet'
  BY <1>14 DEF Expire, hist
<1>15. ASSUME NEW k \in Calls, OpenCall(k) PROVE Quiet'
  BY <1>15 DEF OpenCall
<1>16. ASSUME NEW k \in Calls, OpenWrites(k) PROVE Quiet'
  BY <1>16 DEF OpenWrites, Writes
<1>17. ASSUME NEW k \in Calls, Send(k) PROVE Quiet'
  BY <1>17 DEF Send, ClientWrites, Writes, WriteFails
<1>18. ASSUME NEW k \in Calls, HalfClose(k) PROVE Quiet'
  BY <1>18 DEF HalfClose, ClientWrites, Writes, WriteFails
<1>19. ASSUME NEW k \in Calls, SendPauses(k) PROVE Quiet'
  BY <1>19 DEF SendPauses
<1>20. ASSUME NEW k \in Calls, SendResumes(k) PROVE Quiet'
  BY <1>20 DEF SendResumes, ClientWrites, Writes, WriteFails
<1>21. ASSUME NEW k \in Calls, RecvEnds(k) PROVE Quiet'
  BY <1>21 DEF RecvEnds
<1>22. ASSUME NEW x \in Ends, LoopReads(x) PROVE Quiet'
  BY <1>22 DEF LoopReads, hist
<1>23. ASSUME NEW x \in Ends, LoopReadsOpen(x) PROVE Quiet'
  BY <1>23 DEF LoopReadsOpen
<1>24. ASSUME NEW x \in Ends, LoopLost(x) PROVE Quiet'
  BY <1>24, LoopFailsEnd
<1>25. ASSUME NEW x \in Ends, LoopPushes(x) PROVE Quiet'
  BY <1>25 DEF LoopPushes, hist
<1>26. ASSUME NEW x \in Ends, LoopCancelled(x) PROVE Quiet'
  BY <1>26 DEF LoopCancelled, hist
<1>27. ASSUME NEW x \in Ends, LoopDone(x) PROVE Quiet'
  BY <1>27 DEF LoopDone, hist
<1>28. ASSUME NEW x \in Ends, RecvTakes(x) PROVE Quiet'
  BY <1>28 DEF RecvTakes
<1>29. ASSUME NEW x \in Ends, CloseStarts(x) PROVE Quiet'
  BY <1>29 DEF CloseStarts, hist
<1>30. ASSUME NEW x \in Ends, CloseAborts(x) PROVE Quiet'
  BY <1>30 DEF CloseAborts, hist
<1>31. ASSUME NEW x \in Ends, CloseDetaches(x) PROVE Quiet'
  BY <1>31, DetachSession DEF CloseDetaches
<1>32. CASE UNCHANGED vars
  BY <1>32 DEF vars
<1> QED
  BY <1>1, <1>2, <1>3, <1>4, <1>5, <1>6, <1>7, <1>8, <1>9, <1>10, <1>11, <1>12, <1>13, <1>14,
      <1>15, <1>16, <1>17, <1>18, <1>19, <1>20, <1>21, <1>22, <1>23, <1>24, <1>25, <1>26, <1>27,
      <1>28, <1>29, <1>30, <1>31, <1>32
  DEF Next, Loop, LoopLost, Close

(* Calls once closed stay so, and what Close saw does not change. *)
ClosedKept ==
  \A k \in Calls : end[k].closed => end'[k].closed /\ (end'[k].atEnd <=> end[k].atEnd)

(* A step that closes no connection by itself keeps ClientKept. *)
LEMMA HealthKept ==
  ASSUME ClientKept, ClosedKept, events' = events, "S" \in conn' => "S" \in conn,
         "C" \in conn' \/ "S" \notin conn \/ "C" \notin conn
  PROVE  ClientKept'
BY DEF ClientKept, ClosedKept

(* A failing read or write closes the client's end only behind the server. *)
LEMMA HealthLost ==
  ASSUME Quiet, ClientKept, ClosedKept, events' = events, conn' \subseteq conn,
         Dead("C") \/ "S" \notin conn
  PROVE  ClientKept'
BY ServerFirst DEF ClientKept, ClosedKept

(* The client's Close aborts no healthy connection. *)
LEMMA HealthStep ==
  Types /\ CtlInv /\ CallInv /\ SentInv /\ LogInv /\ Quiet /\ ClientKept /\ [Next]_vars
    => ClientKept'
<1> SUFFICES ASSUME Types, CtlInv, CallInv, SentInv, LogInv, Quiet, ClientKept, [Next]_vars
             PROVE  ClientKept'
  OBVIOUS
<1>c. /\ \A j \in Calls : j # Srv /\ j \in Ends /\ SideOf(j) = "C"
      /\ \A x \in Ends : x \in Calls \/ (x = Srv /\ SideOf(x) = "S")
  BY Ints DEF Ends, SideOf
<1>e. Event => events' # 0
  BY DEF Event, Types
<1>q. events' # 0 => ClientKept'
  BY DEF ClientKept
<1>u. end' = end => ClosedKept
  BY DEF ClosedKept
<1> USE <1>c, <1>e, <1>q, <1>u, HealthKept
<1>1. CASE ClientClose
  BY <1>1 DEF ClientClose, hist
<1>2. CASE ServerClose
  BY <1>2 DEF ServerClose, hist
<1>3. CASE Cut
  BY <1>3 DEF Cut, hist
<1>4. CASE ServerGreets
  BY <1>4 DEF ServerGreets, Writes, WriteFails
<1>5. CASE ServerReadsAck
  BY <1>5 DEF ServerReadsAck, hist
<1>6. CASE ClientReadsGreeting
  BY <1>6 DEF ClientReadsGreeting, hist
<1>7. CASE ClientAcks
  BY <1>7 DEF ClientAcks, Writes
<1>8. CASE HandshakeExpires
  BY <1>8 DEF HandshakeExpires, hist
<1>9. CASE ClosesFailed
  <2>1. UNCHANGED <<end, events>>
    BY <1>9 DEF ClosesFailed
  <2>2. CASE dial = "fail" /\ CloseSession("C")
    BY <2>1, <2>2 DEF CloseSession, Quiet, ClientKept
  <2>3. CASE CloseSession("S")
    BY <2>1, <2>3 DEF CloseSession
  <2> QED
    BY <1>9, <2>2, <2>3 DEF ClosesFailed
<1>10. CASE AcceptCall
  <2>1. UNCHANGED <<conn, events>> /\ OthersKept(Srv)
    BY <1>10, AcceptEnd DEF AcceptCall
  <2>2. ClosedKept
    BY <2>1 DEF ClosedKept, OthersKept
  <2> QED
    BY <2>1, <2>2
<1>11. CASE AcceptFails
  <2>1. UNCHANGED end /\ conn' \in {conn, conn \ {"S"}} /\ (events' = events \/ Event)
    BY <1>11 DEF AcceptFails
  <2> QED
    BY <2>1
<1>12. CASE ServerSend
  <2>1. UNCHANGED events /\ OthersKept(Srv) /\ conn' \in {conn, conn \ {"S"}}
    BY <1>12, ServerSendEnd DEF ServerSend, HandlerWrites, Writes, WriteFails
  <2>2. ClosedKept
    BY <2>1 DEF ClosedKept, OthersKept
  <2> QED
    BY <2>1, <2>2
<1>13. CASE ServerFinish
  <2>1. /\ UNCHANGED events \/ Event
        /\ OthersKept(Srv) /\ conn' \in {conn, conn \ {"S"}}
    BY <1>13, ServerFinishEnd DEF ServerFinish, HandlerWrites, Writes, WriteFails
  <2>2. ClosedKept
    BY <2>1 DEF ClosedKept, OthersKept
  <2> QED
    BY <2>1, <2>2
<1>14. ASSUME NEW k \in Calls, Expire(k) PROVE ClientKept'
  BY <1>14 DEF Expire, hist
<1>15. ASSUME NEW k \in Calls, OpenCall(k) PROVE ClientKept'
  BY <1>15 DEF OpenCall, hist
<1>16. ASSUME NEW k \in Calls, OpenWrites(k) PROVE ClientKept'
  <2>1. UNCHANGED <<conn, events>> /\ OthersKept(k) /\ CloseKept(k)
    BY <1>16, OpenEnd DEF OpenWrites, Writes
  <2>2. ClosedKept
    BY <2>1 DEF ClosedKept, OthersKept, CloseKept
  <2> QED
    BY <2>1, <2>2
<1>17. ASSUME NEW k \in Calls, Send(k) PROVE ClientKept'
  <2>1. UNCHANGED events /\ OthersKept(k) /\ CloseKept(k)
        /\ (conn' = conn \/ (conn' = conn \ {"C"} /\ (Dead("C") \/ "S" \notin conn)))
    BY <1>17, SendEnd DEF Send, ClientWrites, Writes, WriteFails, Peer
  <2>2. ClosedKept
    BY <2>1 DEF ClosedKept, OthersKept, CloseKept
  <2> QED
    BY <2>1, <2>2, HealthLost
<1>18. ASSUME NEW k \in Calls, HalfClose(k) PROVE ClientKept'
  <2>1. UNCHANGED events /\ OthersKept(k) /\ CloseKept(k)
        /\ (conn' = conn \/ (conn' = conn \ {"C"} /\ (Dead("C") \/ "S" \notin conn)))
    BY <1>18, SendEnd DEF HalfClose, ClientWrites, Writes, WriteFails, Peer
  <2>2. ClosedKept
    BY <2>1 DEF ClosedKept, OthersKept, CloseKept
  <2> QED
    BY <2>1, <2>2, HealthLost
<1>19. ASSUME NEW k \in Calls, SendPauses(k) PROVE ClientKept'
  BY <1>19 DEF SendPauses, hist
<1>20. ASSUME NEW k \in Calls, SendResumes(k) PROVE ClientKept'
  <2>1. UNCHANGED <<events, end>>
        /\ (conn' = conn \/ (conn' = conn \ {"C"} /\ (Dead("C") \/ "S" \notin conn)))
    BY <1>20 DEF SendResumes, ClientWrites, Writes, WriteFails, Peer
  <2> QED
    BY <2>1, HealthLost
<1>21. ASSUME NEW k \in Calls, RecvEnds(k) PROVE ClientKept'
  BY <1>21 DEF RecvEnds
<1>22. ASSUME NEW x \in Ends, LoopReads(x) PROVE ClientKept'
  <2>1. UNCHANGED <<events, conn>> /\ (end' = end \/ (OthersKept(x) /\ CloseKept(x)))
    BY <1>22, LoopReadsEnd DEF LoopReads, Reads
  <2>2. ClosedKept
    BY <2>1 DEF ClosedKept, OthersKept, CloseKept
  <2> QED
    BY <2>1, <2>2
<1>23. ASSUME NEW x \in Ends, LoopReadsOpen(x) PROVE ClientKept'
  <2>1. x = Srv
    BY <1>23, NoOpenRead
  <2>2. UNCHANGED events /\ OthersKept(x) /\ CloseKept(x) /\ conn' = conn \ {"S"}
    BY <1>23, <2>1, LoopReadsOpenEnd DEF LoopReadsOpen
  <2>3. ClosedKept
    BY <2>2 DEF ClosedKept, OthersKept, CloseKept
  <2> QED
    BY <2>2, <2>3
<1>24. ASSUME NEW x \in Ends, LoopLost(x) PROVE ClientKept'
  <2>1. (UNCHANGED events \/ Event) /\ OthersKept(x) /\ CloseKept(x)
    BY <1>24, LoopFailsEnd
  <2>2. ClosedKept
    BY <2>1 DEF ClosedKept, OthersKept, CloseKept
  <2>3. \/ conn' = conn
        \/ Event
        \/ conn' = conn \ {SideOf(x)} /\ (Dead(SideOf(x)) \/ Peer(SideOf(x)) \notin conn)
    BY <1>24, LoopFailsEnd DEF LoopLost, LoopFails, LoopRefuses, ReadError
  <2>4. CASE x = Srv
    BY <2>1, <2>2, <2>3, <2>4
  <2>5. CASE x # Srv
    <3>1. \/ conn' = conn \/ Event
          \/ conn' = conn \ {"C"} /\ (Dead("C") \/ "S" \notin conn)
      BY <2>3, <2>5 DEF Peer
    <3> QED
      BY <2>1, <2>2, <3>1, HealthLost
  <2> QED
    BY <2>4, <2>5
<1>25. ASSUME NEW x \in Ends, LoopPushes(x) PROVE ClientKept'
  <2>1. UNCHANGED <<events, conn>> /\ OthersKept(x) /\ CloseKept(x)
    BY <1>25, LoopPushesEnd DEF LoopPushes
  <2>2. ClosedKept
    BY <2>1 DEF ClosedKept, OthersKept, CloseKept
  <2> QED
    BY <2>1, <2>2
<1>26. ASSUME NEW x \in Ends, LoopCancelled(x) PROVE ClientKept'
  <2>1. UNCHANGED <<events, conn>> /\ OthersKept(x) /\ CloseKept(x)
    BY <1>26, LoopCancelledEnd DEF LoopCancelled
  <2>2. ClosedKept
    BY <2>1 DEF ClosedKept, OthersKept, CloseKept
  <2> QED
    BY <2>1, <2>2
<1>27. ASSUME NEW x \in Ends, LoopDone(x) PROVE ClientKept'
  <2>1. UNCHANGED <<events, conn>> /\ OthersKept(x) /\ CloseKept(x)
    BY <1>27, LoopDoneEnd DEF LoopDone
  <2>2. ClosedKept
    BY <2>1 DEF ClosedKept, OthersKept, CloseKept
  <2> QED
    BY <2>1, <2>2
<1>28. ASSUME NEW x \in Ends, RecvTakes(x) PROVE ClientKept'
  BY <1>28 DEF RecvTakes
<1>29. ASSUME NEW x \in Ends, CloseStarts(x) PROVE ClientKept'
  <2>1. UNCHANGED <<events, conn>> /\ OthersKept(x) /\ ~end[x].closed
    BY <1>29, CloseStartsEnd DEF CloseStarts
  <2>2. ClosedKept
    BY <2>1 DEF ClosedKept, OthersKept
  <2> QED
    BY <2>1, <2>2
<1>30. ASSUME NEW x \in Ends, CloseAborts(x) PROVE ClientKept'
  <2>1. /\ UNCHANGED events /\ OthersKept(x) /\ conn' = conn \ {SideOf(x)}
        /\ end[x].closing = "cancelled" /\ ~end[x].atEnd
        /\ end'[x].closed <=> end[x].closed
        /\ end'[x].atEnd <=> end[x].atEnd
    BY <1>30, CloseAbortsEnd DEF CloseAborts
  <2>2. ClosedKept
    BY <2>1 DEF ClosedKept, OthersKept
  <2>3. CASE x = Srv
    BY <2>1, <2>2, <2>3
  <2>4. CASE x \in Calls
    <3>1. end'[x].closed /\ ~end'[x].atEnd
      BY <2>1 DEF CtlInv, LoopOk
    <3> QED
      BY <2>4, <3>1 DEF ClientKept
  <2> QED
    BY <2>3, <2>4
<1>31. ASSUME NEW x \in Ends, CloseDetaches(x) PROVE ClientKept'
  <2>1. /\ UNCHANGED <<events, conn>> /\ OthersKept(x) /\ end'[x].closed
        /\ end'[x].atEnd <=> end[x].atEnd
    BY <1>31, DetachSession, DetachEnd
  <2>2. ClosedKept
    BY <2>1 DEF ClosedKept, OthersKept
  <2> QED
    BY <2>1, <2>2
<1>32. CASE UNCHANGED vars
  BY <1>32 DEF vars
<1> QED
  BY <1>1, <1>2, <1>3, <1>4, <1>5, <1>6, <1>7, <1>8, <1>9, <1>10, <1>11, <1>12, <1>13, <1>14,
      <1>15, <1>16, <1>17, <1>18, <1>19, <1>20, <1>21, <1>22, <1>23, <1>24, <1>25, <1>26, <1>27,
      <1>28, <1>29, <1>30, <1>31, <1>32
  DEF Next, Loop, LoopLost, Close

(***************************************************************************)
(* The server's half: no step closes its end of a healthy connection       *)
(***************************************************************************)

\* What the server's end shows of the order, and what the calls show of it.
SrvEndKept ==
  /\ end'[Srv].half <=> end[Srv].half
  /\ end'[Srv].closed <=> end[Srv].closed
  /\ end'[Srv].atEnd <=> end[Srv].atEnd
SrvKept == SrvEndKept /\ at'[Srv] = at[Srv]
SignKept(k) == (end'[k].sendClosed <=> end[k].sendClosed) /\ (Begun(k)' <=> Begun(k))
SignsKept == \A k \in Calls : SignKept(k)
CallsPlaced == \A k \in Calls : at'[k] = at[k]

(* An end unchanged shows the same. *)
LEMMA SameSigns ==
  /\ OthersKept(Srv) /\ CallsPlaced => SignsKept
  /\ end' = end => SrvEndKept
  /\ \A k \in Calls : OthersKept(k) => SrvEndKept
BY Ints DEF OthersKept, CallsPlaced, SignsKept, SignKept, SrvEndKept, Begun

(* The frames, the server and the calls as they were: so is the order. *)
LEMMA OrderKept ==
  ASSUME Order, SignsKept, wire'["S"] = wire["S"],
         sess'["S"].closed <=> sess["S"].closed,
         Between' <=> Between, at'[Srv] \notin {"fail", "gone"},
         dial' = "ready" => dial = "ready" /\ (at'[Srv] = "ack" => at[Srv] = "ack")
  PROVE  Order'
<1>1. Up' = Up
  BY DEF Up
<1>2. Settled' <=> Settled
  BY <1>1 DEF Settled, Stops
<1>3. WholeCalls'
  BY <1>1 DEF Order, WholeCalls, Stops
<1> QED
  BY <1>1, <1>2, <1>3 DEF Order, SignsKept, SignKept

(* A frame written: an OPEN where the stream is settled, another where it   *)
(* is not.                                                                  *)
LEMMA OrderAppends ==
  ASSUME Types, Order, NEW f \in Frames, wire'["S"] = Append(wire["S"], f),
         UNCHANGED dial, dial = "ready", sess'["S"].closed <=> sess["S"].closed,
         Between' <=> Between, at'[Srv] = at[Srv],
         f.t = "open" <=> Settled,
         Stops(f) <=> \A k \in Calls : Begun(k)' => end'[k].sendClosed
  PROVE  Order'
<1> DEFINE n == Len(Up)
<1>1. /\ Up \in Stream /\ n \in Nat /\ Len(Up') = n + 1 /\ Up'[n + 1] = f /\ Up' # <<>>
      /\ \A i \in 1 .. n : Up'[i] = Up[i]
      /\ Up # <<>> <=> n > 0
  <2>1. Up \in Stream /\ Up' = Append(Up, f)
    BY DEF Types, WireTypes, Sides, Up
  <2> QED
    BY <2>1, Appends, Streams
<1>2. /\ n > 0 => (f.t = "open" <=> Stops(Up[n]))
      /\ n = 0 => (f.t = "open" <=> Between)
  BY <1>1 DEF Settled
<1>3. ASSUME NEW i \in 1 .. n + 1, Up'[i].t = "open"
      PROVE  IF i = 1 THEN Between ELSE Stops(Up'[i - 1])
  <2>1. CASE i = n + 1
    BY <1>1, <1>2, <1>3, <2>1
  <2>2. CASE i # n + 1
    <3>1. i \in 1 .. n /\ (i # 1 => i - 1 \in 1 .. n)
      BY <1>1, <2>2
    <3> QED
      BY <1>1, <1>3, <3>1 DEF Order, WholeCalls
  <2> QED
    BY <2>1, <2>2
<1>4. ASSUME NEW i \in 1 .. n, Stops(Up'[i]) PROVE Up'[i + 1].t = "open"
  <2>1. CASE i = n
    BY <1>1, <1>2, <1>4, <2>1
  <2>2. CASE i # n
    <3>1. i \in 1 .. n - 1 /\ i + 1 \in 1 .. n
      BY <1>1, <2>2
    <3> QED
      BY <1>1, <1>4, <3>1 DEF Order, WholeCalls
  <2> QED
    BY <2>1, <2>2
<1>5. Between => Up'[1].t = "open"
  <2>1. CASE n = 0
    BY <1>1, <1>2, <2>1
  <2>2. CASE n > 0
    <3>1. 1 \in 1 .. n
      BY <1>1, <2>2
    <3> QED
      BY <1>1, <2>2, <3>1 DEF Order, WholeCalls
  <2> QED
    BY <1>1, <2>1, <2>2
<1>6. WholeCalls'
  <2>1. Stops(f)' <=> Stops(f)
    BY DEF Stops
  <2>2. \A i \in 1 .. n : n + 1 - 1 = n /\ i \in Nat
    BY <1>1
  <2> QED
    BY <1>1, <1>3, <1>4, <1>5, <2>2 DEF WholeCalls, Stops
<1>7. Settled' <=> Stops(f)
  BY <1>1 DEF Settled, Stops
<1>8. at[Srv] = "ack" => Up'[1].t = "ack"
  <2>1. at[Srv] = "ack" => n > 0 /\ Up[1].t = "ack"
    BY <1>1 DEF Order
  <2>2. n > 0 => 1 \in 1 .. n
    BY <1>1
  <2> QED
    BY <1>1, <2>1, <2>2
<1> QED
  BY <1>1, <1>6, <1>7, <1>8 DEF Order

(* The frame at the head is read: behind it the server stands between two   *)
(* calls when it ends one.                                                  *)
LEMMA OrderTails ==
  ASSUME Types, Order, Up # <<>>, wire'["S"] = Tail(wire["S"]), SignsKept,
         UNCHANGED dial, sess'["S"].closed <=> sess["S"].closed,
         Between' <=> Stops(Up[1]), at'[Srv] \notin {"fail", "gone", "ack"}
  PROVE  Order'
<1> DEFINE n == Len(Up)
<1>1. /\ Up \in Stream /\ n \in Nat /\ n > 0 /\ Len(Up') = n - 1
      /\ \A i \in 1 .. n - 1 : Up'[i] = Up[i + 1]
      /\ Up' # <<>> <=> n > 1
  <2>1. Up \in Stream /\ Up' = Tail(Up)
    BY DEF Types, WireTypes, Sides, Up
  <2>2. n \in Nat /\ n > 0
    BY <2>1, Streams
  <2>3. /\ Up' \in Stream /\ Len(Up') = n - 1 /\ \A i \in 1 .. n - 1 : Up'[i] = Up[i + 1]
    BY <2>1, Tails
  <2>4. Up' # <<>> <=> Len(Up') > 0
    BY <2>3, Streams
  <2> QED
    BY <2>1, <2>2, <2>3, <2>4
<1>2. ASSUME NEW i \in 1 .. n - 1, Up'[i].t = "open"
      PROVE  IF i = 1 THEN Between' ELSE Stops(Up'[i - 1])
  <2>1. i + 1 \in 1 .. n /\ Up'[i] = Up[i + 1] /\ i + 1 # 1 /\ (i + 1) - 1 = i
    BY <1>1
  <2>2. Stops(Up[i])
    BY <1>2, <2>1 DEF Order, WholeCalls
  <2>3. i # 1 => i - 1 \in 1 .. n - 1 /\ (i - 1) + 1 = i
    BY <1>1
  <2> QED
    BY <1>1, <2>2, <2>3
<1>3. ASSUME NEW i \in 1 .. n - 2, Stops(Up'[i]) PROVE Up'[i + 1].t = "open"
  <2>1. /\ i \in 1 .. n - 1 /\ i + 1 \in 1 .. n - 1 /\ Up'[i] = Up[i + 1]
        /\ Up'[i + 1] = Up[(i + 1) + 1]
    BY <1>1
  <2> QED
    BY <1>3, <2>1 DEF Order, WholeCalls
<1>4. n > 1 /\ Between' => Up'[1].t = "open"
  <2>1. n > 1 => 1 \in 1 .. n - 1
    BY <1>1
  <2> QED
    BY <1>1, <2>1 DEF Order, WholeCalls
<1>5. WholeCalls'
  <2>1. (n - 1) - 1 = n - 2
    BY <1>1
  <2> QED
    BY <1>1, <1>2, <1>3, <1>4, <2>1 DEF WholeCalls, Stops
<1>6. Settled' <=> Settled
  <2>1. CASE n = 1
    BY <1>1, <2>1 DEF Settled
  <2>2. CASE n > 1
    <3>1. n - 1 \in 1 .. n - 1 /\ (n - 1) + 1 = n /\ Up # <<>>
      BY <1>1, <2>2
    <3>2. Up'[n - 1] = Up[n]
      BY <1>1, <3>1
    <3> QED
      BY <1>1, <2>2, <3>1, <3>2 DEF Settled, Stops
  <2> QED
    BY <1>1, <2>1, <2>2
<1> QED
  BY <1>5, <1>6 DEF Order, SignsKept, SignKept

(* What a step may change of what Order, EndFacts and ServerKept speak of. *)
CallShows(k) ==
  /\ end[k].closed => end'[k].closed
  /\ SignKept(k) \/ OpenWrites(k) \/ HalfClose(k) \/ SendPauses(k)
  /\ at'[k] \in {"data", "end"} => at[k] \in {"data", "end"} \/ SendPauses(k)
SrvShows ==
  /\ SrvEndKept \/ AcceptCall \/ LoopReads(Srv) \/ CloseStarts(Srv)
  /\ at'[Srv] \in {"greet", "ack"} => at[Srv] \in {"greet", "ack"}
SideShows ==
  /\ conn' \subseteq conn
  /\ UNCHANGED events \/ Event
  /\ "S" \notin conn' => \/ "S" \notin conn \/ Event \/ ClosesFailed \/ ServerGreets \/ AcceptFails
                         \/ ServerSend \/ ServerFinish \/ LoopReadsOpen(Srv) \/ LoopLost(Srv)
                         \/ CloseAborts(Srv)
Shows == (\A k \in Calls : CallShows(k)) /\ SrvShows /\ SideShows

(* A step of one call's end, of the server's, or of none. *)
LEMMA ShowsOne ==
  ASSUME SideShows, at' = at,
         NEW x \in Ends, OthersKept(x), end'[x].sendClosed <=> end[x].sendClosed,
         end[x].closed => end'[x].closed,
         x = Srv => SrvEndKept \/ AcceptCall \/ LoopReads(Srv) \/ CloseStarts(Srv)
  PROVE  Shows
<1>1. \A k \in Calls : CallShows(k)
  <2> SUFFICES ASSUME NEW k \in Calls PROVE CallShows(k)
    OBVIOUS
  <2>1. k \in Ends /\ k # Srv
    BY Ints
  <2> QED
    BY <2>1 DEF CallShows, SignKept, Begun, OthersKept
<1>2. SrvShows
  BY Ints DEF SrvShows, OthersKept, SrvEndKept
<1> QED
  BY <1>1, <1>2 DEF Shows

(* A step that moves goroutines and no end. *)
LEMMA ShowsNone ==
  ASSUME SideShows, end' = end, \A k \in Calls : Begun(k)' <=> Begun(k),
         \A k \in Calls : at'[k] \in {"data", "end"} => at[k] \in {"data", "end"},
         at'[Srv] \in {"greet", "ack"} => at[Srv] \in {"greet", "ack"}
  PROVE  Shows
BY DEF Shows, CallShows, SignKept, SrvShows, SrvEndKept

(* Sending is not closed where only recvLoop and Close are at work. *)
LEMMA SendingKept ==
  ASSUME Types, NEW x \in Ends,
         \/ LoopReads(x) \/ LoopReadsOpen(x) \/ LoopLost(x) \/ LoopPushes(x)
         \/ LoopCancelled(x) \/ LoopDone(x)
         \/ CloseStarts(x) \/ CloseAborts(x) \/ CloseDetaches(x)
  PROVE  end'[x].sendClosed <=> end[x].sendClosed
<1>1. end \in [Ends -> End] /\ end[x] \in End
  BY DEF Types, EndTypes
<1> USE DEF End, EndRecord
<1>2. CASE LoopReads(x)
  <2>1. CASE UNCHANGED end
    BY <2>1
  <2>2. CASE end' = [end EXCEPT ![x] =
                    [@ EXCEPT !.item = Head(wire[SideOf(x)]),
                              !.half = end[x].half \/ Head(wire[SideOf(x)]).t = "end",
                              !.term = end[x].term \/ Head(wire[SideOf(x)]).t = "status",
                              !.loop = IF Head(wire[SideOf(x)]).t = "data" THEN "push" ELSE "last"]]
    BY <1>1, <2>2
  <2> QED
    BY <1>2, <2>1, <2>2 DEF LoopReads
<1>3. CASE LoopReadsOpen(x)
  BY <1>1, <1>3 DEF LoopReadsOpen
<1>4. CASE LoopLost(x)
  <2>1. PICK e \in {"eof", "err"} :
          \/ end' = [end EXCEPT ![x].loop = "done"]
          \/ end' = [end EXCEPT ![x] = [@ EXCEPT !.loop = "done", !.err = e]]
    BY <1>4 DEF LoopLost, LoopFails, LoopRefuses, LoopEnds, ReadError
  <2> QED
    BY <1>1, <2>1
<1>5. CASE LoopPushes(x)
  BY <1>1, <1>5 DEF LoopPushes
<1>6. CASE LoopCancelled(x)
  BY <1>1, <1>6 DEF LoopCancelled
<1>7. CASE LoopDone(x)
  BY <1>1, <1>7 DEF LoopDone
<1>8. CASE CloseStarts(x)
  BY <1>1, <1>8 DEF CloseStarts
<1>9. CASE CloseAborts(x)
  BY <1>1, <1>9 DEF CloseAborts
<1>10. CASE CloseDetaches(x)
  BY <1>10, DetachEnd
<1> QED
  BY <1>2, <1>3, <1>4, <1>5, <1>6, <1>7, <1>8, <1>9, <1>10

(* A frame sent. *)
LEMMA SendSigns ==
  ASSUME Types, NEW k \in Calls
  PROVE  /\ Send(k) => OthersKept(k) /\ (end'[k].sendClosed <=> end[k].sendClosed)
         /\ HalfClose(k) => OthersKept(k) /\ end'[k].sendClosed
<1>1. end \in [Ends -> End] /\ k \in Ends /\ end[k] \in End
  BY Ints DEF Types, EndTypes
<1> QED
  BY <1>1 DEF Send, HalfClose, OthersKept, End, EndRecord

(* The OPEN written, or not. *)
LEMMA OpenSigns ==
  ASSUME Types, NEW k \in Calls, OpenWrites(k)
  PROVE  end'[k].sendClosed <=> end[k].sendClosed
<1>1. end \in [Ends -> End] /\ k \in Ends /\ end[k] \in End
  BY Ints DEF Types, EndTypes
<1> QED
  BY <1>1 DEF OpenWrites, End, EndRecord

(* Every step shows no more than that. *)
LEMMA StepShows == Types /\ CtlInv /\ [Next]_vars => Shows
<1> SUFFICES ASSUME Types, CtlInv, [Next]_vars PROVE Shows
  OBVIOUS
<1>c. /\ \A j \in Calls : j # Srv /\ j \in Ends /\ SideOf(j) = "C"
      /\ \A x \in Ends : x \in Calls \/ (x = Srv /\ SideOf(x) = "S")
      /\ at \in [Ends -> SrvPlaces \cup CallPlaces] /\ Srv \in Ends /\ SideOf(Srv) = "S"
  BY Ints DEF Ends, SideOf, Types, AtTypes
<1>n. at' = at => /\ \A k \in Calls : Begun(k)' <=> Begun(k)
                  /\ \A k \in Calls : at'[k] \in {"data", "end"} => at[k] \in {"data", "end"}
                  /\ at'[Srv] \in {"greet", "ack"} => at[Srv] \in {"greet", "ack"}
  BY DEF Begun
<1>g. ASSUME NEW pl, Goto(Srv, pl)
      PROVE  /\ \A k \in Calls : Begun(k)' <=> Begun(k)
             /\ \A k \in Calls : at'[k] = at[k]
             /\ at'[Srv] = pl
  BY <1>c, <1>g DEF Goto, Begun
<1> USE ShowsNone, ShowsOne, <1>c, <1>n
<1>1. CASE ClientClose
  <2>1. SideShows /\ UNCHANGED <<at, end>>
    BY <1>1 DEF ClientClose, hist, CloseSession, SideShows
  <2> QED
    BY <2>1
<1>2. CASE ServerClose
  <2>1. SideShows /\ UNCHANGED <<at, end>>
    BY <1>2 DEF ServerClose, hist, CloseSession, SideShows
  <2> QED
    BY <2>1
<1>3. CASE Cut
  <2>1. SideShows /\ UNCHANGED <<at, end>>
    BY <1>3 DEF Cut, hist, SideShows
  <2> QED
    BY <2>1
<1>4. CASE ServerGreets
  <2>1. SideShows /\ end' = end /\ at[Srv] = "greet" /\ (Goto(Srv, "ack") \/ Goto(Srv, "fail"))
    BY <1>4 DEF ServerGreets, Writes, WriteFails, SideShows
  <2> QED
    BY <2>1, <1>g
<1>5. CASE ServerReadsAck
  <2>1. SideShows /\ end' = end /\ (Goto(Srv, "idle") \/ Goto(Srv, "fail"))
    BY <1>5 DEF ServerReadsAck, hist, SideShows
  <2> QED
    BY <2>1, <1>g
<1>6. CASE ClientReadsGreeting
  <2>1. SideShows /\ UNCHANGED <<at, end>>
    BY <1>6 DEF ClientReadsGreeting, hist, SideShows
  <2> QED
    BY <2>1
<1>7. CASE ClientAcks
  <2>1. SideShows /\ UNCHANGED <<at, end>>
    BY <1>7 DEF ClientAcks, Writes, SideShows
  <2> QED
    BY <2>1
<1>8. CASE HandshakeExpires
  <2>1. SideShows /\ end' = end /\ (UNCHANGED at \/ Goto(Srv, "fail"))
    BY <1>8 DEF HandshakeExpires, SideShows
  <2> QED
    BY <2>1, <1>g
<1>9. CASE ClosesFailed
  <2>1. SideShows /\ end' = end /\ (UNCHANGED at \/ Goto(Srv, "gone"))
    BY <1>9 DEF ClosesFailed, CloseSession, hist, SideShows
  <2> QED
    BY <2>1, <1>g
<1>10. CASE AcceptCall
  <2>1. SideShows /\ OthersKept(Srv) /\ Goto(Srv, "user")
    BY <1>10, AcceptEnd DEF AcceptCall, hist, SideShows
  <2>2. \A k \in Calls : CallShows(k)
    BY <2>1, <1>g DEF CallShows, SignKept, OthersKept
  <2>3. SrvShows
    BY <1>10, <2>1, <1>g DEF SrvShows
  <2> QED
    BY <2>1, <2>2, <2>3 DEF Shows
<1>11. CASE AcceptFails
  <2>1. SideShows /\ end' = end /\ Goto(Srv, "fail")
    BY <1>11 DEF AcceptFails, hist, SideShows
  <2> QED
    BY <2>1, <1>g
<1>12. CASE ServerSend
  <2>1. SideShows /\ OthersKept(Srv) /\ CloseKept(Srv) /\ UNCHANGED at
        /\ (end'[Srv].half <=> end[Srv].half)
    BY <1>12, ServerSendEnd DEF ServerSend, HandlerWrites, Writes, WriteFails, SideShows
  <2>2. \A k \in Calls : CallShows(k)
    BY <2>1 DEF CallShows, SignKept, OthersKept, Begun
  <2>3. SrvShows
    BY <2>1 DEF SrvShows, SrvEndKept, CloseKept
  <2> QED
    BY <2>1, <2>2, <2>3 DEF Shows
<1>13. CASE ServerFinish
  <2>1. SideShows /\ OthersKept(Srv) /\ CloseKept(Srv) /\ Goto(Srv, "close")
        /\ (end'[Srv].half <=> end[Srv].half)
    BY <1>13, ServerFinishEnd DEF ServerFinish, HandlerWrites, Writes, WriteFails, SideShows
  <2>2. \A k \in Calls : CallShows(k)
    BY <2>1, <1>g DEF CallShows, SignKept, OthersKept
  <2>3. SrvShows
    BY <2>1, <1>g DEF SrvShows, SrvEndKept, CloseKept
  <2> QED
    BY <2>1, <2>2, <2>3 DEF Shows
<1>14. ASSUME NEW k \in Calls, Expire(k) PROVE Shows
  <2>1. SideShows /\ UNCHANGED <<at, end>>
    BY <1>14 DEF Expire, hist, SideShows
  <2> QED
    BY <2>1
<1>15. ASSUME NEW k \in Calls, OpenCall(k) PROVE Shows
  <2>1. /\ UNCHANGED <<conn, end, events>> /\ at[k] = "new" /\ at'[k] = "open"
        /\ \A x \in Ends : x # k => at'[x] = at[x]
    BY <1>15, LendSession
  <2>2. SideShows
    BY <2>1 DEF SideShows
  <2> QED
    BY <2>1, <2>2 DEF Begun
<1>16. ASSUME NEW k \in Calls, OpenWrites(k) PROVE Shows
  <2>1. /\ OthersKept(k) /\ CloseKept(k) /\ UNCHANGED events /\ conn' = conn
        /\ at' = [at EXCEPT ![k] = "user"] \/ at' = [at EXCEPT ![k] = "dead"]
    BY <1>16, OpenEnd DEF OpenWrites, Writes
  <2>2. ASSUME NEW j \in Calls PROVE CallShows(j)
    <3>1. CASE j = k
      BY <1>16, <2>1, <3>1 DEF CallShows, CloseKept
    <3>2. CASE j # k
      BY <2>1, <3>2 DEF CallShows, OthersKept, SignKept, Begun
    <3> QED
      BY <3>1, <3>2
  <2>3. SrvShows /\ SideShows
    BY <2>1 DEF SrvShows, SideShows, SrvEndKept, OthersKept
  <2> QED
    BY <2>2, <2>3 DEF Shows
<1>17. ASSUME NEW k \in Calls, Send(k) PROVE Shows
  <2>1. /\ OthersKept(k) /\ CloseKept(k) /\ UNCHANGED <<events, at>> /\ conn' \subseteq conn
        /\ "S" \in conn => "S" \in conn'
    BY <1>17, SendEnd DEF Send, ClientWrites, Writes, WriteFails
  <2>2. SideShows
    BY <2>1 DEF SideShows
  <2> QED
    BY <1>17, <2>1, <2>2, SendSigns DEF CloseKept
<1>18. ASSUME NEW k \in Calls, HalfClose(k) PROVE Shows
  <2>1. /\ OthersKept(k) /\ CloseKept(k) /\ UNCHANGED <<events, at>> /\ conn' \subseteq conn
        /\ "S" \in conn => "S" \in conn'
    BY <1>18, SendEnd DEF HalfClose, ClientWrites, Writes, WriteFails
  <2>2. ASSUME NEW j \in Calls PROVE CallShows(j)
    <3>1. CASE j = k
      BY <1>18, <2>1, <3>1 DEF CallShows, CloseKept
    <3>2. CASE j # k
      BY <2>1, <3>2 DEF CallShows, OthersKept, SignKept, Begun
    <3> QED
      BY <3>1, <3>2
  <2>3. SrvShows /\ SideShows
    BY <2>1 DEF SrvShows, SideShows, SrvEndKept, OthersKept
  <2> QED
    BY <2>2, <2>3 DEF Shows
<1>19. ASSUME NEW k \in Calls, SendPauses(k) PROVE Shows
  <2>1. /\ OthersKept(k) /\ CloseKept(k) /\ Event /\ UNCHANGED conn
        /\ Goto(k, "data") \/ Goto(k, "end")
    BY <1>19, SendEnd DEF SendPauses
  <2>2. ASSUME NEW j \in Calls PROVE CallShows(j)
    <3>1. CASE j = k
      BY <1>19, <2>1, <3>1 DEF CallShows, CloseKept
    <3>2. CASE j # k
      BY <2>1, <3>2 DEF CallShows, OthersKept, SignKept, Begun, Goto
    <3> QED
      BY <3>1, <3>2
  <2>3. SrvShows /\ SideShows
    BY <2>1 DEF SrvShows, SideShows, SrvEndKept, OthersKept, Goto
  <2> QED
    BY <2>2, <2>3 DEF Shows
<1>20. ASSUME NEW k \in Calls, SendResumes(k) PROVE Shows
  <2>1. /\ end' = end /\ UNCHANGED events /\ conn' \subseteq conn
        /\ "S" \in conn => "S" \in conn'
        /\ at[k] \in {"data", "end"} /\ Goto(k, "user")
    BY <1>20 DEF SendResumes, ClientWrites, Writes, WriteFails
  <2>2. SideShows
    BY <2>1 DEF SideShows
  <2> QED
    BY <2>1, <2>2 DEF Goto, Begun
<1>21. ASSUME NEW k \in Calls, RecvEnds(k) PROVE Shows
  <2>1. SideShows /\ UNCHANGED <<at, end>>
    BY <1>21 DEF RecvEnds, SideShows
  <2> QED
    BY <2>1
<1>22. ASSUME NEW x \in Ends, LoopReads(x) PROVE Shows
  <2>1. /\ SideShows /\ UNCHANGED at
        /\ end' = end \/ (OthersKept(x) /\ CloseKept(x))
    BY <1>22, LoopReadsEnd DEF LoopReads, SideShows, Reads
  <2>2. CASE end' = end
    BY <2>1, <2>2
  <2>3. CASE OthersKept(x) /\ CloseKept(x)
    BY <1>22, <2>1, <2>3, SendingKept DEF CloseKept
  <2> QED
    BY <2>1, <2>2, <2>3
<1>23. ASSUME NEW x \in Ends, LoopReadsOpen(x) PROVE Shows
  <2>1. SideShows /\ UNCHANGED at
    BY <1>23 DEF LoopReadsOpen, SideShows
  <2>2. OthersKept(x) /\ CloseKept(x) /\ ItemKept(x)
    BY <1>23, LoopReadsOpenEnd
  <2> QED
    BY <1>23, <2>1, <2>2, SendingKept DEF CloseKept, ItemKept, SrvEndKept
<1>24. ASSUME NEW x \in Ends, LoopLost(x) PROVE Shows
  <2>1. /\ UNCHANGED at /\ (UNCHANGED events \/ Event) /\ OthersKept(x) /\ CloseKept(x) /\ ItemKept(x)
        /\ conn' = conn \/ conn' = conn \ {SideOf(x)}
    BY <1>24, LoopFailsEnd
  <2>2. SideShows
    BY <1>24, <2>1 DEF SideShows
  <2> QED
    BY <1>24, <2>1, <2>2, SendingKept DEF CloseKept, ItemKept, SrvEndKept
<1>25. ASSUME NEW x \in Ends, LoopPushes(x) PROVE Shows
  <2>1. SideShows /\ UNCHANGED at
    BY <1>25 DEF LoopPushes, SideShows
  <2>2. OthersKept(x) /\ CloseKept(x) /\ (end'[x].half <=> end[x].half)
    BY <1>25, LoopPushesEnd
  <2> QED
    BY <1>25, <2>1, <2>2, SendingKept DEF CloseKept, SrvEndKept
<1>26. ASSUME NEW x \in Ends, LoopCancelled(x) PROVE Shows
  <2>1. SideShows /\ UNCHANGED at
    BY <1>26 DEF LoopCancelled, SideShows
  <2>2. OthersKept(x) /\ CloseKept(x) /\ (end'[x].half <=> end[x].half)
    BY <1>26, LoopCancelledEnd
  <2> QED
    BY <1>26, <2>1, <2>2, SendingKept DEF CloseKept, SrvEndKept
<1>27. ASSUME NEW x \in Ends, LoopDone(x) PROVE Shows
  <2>1. SideShows /\ UNCHANGED at
    BY <1>27 DEF LoopDone, SideShows
  <2>2. OthersKept(x) /\ CloseKept(x) /\ ItemKept(x)
    BY <1>27, LoopDoneEnd
  <2> QED
    BY <1>27, <2>1, <2>2, SendingKept DEF CloseKept, ItemKept, SrvEndKept
<1>28. ASSUME NEW x \in Ends, RecvTakes(x) PROVE Shows
  <2>1. SideShows /\ UNCHANGED <<at, end>>
    BY <1>28 DEF RecvTakes, SideShows
  <2> QED
    BY <2>1
<1>29. ASSUME NEW x \in Ends, CloseStarts(x) PROVE Shows
  <2>1. SideShows /\ UNCHANGED at
    BY <1>29 DEF CloseStarts, hist, SideShows
  <2>2. OthersKept(x) /\ end'[x].closed
    BY <1>29, CloseStartsEnd
  <2> QED
    BY <1>29, <2>1, <2>2, SendingKept
<1>30. ASSUME NEW x \in Ends, CloseAborts(x) PROVE Shows
  <2>1. SideShows /\ UNCHANGED at
    BY <1>30 DEF CloseAborts, hist, SideShows
  <2>2. OthersKept(x) /\ ItemKept(x)
        /\ (end'[x].closed <=> end[x].closed) /\ (end'[x].atEnd <=> end[x].atEnd)
    BY <1>30, CloseAbortsEnd
  <2> QED
    BY <1>30, <2>1, <2>2, SendingKept DEF ItemKept, SrvEndKept
<1>31. ASSUME NEW x \in Ends, CloseDetaches(x) PROVE Shows
  <2>1. /\ UNCHANGED <<conn, events>> /\ OthersKept(x) /\ end'[x].closed /\ end[x].closed
        /\ end'[x].atEnd <=> end[x].atEnd
        /\ end'[x].half <=> end[x].half
        /\ end'[x].sendClosed <=> end[x].sendClosed
    BY <1>31, DetachSession, DetachEnd DEF CtlInv, LoopOk
  <2>2. SideShows
    BY <2>1 DEF SideShows
  <2>3. CASE x = Srv
    <3>1. Goto(Srv, "idle")
      BY <1>31, <2>3 DEF CloseDetaches
    <3>2. \A k \in Calls : CallShows(k)
      BY <2>1, <2>3, <3>1, <1>g DEF CallShows, SignKept, OthersKept
    <3>3. SrvShows
      BY <2>1, <2>3, <3>1, <1>g DEF SrvShows, SrvEndKept
    <3> QED
      BY <2>2, <3>2, <3>3 DEF Shows
  <2>4. CASE x # Srv
    <3>1. at' = at
      BY <1>31, <2>4, DetachSession
    <3> QED
      BY <2>1, <2>2, <2>4, <3>1
  <2> QED
    BY <2>3, <2>4
<1>32. CASE UNCHANGED vars
  <2>1. SideShows /\ UNCHANGED <<at, end>>
    BY <1>32 DEF vars, SideShows
  <2> QED
    BY <2>1
<1> QED
  BY <1>1, <1>2, <1>3, <1>4, <1>5, <1>6, <1>7, <1>8, <1>9, <1>10, <1>11, <1>12, <1>13, <1>14,
      <1>15, <1>16, <1>17, <1>18, <1>19, <1>20, <1>21, <1>22, <1>23, <1>24, <1>25, <1>26, <1>27,
      <1>28, <1>29, <1>30, <1>31, <1>32
  DEF Next, Loop, LoopLost, Close

(* Undisturbed after a step is undisturbed before it. *)
LEMMA CalmBack ==
  ASSUME Types, Shows
  PROVE  /\ events' = 0 => UNCHANGED events
         /\ EndsSent' /\ events' = 0 => EndsSent
         /\ Calm' => Calm /\ UNCHANGED events /\ "C" \in conn' /\ "S" \in conn'
<1>1. events' = 0 => UNCHANGED events
  BY DEF Shows, SideShows, Event, Types
<1>2. ASSUME EndsSent', events' = 0, NEW k \in Calls, end[k].closed
      PROVE  end[k].sendClosed
  <2>1. end'[k].sendClosed
    BY <1>2 DEF Shows, CallShows, EndsSent
  <2>2. ~OpenWrites(k) \/ (end'[k].sendClosed <=> end[k].sendClosed)
    BY OpenSigns
  <2>3. ~HalfClose(k) /\ ~SendPauses(k)
    BY <1>1, <1>2 DEF HalfClose, SendPauses, Event, Types
  <2> QED
    BY <2>1, <2>2, <2>3 DEF Shows, CallShows, SignKept
<1>3. EndsSent' /\ events' = 0 => EndsSent
  BY <1>2 DEF EndsSent
<1> QED
  BY <1>1, <1>3 DEF Calm, Shows, SideShows

(* Every step keeps EndFacts. *)
LEMMA EndFactsStep ==
  ASSUME Types, CtlInv, Shows, EndFacts
  PROVE  EndFacts'
<1>1. (end'[Srv].atEnd => end'[Srv].half)
      /\ (at'[Srv] \in {"greet", "ack"} => ~end'[Srv].closed /\ ~end'[Srv].half)
  <2>1. CASE SrvEndKept
    BY <2>1 DEF EndFacts, SrvEndKept, Shows, SrvShows
  <2>2. CASE AcceptCall
    BY <2>2, AcceptEnd
  <2>3. CASE LoopReads(Srv)
    <3>1. /\ (end'[Srv].atEnd <=> end[Srv].atEnd) /\ (end[Srv].half => end'[Srv].half)
          /\ end[Srv].loop = "read" /\ at'[Srv] = at[Srv]
      BY <2>3, Ints, LoopReadsEnd DEF Reads, CloseKept, LoopReads
    <3> QED
      BY <3>1 DEF EndFacts, CtlInv, SrvOk
  <2>4. CASE CloseStarts(Srv)
    <3>1. /\ end'[Srv].atEnd <=> end[Srv].half
          /\ end'[Srv].half <=> end[Srv].half
          /\ at[Srv] = "close" /\ at'[Srv] = at[Srv]
      BY <2>4, Ints, CloseStartsEnd DEF CloseStarts, AtEnd, ItemKept
    <3> QED
      BY <3>1
  <2> QED
    BY <2>1, <2>2, <2>3, <2>4 DEF Shows, SrvShows
<1>2. ASSUME NEW k \in Calls, ~Begun(k)' PROVE ~end'[k].sendClosed
  <2>1. CASE SignKept(k)
    BY <1>2, <2>1 DEF SignKept, EndFacts
  <2>2. CASE OpenWrites(k)
    <3>1. ~Begun(k)
      BY <2>2 DEF OpenWrites, Begun
    <3> QED
      BY <2>2, <3>1, OpenSigns DEF EndFacts
  <2>3. CASE HalfClose(k)
    BY <1>2, <2>3 DEF HalfClose, HalfOpen, Begun
  <2>4. CASE SendPauses(k)
    <3>1. k \in Ends /\ at \in [Ends -> SrvPlaces \cup CallPlaces]
      BY Ints DEF Types, AtTypes
    <3> QED
      BY <1>2, <2>4, <3>1 DEF SendPauses, Goto, Begun
  <2> QED
    BY <2>1, <2>2, <2>3, <2>4 DEF Shows, CallShows
<1>3. ASSUME events' = 0, NEW k \in Calls PROVE at'[k] \notin {"data", "end"}
  <2>1. UNCHANGED events
    BY <1>3, CalmBack
  <2>2. ~SendPauses(k)
    BY <1>3, <2>1 DEF SendPauses, Event
  <2> QED
    BY <1>3, <2>1, <2>2 DEF Shows, CallShows, EndFacts
<1> QED
  BY <1>1, <1>2, <1>3 DEF EndFacts

(* Of a call that holds the connection the others begun are closed, so that *)
(* their END has been sent.                                                 *)
LEMMA OthersSent ==
  ASSUME Types, CtlInv, CallInv, EndsSent, NEW k \in Calls, Holding(k)
  PROVE  \A j \in Calls : j # k /\ Begun(j) => end[j].sendClosed
<1> SUFFICES ASSUME NEW j \in Calls, j # k, Begun(j) PROVE end[j].sendClosed
  OBVIOUS
<1>1. ~Holding(j)
  BY LastUnique DEF CallInv, CallOk
<1>2. j \in Ends /\ end[j].closed
  BY <1>1, Ints DEF Holding, Begun, CtlInv, LoopOk
<1> QED
  BY <1>2 DEF EndsSent

(* The frames on their way are frames of the handshake or of a call. *)
LEMMA UpHead ==
  ASSUME Types, OpenOk, Up # <<>>
  PROVE  /\ Head(Up) = Up[1] /\ 1 \in 1 .. Len(Up)
         /\ Up[1].t = "ack" => at[Srv] \in {"ack", "fail", "gone"}
<1>1. Up \in Stream
  BY DEF Types, WireTypes, Sides, Up
<1>2. Head(Up) = Up[1] /\ 1 \in 1 .. Len(Up)
  BY <1>1, Tails, Streams
<1>3. FrameOk(1)
  BY <1>2 DEF OpenOk, Up
<1> QED
  BY <1>2, <1>3 DEF FrameOk, Up

(* An undisturbed server finds between two calls nothing but an OPEN, and   *)
(* within one no OPEN.                                                      *)
LEMMA OrderHead ==
  ASSUME Types, CtlInv, OpenOk, Order, EndFacts, Up # <<>>
  PROVE  /\ Head(Up).t = "open" => Between
         /\ at[Srv] = "idle" /\ (end[Srv].closed => end[Srv].atEnd) => Head(Up).t = "open"
         /\ end[Srv].loop = "read" => ~Between
<1>1. Head(Up).t = "open" <=> Between
  BY UpHead DEF Order, WholeCalls
<1>2. end[Srv].loop = "read" => ~Between
  BY Ints DEF CtlInv, SrvOk, LoopOk, Between
<1> QED
  BY <1>1, <1>2 DEF Between, EndFacts

(* No step of the server closes its end of a healthy connection. *)
LEMMA ServerStep ==
  ASSUME Types, CtlInv, OpenOk, Quiet, Shows, EndFacts, Calm => Order, ServerKept
  PROVE  ServerKept'
<1> SUFFICES ASSUME events' = 0, EndsSent', end'[Srv].closed => end'[Srv].atEnd,
                    "S" \notin conn', "C" \in conn'
             PROVE  FALSE
  BY DEF ServerKept
<1>1. /\ events = 0 /\ UNCHANGED events /\ EndsSent /\ "C" \in conn /\ ~Event /\ ~cut
      /\ Srv \in Ends /\ SideOf(Srv) = "S"
  BY CalmBack, Ints DEF Shows, SideShows, Event, Quiet, Types, SideOf
<1>2. CASE "S" \notin conn
  <2>1. end[Srv].closed /\ ~end[Srv].atEnd
    BY <1>1, <1>2 DEF ServerKept
  <2>2. SrvEndKept
    <3>1. ~AcceptCall /\ ~LoopReads(Srv)
      BY <1>1, <1>2 DEF AcceptCall, Arriving, Dead, LoopReads
    <3>2. ~CloseStarts(Srv)
      BY <2>1 DEF CloseStarts
    <3> QED
      BY <3>1, <3>2 DEF Shows, SrvShows
  <2> QED
    BY <2>1, <2>2 DEF SrvEndKept
<1>3. CASE "S" \in conn
  <2>1. Order /\ ~Dead("S") /\ ReadError("S") = {} /\ ~WriteFails("S")
    BY <1>1, <1>3 DEF Calm, Dead, ReadError, Peer, WriteFails
  <2>2. ~ClosesFailed
    <3>1. ClosesFailed => conn' = conn \ {"C"} \/ at[Srv] = "fail"
      BY DEF ClosesFailed, CloseSession
    <3> QED
      BY <1>3, <2>1, <3>1 DEF Order
  <2>3. ~ServerGreets /\ ~ServerSend
    BY <1>3, <2>1 DEF ServerGreets, ServerSend, HandlerWrites, Writes
  <2>4. ~ServerFinish
    BY <1>1, <1>3, <2>1 DEF ServerFinish, HandlerWrites, Writes
  <2>5. ~AcceptFails
    <3> SUFFICES ASSUME AcceptFails PROVE FALSE
      OBVIOUS
    <3>1. at[Srv] = "idle" /\ end' = end /\ Up # <<>> /\ Head(Up).t # "open"
      BY <1>1, <1>3, <2>1 DEF AcceptFails, Order, Arriving, Up
    <3> QED
      BY <2>1, <3>1, OrderHead
  <2>6. ~LoopReadsOpen(Srv)
    <3> SUFFICES ASSUME LoopReadsOpen(Srv) PROVE FALSE
      OBVIOUS
    <3>1. end[Srv].loop = "read" /\ Up # <<>> /\ Head(Up).t = "open"
      BY <1>1 DEF LoopReadsOpen, Arriving, Up
    <3> QED
      BY <2>1, <3>1, OrderHead
  <2>7. ~LoopLost(Srv)
    BY <1>1, <2>1 DEF LoopLost, LoopFails, LoopRefuses
  <2>8. ~CloseAborts(Srv)
    <3> SUFFICES ASSUME CloseAborts(Srv) PROVE FALSE
      OBVIOUS
    <3>1. end[Srv].closing = "cancelled" /\ ~end[Srv].atEnd
      BY DEF CloseAborts
    <3>2. end'[Srv].closed /\ ~end'[Srv].atEnd
      BY <1>1, <3>1, CloseAbortsEnd DEF CtlInv, LoopOk
    <3> QED
      BY <3>2
  <2> QED
    BY <1>1, <1>3, <2>2, <2>3, <2>4, <2>5, <2>6, <2>7, <2>8 DEF Shows, SideShows
<1> QED
  BY <1>2, <1>3

(* In an undisturbed step nothing fails. *)
LEMMA CalmFacts ==
  ASSUME Types, Quiet, Shows, Calm => Order, Calm'
  PROVE  /\ Order /\ ~Event /\ UNCHANGED events /\ events = 0 /\ EndsSent
         /\ conn = Sides /\ conn' = Sides
         /\ dial \notin {"fail", "failed"}
         /\ \A s \in Sides : ~Dead(s) /\ ReadError(s) = {} /\ ~WriteFails(s)
<1>1. Calm /\ UNCHANGED events /\ "C" \in conn' /\ "S" \in conn'
  BY CalmBack
<1>2. conn = Sides /\ conn' = Sides /\ events = 0 /\ EndsSent
  BY <1>1 DEF Calm, Sides, Shows, SideShows, Types, SessTypes
<1>3. ~Event
  BY <1>1, <1>2 DEF Event
<1>4. ~cut /\ dial \notin {"fail", "failed"}
  BY <1>2 DEF Quiet, Sides
<1>5. \A s \in Sides : ~Dead(s) /\ ReadError(s) = {} /\ ~WriteFails(s)
  BY <1>2, <1>4 DEF Dead, ReadError, Peer, Sides, WriteFails
<1> QED
  BY <1>1, <1>2, <1>3, <1>4, <1>5

(* Every undisturbed step keeps the order. *)
LEMMA OrderStep ==
  ASSUME Types, CtlInv, CallInv, HandOk, Quiet, OpenOk, Shows, EndFacts,
         Calm => Order, Calm', [Next]_vars
  PROVE  Order'
<1>c. /\ \A j \in Calls : j # Srv /\ j \in Ends /\ SideOf(j) = "C"
      /\ \A x \in Ends : x \in Calls \/ x = Srv
      /\ at \in [Ends -> SrvPlaces \cup CallPlaces] /\ Srv \in Ends /\ SideOf(Srv) = "S"
      /\ end \in [Ends -> End] /\ wire \in [Sides -> Stream] /\ Sides = {"C", "S"}
      /\ sess \in [Sides -> Session]
  BY Ints DEF Ends, SideOf, Types, AtTypes, EndTypes, WireTypes, SessTypes, Sides
<1>d. /\ Order /\ ~Event /\ UNCHANGED events /\ events = 0 /\ EndsSent
      /\ conn = Sides /\ conn' = Sides
      /\ dial \notin {"fail", "failed"}
      /\ \A s \in Sides : ~Dead(s) /\ ReadError(s) = {} /\ ~WriteFails(s)
      /\ at[Srv] \notin {"fail", "gone"} /\ ~sess["S"].closed
  BY CalmFacts DEF Order
<1>r. \A x \in Ends : ReadError(SideOf(x)) = {}
  BY <1>c, <1>d
<1>s. ASSUME end' = end, \A k \in Calls : at'[k] = at[k]
      PROVE  SignsKept /\ SrvEndKept
  BY <1>s DEF SignsKept, SignKept, Begun, SrvEndKept
<1>g. ASSUME NEW pl, Goto(Srv, pl)
      PROVE  (\A k \in Calls : at'[k] = at[k]) /\ at'[Srv] = pl
  BY <1>c, <1>g DEF Goto
<1>k. ASSUME SrvEndKept, at'[Srv] = at[Srv] PROVE Between' <=> Between
  BY <1>k DEF SrvEndKept, Between
<1>o. ASSUME SignsKept, SrvEndKept, at'[Srv] = at[Srv],
             UNCHANGED dial, wire'["S"] = wire["S"], sess'["S"].closed <=> sess["S"].closed
      PROVE  Order'
  BY <1>o, <1>d, <1>k, OrderKept
\* A call's end at work, its wire and its side of the session.
<1>w. ASSUME NEW k \in Calls, OthersKept(k), end'[k].sendClosed <=> end[k].sendClosed,
             \A x \in Ends : at'[x] = at[x],
             UNCHANGED dial, wire'["S"] = wire["S"], sess'["S"].closed <=> sess["S"].closed
      PROVE  Order'
  <2>1. SignsKept /\ SrvEndKept
    BY <1>c, <1>w, SameSigns DEF SignsKept, SignKept, Begun, OthersKept
  <2> QED
    BY <1>c, <1>o, <1>w, <2>1
\* The server's end at work, what it has read of its call kept.
<1>v. ASSUME OthersKept(Srv), end'[Srv].half <=> end[Srv].half,
             \A k \in Calls : at'[k] = at[k], Between' <=> Between,
             at'[Srv] \notin {"ack", "fail", "gone"},
             UNCHANGED dial, wire'["S"] = wire["S"], sess'["S"].closed <=> sess["S"].closed
      PROVE  Order'
  <2>1. SignsKept
    BY <1>v, SameSigns DEF CallsPlaced
  <2> QED
    BY <1>d, <1>v, <2>1, OrderKept
<1>1. CASE ClientClose
  BY <1>1, <1>d DEF ClientClose
<1>2. CASE ServerClose
  BY <1>2, <1>d DEF ServerClose
<1>3. CASE Cut
  BY <1>3, <1>d DEF Cut
<1>4. CASE ServerGreets
  <2>1. /\ Goto(Srv, "ack") /\ Writes("S", Frame("greeting", None, 0)) /\ at[Srv] = "greet"
        /\ UNCHANGED <<end, dial>>
    BY <1>4, <1>c, <1>d DEF ServerGreets
  <2>2. wire'["S"] = wire["S"] /\ sess' = sess
    BY <2>1, <1>c DEF Writes, Peer
  <2>3. dial # "ready"
    BY <2>1 DEF HandOk
  <2>4. Between' <=> Between
    BY <2>1, <1>g DEF Between
  <2> QED
    BY <1>d, <1>g, <1>s, <2>1, <2>2, <2>3, <2>4, OrderKept
<1>5. CASE ServerReadsAck
  <2>1. /\ at[Srv] = "ack" /\ Arriving("S", "ack") /\ Goto(Srv, "idle")
        /\ wire' = [wire EXCEPT !["S"] = Tail(@)] /\ UNCHANGED <<sess, dial, end>>
    BY <1>5, <1>c, <1>d DEF ServerReadsAck
  <2>2. Up # <<>> /\ Head(Up).t = "ack" /\ wire'["S"] = Tail(wire["S"])
    BY <2>1, <1>c DEF Arriving, Up
  <2>3. Stops(Up[1])
    BY <2>2, UpHead DEF Stops
  <2>4. Between'
    BY <2>1, <1>g DEF Between, EndFacts
  <2> QED
    BY <1>d, <1>g, <1>s, <2>1, <2>2, <2>3, <2>4, OrderTails
<1>6. CASE ClientReadsGreeting
  <2>1. /\ dial = "greeting" /\ dial' = "ack" /\ UNCHANGED <<sess, at, end>>
        /\ wire' = [wire EXCEPT !["C"] = Tail(@)]
    BY <1>6, <1>c, <1>d DEF ClientReadsGreeting
  <2>2. wire'["S"] = wire["S"]
    BY <2>1, <1>c
  <2> QED
    BY <1>d, <1>k, <1>s, <2>1, <2>2, OrderKept
<1>7. CASE ClientAcks
  <2>1. /\ dial = "ack" /\ Writes("C", Frame("ack", None, 0)) /\ dial' = "ready"
        /\ UNCHANGED <<at, end>>
    BY <1>7, <1>c, <1>d DEF ClientAcks
  <2>2. wire["S"] = <<>> /\ at[Srv] = "ack" /\ \A k \in Calls : at[k] = "new"
    BY <2>1, <1>d DEF HandOk, Types, AtTypes
  <2>3. wire'["S"] = Append(wire["S"], Frame("ack", None, 0)) /\ sess' = sess
    BY <2>1, <1>c, <1>d DEF Writes, Peer
  <2>4. Len(Up') = 1 /\ Up'[1].t = "ack" /\ Up' # <<>>
    <3>1. Frame("ack", None, 0) \in Frames /\ Frame("ack", None, 0).t = "ack"
      BY FrameType DEF Tags, Frame
    <3>2. wire["S"] \in Stream /\ Len(wire["S"]) = 0
      BY <1>c, <2>2, Streams
    <3> QED
      BY <2>3, <3>1, <3>2, Appends DEF Up
  <2>5. ~Between'
    BY <2>1, <2>2 DEF Between, EndFacts
  <2>6. WholeCalls' /\ Settled'
    BY <2>4, <2>5 DEF WholeCalls, Settled, Stops
  <2>7. \A k \in Calls : ~Begun(k)'
    BY <2>1, <2>2 DEF Begun
  <2> QED
    BY <1>d, <2>1, <2>2, <2>3, <2>4, <2>6, <2>7 DEF Order
<1>8. CASE HandshakeExpires
  BY <1>8, <1>d DEF HandshakeExpires
<1>9. CASE ClosesFailed
  BY <1>9, <1>d DEF ClosesFailed
<1>10. CASE AcceptCall
  <2>1. /\ Arriving("S", "open") /\ Goto(Srv, "user") /\ OthersKept(Srv) /\ UNCHANGED dial
        /\ wire' = [wire EXCEPT !["S"] = Tail(@)] /\ sess' = [sess EXCEPT !["S"].inCall = TRUE]
        /\ ~end'[Srv].half
    BY <1>10, AcceptEnd DEF AcceptCall
  <2>2. Up # <<>> /\ Head(Up).t = "open" /\ wire'["S"] = Tail(wire["S"])
    BY <2>1, <1>c DEF Arriving, Up
  <2>3. ~Stops(Up[1])
    BY <2>2, UpHead DEF Stops
  <2>4. sess'["S"].closed <=> sess["S"].closed
    BY <2>1, <1>c DEF Session
  <2>5. ~Between' /\ at'[Srv] = "user" /\ SignsKept
    BY <2>1, <1>g, SameSigns DEF Between, CallsPlaced
  <2> QED
    BY <1>d, <2>1, <2>2, <2>3, <2>4, <2>5, OrderTails
<1>11. CASE AcceptFails
  <2>1. conn' = conn \ {"S"} \/ sess["S"].closed \/ ReadError("S") # {}
    BY <1>11 DEF AcceptFails
  <2> QED
    BY <2>1, <1>c, <1>d
<1>12. CASE ServerSend
  <2>1. /\ Writes("S", Frame("data", cur, end[Srv].msgs + 1)) /\ at[Srv] = "user" /\ UNCHANGED <<at, dial>>
        /\ OthersKept(Srv) /\ CloseKept(Srv) /\ (end'[Srv].half <=> end[Srv].half)
    BY <1>12, <1>c, <1>d, ServerSendEnd DEF ServerSend, HandlerWrites
  <2>2. wire'["S"] = wire["S"] /\ sess' = sess
    BY <2>1, <1>c DEF Writes, Peer
  <2>3. Between' <=> Between
    BY <2>1 DEF Between
  <2> QED
    BY <1>v, <2>1, <2>2, <2>3
<1>13. CASE ServerFinish
  <2>1. /\ Writes("S", Frame("status", cur, 0)) /\ at[Srv] = "user" /\ Goto(Srv, "close")
        /\ UNCHANGED dial /\ OthersKept(Srv) /\ (end'[Srv].half <=> end[Srv].half)
    BY <1>13, <1>c, <1>d, ServerFinishEnd DEF ServerFinish, HandlerWrites
  <2>2. wire'["S"] = wire["S"] /\ sess' = sess
    BY <2>1, <1>c DEF Writes, Peer
  <2>3. Between' <=> Between
    BY <2>1, <1>g DEF Between
  <2> QED
    BY <1>g, <1>v, <2>1, <2>2, <2>3
<1>14. ASSUME NEW k \in Calls, Expire(k) PROVE Order'
  BY <1>14, <1>d DEF Expire
<1>15. ASSUME NEW k \in Calls, OpenCall(k) PROVE Order'
  <2>1. /\ UNCHANGED <<wire, dial, end>> /\ at[k] = "new" /\ at'[k] = "open"
        /\ \A x \in Ends : x # k => at'[x] = at[x]
    BY <1>15, LendSession
  <2>2. sess'["S"] = sess["S"]
    BY <1>15, <1>c DEF OpenCall
  <2>3. SignsKept /\ SrvEndKept /\ at'[Srv] = at[Srv]
    BY <2>1, <1>c DEF SignsKept, SignKept, Begun, SrvEndKept
  <2> QED
    BY <1>o, <2>1, <2>2, <2>3
<1>16. ASSUME NEW k \in Calls, OpenWrites(k) PROVE Order'
  <2> DEFINE f == Frame("open", k, 0)
  <2>1. /\ at[k] = "open" /\ Writes("C", f) /\ Goto(k, "user") /\ UNCHANGED dial
        /\ OthersKept(k) /\ CloseKept(k) /\ (end'[k].sendClosed <=> end[k].sendClosed)
    BY <1>16, <1>c, <1>d, OpenEnd, OpenSigns DEF OpenWrites
  <2>2. f \in Frames /\ f.t = "open" /\ wire'["S"] = Append(wire["S"], f) /\ sess' = sess
    BY <2>1, <1>c, <1>d, FrameType DEF Writes, Peer, Frame, Tags
  <2>3. dial = "ready"
    BY <2>1 DEF HandOk
  <2>4. ~Begun(k) /\ Holding(k) /\ ~end[k].sendClosed
    BY <2>1, <1>c DEF Begun, Holding, CtlInv, LoopOk, EndFacts
  <2>5. \A j \in Calls : Begun(j) => end[j].sendClosed
    BY <2>4, <1>d, OthersSent
  <2>6. Settled
    BY <1>d, <2>3, <2>5 DEF Order
  <2>7. Begun(k)' /\ ~end'[k].sendClosed
    BY <2>1, <2>4, <1>c DEF Goto, Begun
  <2>8. at'[Srv] = at[Srv] /\ SrvEndKept
    BY <2>1, <1>c, SameSigns DEF Goto
  <2>9. ~Stops(f)
    BY <2>2 DEF Stops
  <2> HIDE DEF f
  <2> QED
    BY <1>d, <1>k, <2>1, <2>2, <2>3, <2>6, <2>7, <2>8, <2>9, OrderAppends
<1>17. ASSUME NEW k \in Calls, Send(k) PROVE Order'
  <2> DEFINE f == Frame("data", k, end'[k].msgs)
  <2>1. /\ Begun(k) /\ ~end[k].sendClosed /\ Writes("C", f) /\ UNCHANGED <<at, dial>>
        /\ OthersKept(k) /\ (end'[k].sendClosed <=> end[k].sendClosed)
    BY <1>17, <1>c, <1>d, SendSigns DEF Send, SendOpen, ClientWrites, Begun
  <2>2. end'[k].msgs \in Nat
    <3>1. end[k] \in End
      BY <1>c
    <3>2. end'[k] = [end[k] EXCEPT !.msgs = @ + 1]
      BY <1>17, <1>c DEF Send
    <3> QED
      BY <3>1, <3>2 DEF End, EndRecord
  <2>3. f \in Frames /\ f.t = "data" /\ wire'["S"] = Append(wire["S"], f) /\ sess' = sess
    BY <2>1, <2>2, <1>c, <1>d, FrameType DEF Writes, Peer, Frame, Tags
  <2>4. dial = "ready"
    BY <2>1 DEF HandOk, Begun
  <2>5. ~Settled
    BY <1>d, <2>1, <2>4 DEF Order
  <2>6. Begun(k)' /\ ~end'[k].sendClosed
    BY <2>1 DEF Begun
  <2>7. at'[Srv] = at[Srv] /\ SrvEndKept
    BY <2>1, SameSigns
  <2>8. ~Stops(f) /\ f.t # "open"
    BY <2>3 DEF Stops
  <2> HIDE DEF f
  <2> QED
    BY <1>d, <1>k, <2>1, <2>3, <2>4, <2>5, <2>6, <2>7, <2>8, OrderAppends
<1>18. ASSUME NEW k \in Calls, HalfClose(k) PROVE Order'
  <2> DEFINE f == Frame("end", k, 0)
  <2>1. /\ at[k] = "user" /\ ~end[k].sendClosed /\ ~end[k].closed /\ Writes("C", f)
        /\ UNCHANGED <<at, dial>> /\ OthersKept(k) /\ end'[k].sendClosed
    BY <1>18, <1>c, <1>d, SendSigns DEF HalfClose, HalfOpen, ClientWrites
  <2>2. Begun(k) /\ Holding(k)
    BY <2>1, <1>c DEF Begun, Holding, CtlInv, LoopOk
  <2>3. f \in Frames /\ f.t = "end" /\ wire'["S"] = Append(wire["S"], f) /\ sess' = sess
    BY <2>1, <1>c, <1>d, FrameType DEF Writes, Peer, Frame, Tags
  <2>4. dial = "ready"
    BY <2>1 DEF HandOk
  <2>5. ~Settled
    BY <1>d, <2>1, <2>2, <2>4 DEF Order
  <2>6. \A j \in Calls : Begun(j)' => end'[j].sendClosed
    <3>1. \A j \in Calls : j # k /\ Begun(j) => end[j].sendClosed
      BY <1>d, <2>2, OthersSent
    <3> QED
      BY <1>c, <2>1, <3>1 DEF Begun, OthersKept
  <2>7. at'[Srv] = at[Srv] /\ SrvEndKept
    BY <2>1, SameSigns
  <2>8. Stops(f) /\ f.t # "open"
    BY <2>3 DEF Stops
  <2> HIDE DEF f
  <2> QED
    BY <1>d, <1>k, <2>1, <2>3, <2>4, <2>5, <2>6, <2>7, <2>8, OrderAppends
<1>19. ASSUME NEW k \in Calls, SendPauses(k) PROVE Order'
  BY <1>19, <1>d DEF SendPauses
<1>20. ASSUME NEW k \in Calls, SendResumes(k) PROVE Order'
  BY <1>20, <1>d DEF SendResumes, EndFacts
<1>21. ASSUME NEW k \in Calls, RecvEnds(k) PROVE Order'
  <2>1. UNCHANGED <<sess, wire, dial, at, end>>
    BY <1>21 DEF RecvEnds
  <2> QED
    BY <1>o, <1>s, <2>1
<1>22. ASSUME NEW x \in Ends, LoopReads(x) PROVE Order'
  <2>1. UNCHANGED <<sess, dial, at>> /\ wire' = [wire EXCEPT ![SideOf(x)] = Tail(@)]
    BY <1>22 DEF LoopReads
  <2>2. CASE x \in Calls
    <3>1. wire'["S"] = wire["S"]
      BY <1>c, <2>1, <2>2
    <3>2. CASE end' = end
      BY <1>o, <1>s, <2>1, <3>1, <3>2
    <3>3. CASE OthersKept(x)
      BY <1>22, <1>w, <2>1, <2>2, <3>1, <3>3, SendingKept
    <3> QED
      BY <1>22, <3>2, <3>3, LoopReadsEnd DEF Reads
  <2>3. CASE x = Srv
    <3>1. /\ Up # <<>> /\ Head(Up).t # "open" /\ end[Srv].loop = "read"
          /\ wire'["S"] = Tail(wire["S"])
      BY <1>22, <1>c, <2>1, <2>3 DEF LoopReads, Up
    <3>2. /\ Reads(Srv, Head(Up)) /\ Head(Up) = Up[1]
          /\ at[Srv] \in {"user", "close"} /\ ~end[Srv].half
      BY <1>22, <1>c, <2>3, <3>1, LoopReadsEnd, UpHead DEF CtlInv, SrvOk, LoopOk, Up
    <3>3. Stops(Up[1]) <=> Head(Up).t = "end"
      BY <3>1, <3>2, UpHead DEF Stops
    <3>4. end'[Srv].half <=> Head(Up).t = "end"
      BY <3>2 DEF Reads
    <3>5. Between' <=> Stops(Up[1])
      BY <2>1, <3>2, <3>3, <3>4 DEF Between
    <3>6. SignsKept
      BY <2>1, <3>2, <1>s, SameSigns DEF Reads, CallsPlaced
    <3> QED
      BY <1>d, <2>1, <3>1, <3>2, <3>5, <3>6, OrderTails
  <2> QED
    BY <1>c, <2>2, <2>3
<1>23. ASSUME NEW x \in Ends, LoopReadsOpen(x) PROVE Order'
  BY <1>23, <1>c, <1>d DEF LoopReadsOpen
<1>24. ASSUME NEW x \in Ends, LoopLost(x) PROVE Order'
  BY <1>24, <1>d, <1>r DEF LoopLost, LoopFails, LoopRefuses
\* What is left of the loops and of Close, at either end.
<1>l. ASSUME NEW x \in Ends, OthersKept(x), end'[x].half <=> end[x].half,
             end'[x].sendClosed <=> end[x].sendClosed, UNCHANGED <<wire, dial, at>>,
             sess'["S"].closed <=> sess["S"].closed,
             x = Srv => at[Srv] \in {"user", "close"}
      PROVE  Order'
  <2>1. CASE x = Srv
    <3>1. Between' <=> Between
      BY <1>l, <2>1 DEF Between
    <3> QED
      BY <1>l, <1>v, <2>1, <3>1
  <2>2. CASE x \in Calls
    BY <1>l, <1>w, <2>2
  <2> QED
    BY <1>c, <2>1, <2>2
<1>25. ASSUME NEW x \in Ends, LoopPushes(x) PROVE Order'
  <2>1. UNCHANGED <<sess, wire, dial, at>> /\ (x = Srv => at[Srv] \in {"user", "close"})
    BY <1>25 DEF LoopPushes, CtlInv, SrvOk
  <2> QED
    BY <1>25, <1>l, <2>1, LoopPushesEnd, SendingKept
<1>26. ASSUME NEW x \in Ends, LoopCancelled(x) PROVE Order'
  <2>1. UNCHANGED <<sess, wire, dial, at>> /\ (x = Srv => at[Srv] \in {"user", "close"})
    BY <1>26 DEF LoopCancelled, CtlInv, SrvOk
  <2> QED
    BY <1>26, <1>l, <2>1, LoopCancelledEnd, SendingKept
<1>27. ASSUME NEW x \in Ends, LoopDone(x) PROVE Order'
  <2>1. UNCHANGED <<sess, wire, dial, at>> /\ (x = Srv => at[Srv] \in {"user", "close"})
    BY <1>27 DEF LoopDone, CtlInv, SrvOk
  <2> QED
    BY <1>27, <1>l, <2>1, LoopDoneEnd, SendingKept DEF ItemKept
<1>28. ASSUME NEW x \in Ends, RecvTakes(x) PROVE Order'
  <2>1. UNCHANGED <<sess, wire, dial, at, end>>
    BY <1>28 DEF RecvTakes
  <2> QED
    BY <1>o, <1>s, <2>1
<1>29. ASSUME NEW x \in Ends, CloseStarts(x) PROVE Order'
  <2>1. UNCHANGED <<sess, wire, dial, at>> /\ (x = Srv => at[Srv] \in {"user", "close"})
    BY <1>29 DEF CloseStarts, hist
  <2> QED
    BY <1>29, <1>l, <2>1, CloseStartsEnd, SendingKept DEF ItemKept
<1>30. ASSUME NEW x \in Ends, CloseAborts(x) PROVE Order'
  <2>1. conn' = conn \ {SideOf(x)} /\ SideOf(x) \in Sides
    BY <1>30, <1>c DEF CloseAborts
  <2> QED
    BY <1>d, <2>1
<1>31. ASSUME NEW x \in Ends, CloseDetaches(x) PROVE Order'
  <2>1. /\ UNCHANGED <<wire, dial>> /\ OthersKept(x) /\ (end'[x].half <=> end[x].half)
        /\ end'[x].sendClosed <=> end[x].sendClosed
    BY <1>31, DetachEnd, DetachSession
  <2>2. sess'["S"].closed <=> sess["S"].closed
    <3>1. CASE x = Srv
      <4> DEFINE b == sess["S"].reusable /\ ~(sess["S"].inCall /\ end[x].poison)
      <4>1. sess'["S"] = [sess["S"] EXCEPT !.inCall = FALSE, !.reusable = b]
        BY <1>31, <1>c, <3>1 DEF CloseDetaches
      <4> HIDE DEF b
      <4> QED
        BY <4>1, <1>c DEF Session
    <3>2. CASE x # Srv
      BY <1>31, <1>c, <3>2 DEF CloseDetaches, SideOf
    <3> QED
      BY <3>1, <3>2
  <2>3. CASE x = Srv
    <3>1. Goto(Srv, "idle") /\ at[Srv] = "close" /\ end'[Srv].closed
      BY <1>31, <2>3, DetachEnd DEF CloseDetaches, CtlInv, SrvOk
    <3>2. Between' <=> Between
      BY <2>1, <2>3, <3>1, <1>g DEF Between
    <3> QED
      BY <1>g, <1>v, <2>1, <2>2, <2>3, <3>1, <3>2
  <2>4. CASE x # Srv
    <3>1. UNCHANGED at
      BY <1>31, <2>4, DetachSession
    <3> QED
      BY <1>l, <2>1, <2>2, <2>4, <3>1
  <2> QED
    BY <2>3, <2>4
<1>32. CASE UNCHANGED vars
  <2>1. UNCHANGED <<sess, wire, dial, at, end>>
    BY <1>32 DEF vars
  <2> QED
    BY <1>o, <1>s, <2>1
<1> QED
  BY <1>1, <1>2, <1>3, <1>4, <1>5, <1>6, <1>7, <1>8, <1>9, <1>10, <1>11, <1>12, <1>13, <1>14,
      <1>15, <1>16, <1>17, <1>18, <1>19, <1>20, <1>21, <1>22, <1>23, <1>24, <1>25, <1>26, <1>27,
      <1>28, <1>29, <1>30, <1>31, <1>32
  DEF Next, Loop, LoopLost, Close

(***************************************************************************)
(* The invariant, and what it says                                         *)
(***************************************************************************)

(* The initial state satisfies the invariant. *)
LEMMA InitInv == Init => IInv
<1> SUFFICES ASSUME Init PROVE IInv
  OBVIOUS
<1>1. Types
  BY InitTypes
<1>2. /\ at[Srv] = "greet" /\ Srv \in Ends
      /\ \A k \in Calls : at[k] = "new" /\ k # Srv /\ k \in Ends
      /\ cur = None /\ ctx = {} /\ conn = Sides /\ dial = "greeting" /\ events = 0 /\ ~cut /\ ~late
      /\ wire["S"] = <<>> /\ wire["C"] = <<>> /\ Len(<<>>) = 0 /\ "C" \in Sides
  BY Ints, Streams DEF Init, Sides
<1>3. \A x \in Ends : end[x] = NewEnd /\ inbox[x] = <<>>
  BY DEF Init
<1>4. \A k \in Calls : sent[k] = <<>> /\ got[k] = <<>>
  BY DEF Init
<1>5. /\ ~NewEnd.closed /\ ~NewEnd.half /\ ~NewEnd.term /\ NewEnd.loop = "off" /\ NewEnd.item = None
      /\ NewEnd.closing = "no" /\ NewEnd.msgs = 0 /\ ~NewEnd.atEnd /\ ~NewEnd.sendClosed
  BY DEF NewEnd
<1>6. CtlInv
  BY <1>2, <1>3, <1>5 DEF CtlInv, SrvOk, LoopOk, Begun
<1>7. CallInv
  BY <1>2, <1>3, <1>5 DEF CallInv, CallOk, Holding
<1>8. SentInv
  BY <1>2, <1>4, NoneIsNoCall DEF SentInv, SentOk, Written
<1>9. HandOk /\ Quiet /\ ClientKept
  BY <1>2 DEF HandOk, Quiet, ClientKept
<1>10. LogInv
  <2> SUFFICES ASSUME NEW k \in Calls PROVE LogOk(k)
    BY DEF LogInv
  <2> USE <1>2, <1>3, <1>4, <1>5
  <2>1. GotOk(k) /\ InboxOk(k) /\ HeldOk(k) /\ TermOk(k)
    BY DEF GotOk, InboxOk, HeldOk, TermOk
  <2>2. WireOk(k)
    BY DEF WireOk, Last
  <2> QED
    BY <2>1, <2>2 DEF LogOk
<1>11. UpInv
  BY <1>2 DEF UpInv, OpenOk, Mine, Served, Delivered
<1>12. EndFacts /\ ServerKept
  BY <1>2, <1>3, <1>5 DEF EndFacts, ServerKept, Sides
<1>13. Order
  <2>1. ~Between /\ Up = <<>> /\ Len(Up) = 0 /\ ~sess["S"].closed
    BY <1>2, <1>3, <1>5 DEF Between, Up, Init, NewSession, Sides
  <2>2. WholeCalls
    BY <2>1 DEF WholeCalls
  <2> QED
    BY <1>2, <2>1, <2>2 DEF Order
<1> QED
  BY <1>1, <1>6, <1>7, <1>8, <1>9, <1>10, <1>11, <1>12, <1>13 DEF IInv

(* Every step keeps the invariant. *)
LEMMA StepInv == IInv /\ [Next]_vars => IInv'
<1> SUFFICES ASSUME IInv, [Next]_vars PROVE IInv'
  OBVIOUS
<1>1. /\ Types /\ CtlInv /\ CallInv /\ SentInv /\ HandOk /\ Quiet /\ LogInv /\ UpInv
      /\ ClientKept /\ EndFacts /\ (Calm => Order) /\ ServerKept
      /\ OpenOk
  BY DEF IInv, UpInv
<1>2. Types' /\ CtlInv' /\ CallInv'
  BY <1>1, TypesStep, CtlStep, CallStep
<1>3. SentInv' /\ HandOk' /\ LogInv'
  BY <1>1, SentStep, HandStep, LogStep
<1>4. UpInv'
  BY <1>1, UpStep, DeliveredStep DEF UpInv, Upward
<1>5. Quiet' /\ ClientKept'
  BY <1>1, QuietStep, HealthStep
<1>6. Shows
  BY <1>1, StepShows
<1>7. EndFacts' /\ (Calm' => Order') /\ ServerKept'
  BY <1>1, <1>6, EndFactsStep, OrderStep, ServerStep
<1> QED
  BY <1>2, <1>3, <1>4, <1>5, <1>7 DEF IInv

(* The inductive invariant holds throughout.                               *)
THEOREM SessionInvariant == Spec => []IInv
  BY InitInv, StepInv, PTL DEF Spec

(* Streams that agree in length and frames are the same. *)
LEMMA SameStream ==
  ASSUME NEW p \in Stream, NEW q \in Stream, Len(p) = Len(q),
         \A i \in 1 .. Len(p) : p[i] = q[i]
  PROVE  p = q
BY DEF Stream

(* The invariant implies MessagesKept. *)
LEMMA InvMessages == IInv => MessagesKept
<1> SUFFICES ASSUME IInv PROVE MessagesKept
  OBVIOUS
<1> USE DEF IInv
<1>1. ASSUME NEW k \in Calls, Len(got[k]) > 0, end[k].term,
             got[k][Len(got[k])].t \in {"status", "eof"}
      PROVE  got[k] = sent[k]
  <2>1. got[k] \in Stream /\ sent[k] \in Stream
    BY LogTyped
  <2>2. PICK n \in Nat : n = Len(got[k])
    BY <2>1, Streams
  <2>3. \A i \in 1 .. n : IsAnswer(got[k][i]) /\ i <= Len(sent[k]) /\ got[k][i] = sent[k][i]
    BY <1>1, <2>2, AnswersOnly
  <2>4. n \in 1 .. n
    BY <1>1, <2>2
  <2>5. n \in 1 .. Len(sent[k]) /\ sent[k][n].t = "status"
    BY <1>1, <2>1, <2>2, <2>3, <2>4, Streams DEF IsAnswer
  <2>6. n = Len(sent[k])
    <3>1. \/ sent[k][n] = Frame("data", k, n)
          \/ sent[k][n] = Frame("status", k, 0) /\ n = Len(sent[k])
      BY <2>5 DEF SentInv, SentOk
    <3> QED
      BY <2>5, <3>1 DEF Frame
  <2> QED
    BY <2>1, <2>2, <2>3, <2>6, SameStream
<1>2. ASSUME ~late, cur # None,
             NEW f \in {inbox[Srv][i] : i \in 1 .. Len(inbox[Srv])} \cup {end[Srv].item}
      PROVE  f \in {None} \cup {Failure("eof"), Failure("err")} \/ f.k = cur
  <2>1. CASE \E i \in 1 .. Len(inbox[Srv]) : f = inbox[Srv][i]
    BY <1>2, <2>1 DEF UpInv, Delivered
  <2>2. CASE f = end[Srv].item
    BY <1>2, <2>2, Ints DEF UpInv, Delivered, CtlInv, LoopOk
  <2> QED
    BY <1>2, <2>1, <2>2
<1> QED
  BY <1>1, <1>2 DEF MessagesKept

(* The invariant implies AbortsForCause. *)
LEMMA InvAborts == IInv => AbortsForCause
<1> SUFFICES ASSUME IInv PROVE AbortsForCause
  OBVIOUS
<1>1. ASSUME NEW x \in Ends,
             end[x].closing = "wait" \/ (end[x].closing = "cancelled" /\ end[x].atEnd)
      PROVE  /\ end[x].loop = "read" => Dead(SideOf(x))
             /\ end[x].loop \in {"push", "last"} => x \in ctx
  BY <1>1 DEF IInv, CtlInv, LoopOk, AtEnd, Dead
<1>2. HealthyKept
  BY DEF IInv, ClientKept, ServerKept, EndsSent, HealthyKept
<1> QED
  BY <1>1, <1>2 DEF AbortsForCause, WaitBounded

(* A call that read its STATUS reports the end only as that STATUS, behind  *)
(* every message sent before it, and a handler gets no message of another   *)
(* call unless a Send was overtaken by its Close.                           *)
THEOREM MessagesAreKept == Spec => []MessagesKept
<1>1. IInv => MessagesKept
  BY InvMessages
<1> QED
  BY <1>1, SessionInvariant, PTL

(* Close aborts no healthy connection, and waits for recvLoop only when it  *)
(* is on its way out.                                                       *)
THEOREM AbortsAreForCause == Spec => []AbortsForCause
<1>1. IInv => AbortsForCause
  BY InvAborts
<1> QED
  BY <1>1, SessionInvariant, PTL

(***************************************************************************)
(* The synth connection implements the sequential session                  *)
(***************************************************************************)

\* Who holds the connection, and what the calls have received.
Holder == IF Holders = {} THEN None ELSE CHOOSE k \in Holders : TRUE
Received == [k \in Calls |-> Answer(got[k])]
Stutters == UNCHANGED <<Holder, sent, Received>> /\ (Usable' => Usable)

\* What of the abstract steps is to be shown, in the variables of this module.
Lends(k) == /\ Holder = None /\ Usable /\ Holder' = k /\ UNCHANGED <<sent, Received>>
Responds(k) ==
  /\ sent[k] \in AllAnswers /\ ~HasEnd(sent[k])
  /\ \E a \in AllAnswers : /\ Len(a) = Len(sent[k]) + 1
                           /\ SubSeq(a, 1, Len(sent[k])) = sent[k]
                           /\ sent' = [sent EXCEPT ![k] = a]
  /\ (Usable' => Usable) /\ UNCHANGED <<Holder, Received>>
Receives(k) ==
  /\ Holder = k /\ Len(Received[k]) < Len(sent[k])
  /\ Received' = [Received EXCEPT ![k] = Append(@, sent[k][Len(@) + 1])]
  /\ UNCHANGED <<Holder, Usable, sent>>
Returns(k) ==
  /\ Holder = k /\ Holder' = None /\ (Usable' => Usable /\ HasEnd(sent[k]))
  /\ UNCHANGED <<sent, Received>>
Implemented ==
  Stutters \/ \E k \in Calls : Lends(k) \/ Responds(k) \/ Receives(k) \/ Returns(k)

(* The steps of the sequential session, in the variables of this module. *)
LEMMA AbstractStep == Implemented => [Sequential!SNext]_Sequential!svars
<1>u. Usable \in BOOLEAN /\ Usable' \in BOOLEAN
  BY DEF Usable
<1> USE <1>u
<1>1. ASSUME Stutters PROVE [Sequential!SNext]_Sequential!svars
  <2>1. CASE Usable' = Usable
    BY <1>1, <2>1 DEF Stutters, Holder, Usable, Received, Sequential!svars
  <2>2. CASE Usable' = FALSE
    <3>1. Sequential!Spoil
      BY <1>1, <2>2 DEF Stutters, Holder, Usable, Received, Sequential!Spoil
    <3> QED
      BY <3>1 DEF Sequential!SNext
  <2> QED
    BY <1>1, <2>1, <2>2 DEF Stutters
<1>2. ASSUME NEW k \in Calls, Lends(k) PROVE Sequential!Lend(k)
  BY <1>2 DEF Lends, Holder, Usable, Received, Sequential!Lend
<1>3. ASSUME NEW k \in Calls, Responds(k) PROVE Sequential!Respond(k)
  <2>1. Usable' \in {Usable, FALSE}
    BY <1>3 DEF Responds
  <2> QED
    BY <1>3, <2>1 DEF Responds, Holder, Usable, Received, Sequential!Respond
<1>4. ASSUME NEW k \in Calls, Receives(k) PROVE Sequential!Receive(k)
  BY <1>4 DEF Receives, Holder, Usable, Received, Sequential!Receive
<1>5. ASSUME NEW k \in Calls, Returns(k) PROVE Sequential!Return(k)
  BY <1>5 DEF Returns, Holder, Usable, Received, Sequential!Return
<1> QED
  BY <1>1, <1>2, <1>3, <1>4, <1>5 DEF Implemented, Sequential!SNext

(* The holder is the call that has not given the connection back. *)
LEMMA HolderIs ==
  ASSUME CallInv, NEW k \in Calls, Holding(k)
  PROVE  Holder = k /\ Holders = {k}
<1>1. Holders = {k}
  BY LastUnique DEF CallInv, CallOk, Holders, Holding
<1> QED
  BY <1>1 DEF Holder

(* Without a call that holds the connection there is no holder. *)
LEMMA NobodyHolds ==
  ASSUME \A k \in Calls : ~Holding(k)
  PROVE  Holder = None
BY DEF Holder, Holders, Holding

(* The holder changes only when a call starts or stops holding. *)
LEMMA HolderKept ==
  ASSUME \A k \in Calls : Holding(k)' <=> Holding(k)
  PROVE  Holder' = Holder
<1>1. Holders' = Holders
  BY DEF Holders, Holding
<1> QED
  BY <1>1 DEF Holder

(* What was received changes with got only. *)
LEMMA ReceivedKept == got' = got => Received' = Received
  BY DEF Received

(* openCall lends the connection. *)
LEMMA LendsRefine ==
  ASSUME IInv, NEW k \in Calls, OpenCall(k)
  PROVE  Lends(k)
<1>1. /\ at[k] = "new" /\ at'[k] = "open" /\ \A j \in Calls : j # k => at'[j] = at[j]
      /\ Usable /\ ~sess["C"].inCall
      /\ UNCHANGED <<end, sent, got>>
  BY LendSession, Ints DEF IInv
<1>2. \A j \in Calls : ~Holding(j)
  BY <1>1 DEF IInv, CallInv, CallOk
<1>3. Holding(k)' /\ \A j \in Calls : Holding(j)' => j = k
  <2>1. end[k].closing = "no"
    BY <1>1, Ints DEF IInv, CtlInv, LoopOk, Begun
  <2> QED
    BY <1>1, <1>2, <2>1 DEF Holding
<1>4. Holders' = {k}
  BY <1>3 DEF Holders, Holding
<1>5. Holder' = k
  BY <1>4 DEF Holder
<1> QED
  BY <1>1, <1>2, <1>5, NobodyHolds, ReceivedKept DEF Lends

(* The OPEN that fails gives the session back unusable. *)
LEMMA OpensRefine ==
  ASSUME IInv, NEW k \in Calls, OpenWrites(k)
  PROVE  Stutters \/ Returns(k)
<1>1. /\ at[k] = "open" /\ UNCHANGED <<sent, got>> /\ CloseKept(k) /\ OthersKept(k)
      /\ \/ UNCHANGED sess /\ at' = [at EXCEPT ![k] = "user"]
         \/ sess'["C"].reusable = FALSE /\ at' = [at EXCEPT ![k] = "dead"]
  BY OpenEnd DEF OpenWrites, hist, IInv, Writes
<1>2. at \in [Ends -> SrvPlaces \cup CallPlaces] /\ k \in Ends /\ \A j \in Calls : j \in Ends
  BY Ints DEF IInv, Types, AtTypes
<1>3. \A j \in Calls : end'[j].closing = end[j].closing
  BY <1>1, <1>2 DEF CloseKept, OthersKept
<1>4. CASE UNCHANGED sess /\ at' = [at EXCEPT ![k] = "user"]
  <2>1. \A j \in Calls : Holding(j)' <=> Holding(j)
    BY <1>1, <1>2, <1>3, <1>4 DEF Holding
  <2> QED
    BY <1>1, <1>4, <2>1, HolderKept, ReceivedKept DEF Stutters, Usable
<1>5. CASE sess'["C"].reusable = FALSE /\ at' = [at EXCEPT ![k] = "dead"]
  <2>1. end[k].closing = "no"
    BY <1>1, <1>2 DEF IInv, CtlInv, LoopOk, Begun
  <2>2. Holding(k)
    BY <1>1, <2>1 DEF Holding
  <2>3. Holder = k /\ Holders = {k}
    BY <2>2, HolderIs DEF IInv
  <2>4. \A j \in Calls : ~Holding(j)'
    BY <1>2, <1>3, <1>5, <2>3 DEF Holding, Holders
  <2>5. Holders' = {}
    BY <2>4 DEF Holders, Holding
  <2>6. Holder' = None
    BY <2>5 DEF Holder
  <2> QED
    BY <1>1, <1>5, <2>3, <2>6, ReceivedKept DEF Returns, Usable
<1> QED
  BY <1>1, <1>4, <1>5

(* A call that Close detaches keeps the session only behind its STATUS. *)
LEMMA DetachRefines ==
  ASSUME IInv, NEW k \in Calls, CloseDetaches(k)
  PROVE  Returns(k)
<1>1. /\ end[k].closing \in {"cancelled", "wait"} /\ UNCHANGED <<at, sent, got>>
      /\ OthersKept(k) /\ end'[k].closing = "done"
      /\ Usable' => Usable /\ ~(sess["C"].inCall /\ end[k].poison)
  BY DetachSession, DetachEnd, Ints DEF IInv
<1>2. Holding(k) /\ sess["C"].inCall
  BY <1>1, LoopingCall DEF IInv
<1>3. Holder = k /\ Holders = {k}
  BY <1>2, HolderIs DEF IInv
<1>4. Holders' = {}
  BY <1>1, <1>3, Ints DEF Holders, OthersKept
<1>5. Holder' = None
  BY <1>4 DEF Holder
<1>6. Usable' => HasEnd(sent[k])
  BY <1>1, <1>2 DEF IInv, CallInv, CallOk, LogInv, LogOk, TermOk
<1> QED
  BY <1>1, <1>3, <1>5, <1>6, ReceivedKept DEF Returns

(* What was sent for a call is an answer: messages, and STATUS at the end. *)
LEMMA SentIsAnswer ==
  ASSUME Types, NEW k \in Calls, SentOk(k)
  PROVE  sent[k] \in AllAnswers
<1> DEFINE s == sent[k]
           A(n) == [i \in 1 .. n |-> Frame("data", k, i)]
<1>1. s \in Stream /\ MaxDown[k] \in Nat
  BY SynthAssumption DEF Types, LogTypes, Calls
<1>2. PICK n \in Nat : n = Len(s)
  BY <1>1, Streams
<1>3. \A i \in 1 .. n : \/ s[i] = Frame("data", k, i) /\ i <= MaxDown[k]
                        \/ s[i] = Frame("status", k, 0) /\ i = n
  BY <1>2 DEF SentOk
<1>4. \A m \in Nat : A(m) \in Stream /\ Len(A(m)) = m /\ \A i \in 1 .. m : A(m)[i] = Frame("data", k, i)
  <2> TAKE m \in Nat
  <2>1. \A i \in 1 .. m : Frame("data", k, i) \in Frames
    BY FrameType DEF Tags
  <2> QED
    BY <2>1 DEF Stream
<1>5. \A m \in 0 .. MaxDown[k] : A(m) \in AnswersFor(k)
  BY DEF AnswersFor
<1> HIDE DEF A
<1>6. CASE \A i \in 1 .. n : s[i] = Frame("data", k, i) /\ i <= MaxDown[k]
  <2>1. n \in 0 .. MaxDown[k]
    <3>1. n = 0 \/ n \in 1 .. n
      OBVIOUS
    <3> QED
      BY <1>1, <1>6, <3>1
  <2>2. s = A(n)
    BY <1>1, <1>2, <1>4, <1>6, SameStream
  <2> QED
    BY <1>5, <2>1, <2>2 DEF AllAnswers
<1>7. CASE n > 0 /\ s[n] = Frame("status", k, 0)
  <2> DEFINE f == Frame("status", k, 0)
  <2>1. PICK m \in Nat : n = m + 1
    <3>1. n - 1 \in Nat /\ n = (n - 1) + 1
      BY <1>7
    <3> QED
      BY <3>1
  <2>2. \A i \in 1 .. m : s[i] = Frame("data", k, i) /\ i <= MaxDown[k]
    <3> TAKE i \in 1 .. m
    <3>1. i \in 1 .. n /\ i # n
      BY <2>1
    <3> QED
      BY <1>3, <3>1
  <2>3. m \in 0 .. MaxDown[k]
    <3>1. m = 0 \/ m \in 1 .. m
      OBVIOUS
    <3> QED
      BY <1>1, <2>2, <3>1
  <2>4. A(m) \in Stream /\ Len(A(m)) = m /\ f \in Frames
    BY <1>4, FrameType DEF Tags
  <2>5. /\ Append(A(m), f) \in Stream /\ Len(Append(A(m), f)) = m + 1
        /\ Append(A(m), f)[m + 1] = f
        /\ \A i \in 1 .. m : Append(A(m), f)[i] = A(m)[i]
    BY <2>4, Appends
  <2>6. \A i \in 1 .. n : s[i] = Append(A(m), f)[i]
    <3> TAKE i \in 1 .. n
    <3>1. i = m + 1 \/ i \in 1 .. m
      BY <2>1
    <3>2. CASE i = m + 1
      BY <1>7, <2>1, <2>5, <3>2
    <3>3. CASE i \in 1 .. m
      BY <1>4, <2>2, <2>5, <3>3
    <3> QED
      BY <3>1, <3>2, <3>3
  <2>7. s = Append(A(m), f)
    BY <1>1, <1>2, <2>1, <2>5, <2>6, SameStream
  <2>8. A(m) \in AnswersFor(k)
    BY <1>5, <2>3
  <2> QED
    BY <2>7, <2>8 DEF AllAnswers
<1> QED
  BY <1>3, <1>6, <1>7

AllSent == \A k \in Calls : sent[k] \in AllAnswers

(* What is sent for a call is always an answer of it. *)
LEMMA SentAnswers == Types /\ SentInv => AllSent
  BY SentIsAnswer DEF SentInv, AllSent

(* And so it is behind the step. *)
LEMMA SentAnswersNext == Types' /\ SentInv' => AllSent'
  BY SentAnswers, PTL

(* A stream with a frame added, and the frame left out again. *)
LEMMA Whole ==
  ASSUME NEW q \in Stream, NEW f \in Frames
  PROVE  /\ SubSeq(Append(q, f), 1, Len(q)) = q
         /\ SubSeq(Append(q, f), 1, Len(Append(q, f)) - 1) = q
BY DEF Stream

(* The handler's frame: one more of the answer, or the connection fails. *)
LEMMA SpeaksRefine ==
  ASSUME IInv, SentInv', Types', at[Srv] = "user", NEW f \in Frames, Spoken(f),
         \A k \in Calls : at'[k] = at[k] /\ end'[k] = end[k], UNCHANGED <<got, cur>>
  PROVE  Implemented
<1>1. cur \in Calls /\ ~HasEnd(sent[cur])
  BY DEF IInv, SentInv, Written
<1>2. Holder' = Holder /\ Received' = Received
  BY HolderKept, ReceivedKept DEF Holding
<1>3. CASE UNCHANGED sess /\ sent' = [sent EXCEPT ![cur] = Append(@, f)]
  <2>1. sent[cur] \in Stream /\ sent \in [Calls -> Stream]
    BY <1>1 DEF IInv, Types, LogTypes
  <2>2. sent'[cur] = Append(sent[cur], f)
    BY <1>1, <1>3, <2>1
  <2>3. sent[cur] \in AllAnswers
    BY <1>1, SentAnswers DEF IInv, AllSent
  <2>4. sent'[cur] \in AllAnswers
    BY <1>1, SentAnswersNext DEF AllSent
  <2>5. /\ Len(sent'[cur]) = Len(sent[cur]) + 1
        /\ SubSeq(sent'[cur], 1, Len(sent[cur])) = sent[cur]
    BY <2>1, <2>2, Appends, Whole
  <2>6. sent' = [sent EXCEPT ![cur] = sent'[cur]]
    BY <1>3, <2>2
  <2>7. Usable' => Usable
    BY <1>3 DEF Usable
  <2>8. Responds(cur)
    BY <1>1, <1>2, <2>3, <2>4, <2>5, <2>6, <2>7 DEF Responds
  <2> QED
    BY <1>1, <2>8 DEF Implemented
<1>4. CASE UNCHANGED sent /\ sess' = MarkedBad("S")
  <2>1. SessKept
    BY <1>4, SessionKept DEF IInv, Sides
  <2> QED
    BY <1>2, <1>4, <2>1 DEF Implemented, Stutters, SessKept
<1> QED
  BY <1>3, <1>4 DEF Spoken

(* What a call has received, seen without the failure that ended it. *)
LEMMA AnswerOf ==
  ASSUME NEW q \in Stream, NEW f \in Frames
  PROVE  /\ Answer(Append(q, f)) = IF IsAnswer(f) THEN Append(q, f) ELSE q
         /\ (\A i \in 1 .. Len(q) : IsAnswer(q[i])) => Answer(q) = q
<1>1. /\ Append(q, f) # <<>> /\ Append(q, f)[Len(Append(q, f))] = f
  BY Appends
<1>2. q # <<>> => Len(q) \in 1 .. Len(q)
  BY Streams
<1> QED
  BY <1>1, <1>2, Whole DEF Answer

(* A Recv that returns an answer receives it. *)
LEMMA TakesRefine ==
  ASSUME IInv, NEW k \in Calls, RecvTakes(k)
  PROVE  Stutters \/ Receives(k)
<1> DEFINE f == inbox[k][1]
<1>1. /\ at[k] = "user" /\ inbox[k] # <<>> /\ Streaming(k)
      /\ got' = [got EXCEPT ![k] = Append(@, Head(inbox[k]))]
      /\ UNCHANGED <<sess, at, end, sent>> /\ k \in Ends /\ k # Srv
  BY Ints DEF RecvTakes
<1>2. /\ inbox[k] \in Stream /\ got \in [Calls -> Stream] /\ got[k] \in Stream
      /\ GotLen(k) = Len(got[k])
  BY LogTyped DEF IInv, Types, LogTypes
<1>3. f = Head(inbox[k]) /\ f \in Frames /\ 1 \in 1 .. Len(inbox[k])
  BY <1>1, <1>2, Streams, Tails
<1>4. got'[k] = Append(got[k], f) /\ \A j \in Calls : j # k => got'[j] = got[j]
  BY <1>1, <1>2, <1>3
<1>5. \A i \in 1 .. Len(got[k]) : IsAnswer(got[k][i])
  BY <1>1 DEF Streaming, IsAnswer
<1>6. Answer(got[k]) = got[k] /\ Answer(got'[k]) = IF IsAnswer(f) THEN got'[k] ELSE got[k]
  <2>1. Answer(got[k]) = got[k]
    BY <1>2, <1>3, <1>5, AnswerOf
  <2>2. Answer(Append(got[k], f)) = IF IsAnswer(f) THEN Append(got[k], f) ELSE got[k]
    BY <1>2, <1>3, AnswerOf
  <2> QED
    BY <1>4, <2>1, <2>2
<1>7. Holder' = Holder /\ Usable' = Usable
  BY <1>1, HolderKept DEF Holding, Usable
<1>8. CASE IsAnswer(f)
  <2>1. f = sent[k][Len(got[k]) + 1] /\ Len(got[k]) + 1 <= Len(sent[k])
    BY <1>2, <1>3, <1>8 DEF IInv, LogInv, LogOk, InboxOk
  <2>2. Len(got[k]) \in Nat /\ Len(sent[k]) \in Nat
    BY LogTyped DEF IInv
  <2>3. Len(got[k]) < Len(sent[k])
    BY <2>1, <2>2
  <2>4. end[k].closing # "done"
    BY <1>1 DEF IInv, CtlInv, LoopOk
  <2>5. Holder = k
    BY <1>1, <2>4, HolderIs DEF IInv, Holding
  <2>6. Received[k] = got[k]
    BY <1>6 DEF Received
  <2>7. Received' = [Received EXCEPT ![k] = Append(@, sent[k][Len(@) + 1])]
    BY <1>4, <1>6, <1>8, <2>1, <2>6 DEF Received
  <2> QED
    BY <1>1, <1>7, <2>3, <2>5, <2>6, <2>7 DEF Receives
<1>9. CASE ~IsAnswer(f)
  <2>1. Received' = Received
    BY <1>4, <1>6, <1>9 DEF Received
  <2> QED
    BY <1>1, <1>7, <2>1 DEF Stutters
<1> QED
  BY <1>8, <1>9

(* A Recv that reports the end receives nothing. *)
LEMMA EndsRefine ==
  ASSUME IInv, NEW k \in Calls, RecvEnds(k)
  PROVE  Stutters
<1> DEFINE f == EndOfStream(k)
<1>1. /\ Streaming(k) /\ got' = [got EXCEPT ![k] = Append(@, f)]
      /\ UNCHANGED <<sess, at, end, sent>> /\ k \in Ends /\ k # Srv
  BY Ints DEF RecvEnds
<1>2. got \in [Calls -> Stream] /\ got[k] \in Stream /\ end[k].err \in {None, "eof", "err"}
  BY <1>1 DEF IInv, Types, LogTypes, EndTypes, End, EndRecord
<1>3. f \in Frames /\ ~IsAnswer(f)
  BY <1>2, FrameType DEF EndOfStream, Failure, Frame, IsAnswer
<1>4. got'[k] = Append(got[k], f) /\ \A j \in Calls : j # k => got'[j] = got[j]
  BY <1>1, <1>2
<1>5. \A i \in 1 .. Len(got[k]) : IsAnswer(got[k][i])
  BY <1>1 DEF Streaming, IsAnswer
<1>6. Answer(got'[k]) = Answer(got[k])
  BY <1>2, <1>3, <1>4, <1>5, AnswerOf
<1>7. Received' = Received
  BY <1>4, <1>6 DEF Received
<1>8. Holder' = Holder /\ Usable' = Usable
  BY <1>1, HolderKept DEF Holding, Usable
<1> QED
  BY <1>1, <1>7, <1>8 DEF Stutters

(* Steps that neither send nor receive. *)
Silent == UNCHANGED <<sent, got>>
Speaks == ServerSend \/ ServerFinish \/ \E k \in Calls : RecvTakes(k) \/ RecvEnds(k)

(* Only four actions send or receive. *)
LEMMA SilentOrSpeaks == Types /\ [Next]_vars => Silent \/ Speaks
<1> SUFFICES ASSUME Types, [Next]_vars PROVE Silent \/ Speaks
  OBVIOUS
<1> USE DEF Silent
<1>1. CASE ClientClose
  BY <1>1 DEF ClientClose, hist
<1>2. CASE ServerClose
  BY <1>2 DEF ServerClose, hist
<1>3. CASE Cut
  BY <1>3 DEF Cut, hist
<1>4. CASE ServerGreets
  BY <1>4 DEF ServerGreets, hist
<1>5. CASE ServerReadsAck
  BY <1>5 DEF ServerReadsAck, hist
<1>6. CASE ClientReadsGreeting
  BY <1>6 DEF ClientReadsGreeting, hist
<1>7. CASE ClientAcks
  BY <1>7 DEF ClientAcks, hist
<1>8. CASE HandshakeExpires
  BY <1>8 DEF HandshakeExpires, hist
<1>9. CASE ClosesFailed
  BY <1>9 DEF ClosesFailed, hist
<1>10. CASE AcceptCall
  BY <1>10 DEF AcceptCall, hist
<1>11. CASE AcceptFails
  BY <1>11 DEF AcceptFails, hist
<1>12. CASE ServerSend
  BY <1>12 DEF Speaks
<1>13. CASE ServerFinish
  BY <1>13 DEF Speaks
<1>14. ASSUME NEW k \in Calls, Expire(k) PROVE Silent \/ Speaks
  BY <1>14 DEF Expire, hist
<1>15. ASSUME NEW k \in Calls, OpenCall(k) PROVE Silent \/ Speaks
  BY <1>15 DEF OpenCall, hist
<1>16. ASSUME NEW k \in Calls, OpenWrites(k) PROVE Silent \/ Speaks
  BY <1>16 DEF OpenWrites, hist
<1>17. ASSUME NEW k \in Calls, Send(k) PROVE Silent \/ Speaks
  BY <1>17 DEF Send, ClientWrites
<1>18. ASSUME NEW k \in Calls, HalfClose(k) PROVE Silent \/ Speaks
  BY <1>18 DEF HalfClose, ClientWrites
<1>19. ASSUME NEW k \in Calls, SendPauses(k) PROVE Silent \/ Speaks
  BY <1>19 DEF SendPauses, hist
<1>20. ASSUME NEW k \in Calls, SendResumes(k) PROVE Silent \/ Speaks
  BY <1>20 DEF SendResumes, ClientWrites
<1>21. ASSUME NEW k \in Calls, RecvEnds(k) PROVE Silent \/ Speaks
  BY <1>21 DEF Speaks
<1>22. ASSUME NEW x \in Ends, LoopReads(x) PROVE Silent \/ Speaks
  BY <1>22 DEF LoopReads, hist
<1>23. ASSUME NEW x \in Ends, LoopReadsOpen(x) PROVE Silent \/ Speaks
  BY <1>23 DEF LoopReadsOpen, hist
<1>24. ASSUME NEW x \in Ends, LoopLost(x) PROVE Silent \/ Speaks
  BY <1>24, LoopFailsEnd
<1>25. ASSUME NEW x \in Ends, LoopPushes(x) PROVE Silent \/ Speaks
  BY <1>25 DEF LoopPushes, hist
<1>26. ASSUME NEW x \in Ends, LoopCancelled(x) PROVE Silent \/ Speaks
  BY <1>26 DEF LoopCancelled, hist
<1>27. ASSUME NEW x \in Ends, LoopDone(x) PROVE Silent \/ Speaks
  BY <1>27 DEF LoopDone, hist
<1>28. ASSUME NEW x \in Ends, RecvTakes(x) PROVE Silent \/ Speaks
  <2>1. CASE x = Srv
    BY <1>28, <2>1 DEF RecvTakes
  <2>2. CASE x # Srv
    BY <1>28, <2>2 DEF Speaks, Ends
  <2> QED
    BY <2>1, <2>2
<1>29. ASSUME NEW x \in Ends, CloseStarts(x) PROVE Silent \/ Speaks
  BY <1>29 DEF CloseStarts, hist
<1>30. ASSUME NEW x \in Ends, CloseAborts(x) PROVE Silent \/ Speaks
  BY <1>30 DEF CloseAborts, hist
<1>31. ASSUME NEW x \in Ends, CloseDetaches(x) PROVE Silent \/ Speaks
  BY <1>31 DEF CloseDetaches, hist
<1>32. CASE UNCHANGED vars
  BY <1>32 DEF vars
<1> QED
  BY <1>1, <1>2, <1>3, <1>4, <1>5, <1>6, <1>7, <1>8, <1>9, <1>10, <1>11, <1>12, <1>13, <1>14,
      <1>15, <1>16, <1>17, <1>18, <1>19, <1>20, <1>21, <1>22, <1>23, <1>24, <1>25, <1>26, <1>27,
      <1>28, <1>29, <1>30, <1>31, <1>32
  DEF Next, Loop, LoopLost, Close

(* Every step of the connection is a step of the sequential session or none. *)
LEMMA StepImplemented ==
  ASSUME IInv, SentInv', Types', [Next]_vars
  PROVE  Implemented
<1>1. Types /\ SentInv
  BY DEF IInv
<1>2. CASE \E k \in Calls : RecvTakes(k) \/ RecvEnds(k)
  BY <1>2, TakesRefine, EndsRefine DEF Implemented
<1>3. CASE ServerSend
  <2> DEFINE f == Frame("data", cur, end[Srv].msgs + 1)
  <2>1. /\ at[Srv] = "user" /\ UNCHANGED <<at, cur, got>> /\ Says(f)
        /\ cur \in Calls /\ end[Srv].msgs \in Nat
    BY <1>1, <1>3, Ints DEF Says, ServerSend, SentInv, Written, Types, EndTypes, End, EndRecord
  <2>2. f \in Frames /\ Spoken(f)
    BY <1>1, <2>1, FrameType, HandlerSpeaks DEF Tags
  <2>3. \A j \in Calls : end'[j] = end[j]
    BY <1>1, <1>3, ServerSendEnd, Ints DEF OthersKept
  <2> QED
    BY <2>1, <2>2, <2>3, SpeaksRefine
<1>4. CASE ServerFinish
  <2> DEFINE f == Frame("status", cur, 0)
  <2>1. /\ at[Srv] = "user" /\ UNCHANGED <<cur, got>> /\ Says(f) /\ cur \in Calls
        /\ \A j \in Calls : at'[j] = at[j]
    BY <1>1, <1>4, Ints DEF Says, ServerFinish, SentInv, Written, Goto
  <2>2. f \in Frames /\ Spoken(f)
    BY <1>1, <2>1, FrameType, HandlerSpeaks DEF Tags
  <2>3. \A j \in Calls : end'[j] = end[j]
    BY <1>1, <1>4, ServerFinishEnd, Ints DEF OthersKept
  <2> QED
    BY <2>1, <2>2, <2>3, SpeaksRefine
<1>5. CASE Silent /\ CallKept
  <2>1. \A k \in Calls : Holding(k)' <=> Holding(k)
    BY <1>5 DEF CallKept, Holding, Begun
  <2> QED
    BY <1>5, <2>1, HolderKept, ReceivedKept DEF Implemented, Stutters, Silent, CallKept, SessKept
<1>6. CASE \E x \in Ends : CloseStarts(x) \/ CloseAborts(x)
  <2>1. PICK x \in Ends : CloseStarts(x) \/ CloseAborts(x)
    BY <1>6
  <2>2. /\ UNCHANGED <<sess, at, sent, got>> /\ OthersKept(x)
        /\ end[x].closing # "done" /\ end'[x].closing # "done"
    BY <1>1, <2>1, CloseStartsEnd, CloseAbortsEnd
    DEF CloseStarts, CloseAborts, hist, IInv, CtlInv, LoopOk
  <2>3. \A k \in Calls : Holding(k)' <=> Holding(k)
    BY <2>2, Ints DEF Holding, OthersKept
  <2> QED
    BY <2>2, <2>3, HolderKept, ReceivedKept DEF Implemented, Stutters, Usable
<1>7. CASE \E k \in Calls : OpenCall(k) \/ OpenWrites(k) \/ CloseDetaches(k)
  BY <1>7, LendsRefine, OpensRefine, DetachRefines DEF Implemented
<1> QED
  BY <1>1, <1>2, <1>3, <1>4, <1>5, <1>6, <1>7, CallsGoOn, SilentOrSpeaks DEF Turns, Speaks

(* The initial state is one of the sequential session. *)
LEMMA InitImplemented == Init => Sequential!SInit
<1> SUFFICES ASSUME Init PROVE Sequential!SInit
  OBVIOUS
<1>1. Holder = None
  BY Ints DEF Init, Holder, Holders
<1>2. Usable
  BY DEF Init, Usable, NewSession, Sides
<1>3. Received = [k \in Calls |-> <<>>]
  BY DEF Init, Received, Answer
<1>4. sent = [k \in Calls |-> <<>>]
  BY DEF Init
<1>5. Usable = TRUE
  BY <1>2 DEF Usable
<1> QED
  BY <1>1, <1>3, <1>4, <1>5 DEF Holder, Usable, Received, Sequential!SInit

(* The synth connection implements the sequential session: it serves one    *)
(* call at a time, hands each its own answer whole and in order, and goes   *)
(* on to another only behind a call whose STATUS was sent and read.         *)
THEOREM SynthIsSequential == Spec => ImplementsSequential
<1>1. IInv /\ IInv' /\ [Next]_vars => [Sequential!SNext]_Sequential!svars
  <2>1. IInv /\ IInv' /\ [Next]_vars => Implemented
    BY StepImplemented DEF IInv
  <2> QED
    BY <2>1, AbstractStep
<1> QED
  BY <1>1, InitImplemented, SessionInvariant, PTL DEF Spec, ImplementsSequential, Sequential!SSpec

=============================================================================
