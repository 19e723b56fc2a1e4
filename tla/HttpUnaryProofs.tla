--------------------------- MODULE HttpUnaryProofs ---------------------------
(***************************************************************************)
(* Theorems about HttpUnary for any number of calls on a handle: what Recv *)
(* reports is what the server did, the handle's books are right and it is  *)
(* given up only for cause, and no operation outlives the Close that was   *)
(* to end it.                                                              *)
(***************************************************************************)
EXTENDS HttpUnary, FiniteSetTheorems, TLAPS

(* OpenCall has not handed out the call, or never will. *)
Unopened == {"new", "preface", "track", "refused", "refused2", "failed"}
Opened == {"user", "write", "recv", "markBad"}
PCs == {"new", "preface", "track", "refused", "refused2", "failed",
        "user", "write", "recv", "markBad"}

AllVerbs == (UNION {Verbs[k] : k \in Calls}) \cup {None}
Responses == [http : Nat, body : BodyKinds, code : Statuses]

SessType == [closed : BOOLEAN, reusable : BOOLEAN, inFlight : Nat]
HandleType ==
  [closed : BOOLEAN, carriers : SUBSET Calls, sweep : {"no", "aborting", "done"},
   doomed : SUBSET Calls]
CallType ==
  [pc : PCs, verb : AllVerbs, reqBuf : BOOLEAN, halfClosed : BOOLEAN, closed : BOOLEAN,
   terminal : BOOLEAN, closing : {"no", "spoil", "abort", "land", "done"}]
CarType ==
  [ready : {"no", "resp", "err"}, aborted : BOOLEAN, trip : {"none", "running", "done"},
   body : {"none", "open", "whole", "empty", "dead"}]
SrvType ==
  [pc : {"none", "handler", "finish", "gone"}, aborted : BOOLEAN, code : Statuses \cup {None}]

Types ==
  /\ sess \in SessType
  /\ handle \in HandleType
  /\ call \in [Calls -> CallType]
  /\ car \in [Calls -> CarType]
  /\ srv \in [Calls -> SrvType]
  /\ resp \in [Calls -> Responses \cup {None}]
  /\ result \in [Calls -> Results \cup {None}]
  /\ cause \in BOOLEAN

(* The session's Close, then the handle's: the swap, the snapshot, the sweep. *)
CloseOrder ==
  /\ handle.closed => sess.closed
  /\ handle.sweep # "no" => handle.closed /\ handle.carriers = {}
  /\ handle.sweep \in {"no", "done"} => handle.doomed = {}

(* A call: its exchange is fresh until it is handed out, the end is seen    *)
(* once, and a Close of a call whose end was not seen has its reason.       *)
CallOk(k) ==
  /\ call[k].pc \in Unopened => car[k] = NewCar /\ ~call[k].closed
  /\ call[k].pc \in Opened => car[k].trip # "none"
  /\ call[k].pc \in {"refused", "refused2"} => sess.closed
  /\ call[k].closing # "no" <=> call[k].closed
  /\ call[k].closing \in {"land", "done"} => car[k].aborted
  /\ result[k] # None => call[k].pc # "recv"
  /\ call[k].terminal => result[k] # None
  /\ call[k].pc = "markBad" => cause
  /\ call[k].closed => cause \/ call[k].terminal \/ result[k] # None
  /\ call[k].closing = "spoil" => ~call[k].terminal \/ cause
CallShape == \A k \in Calls : CallOk(k)

(* An exchange: whatever has not ended is in the handle's map, or with the  *)
(* sweep that took it from there.                                           *)
CarOk(k) ==
  /\ car[k].ready = "resp" => resp[k] # None
  /\ car[k].trip = "running" => car[k].ready = "no" \/ car[k].aborted
  /\ car[k].trip = "done" => car[k].ready # "no"
  /\ car[k].body = "open" => car[k].trip = "running" /\ ~car[k].aborted
  /\ car[k].aborted => car[k].ready # "no"
  /\ k \in handle.carriers => call[k].pc \in Opened /\ ~car[k].aborted
  /\ k \in handle.doomed => call[k].pc \in Opened
  /\ car[k].trip = "running" /\ ~car[k].aborted => k \in handle.carriers \cup handle.doomed
  /\ call[k].pc \in Opened /\ ~car[k].aborted /\ car[k].ready # "err" /\ result[k] = None =>
       k \in handle.carriers \cup handle.doomed
CarShape == \A k \in Calls : CarOk(k)

(* The response on the wire is the abort's 408, or what Finish wrote of the *)
(* code that was the server's last.                                         *)
RespShape ==
  \A k \in Calls :
    /\ resp[k] # None =>
         /\ srv[k].aborted
         /\ \/ resp[k] = [http |-> 408, body |-> "none", code |-> "Canceled"]
            \/ /\ srv[k].pc = "gone" /\ resp[k].body \in {"message", "json", "cut", "big"}
               /\ resp[k].http = ToHTTP(srv[k].code) /\ resp[k].code = srv[k].code
               /\ resp[k].body = "message" => srv[k].code = "OK"
    /\ srv[k].pc \in {"finish", "gone"} => srv[k].code \in Statuses
    /\ result[k] # None /\ result[k].kind \in {"message", "status"} =>
         resp[k] # None /\ result[k] = RecvResult(resp[k])

(* The calls between OpenCall and the end of Close. *)
InFlight ==
  {k \in Calls :
     \/ call[k].pc \in {"preface", "track", "refused"}
     \/ call[k].pc \in Opened /\ call[k].closing # "done"}

CountExact == sess.inFlight = Cardinality(InFlight)

HttpInv ==
  /\ Types /\ CloseOrder /\ CallShape /\ CarShape /\ RespShape
  /\ CountExact /\ SpoiledForCause

LEMMA HttpInit == Init => HttpInv
<1> SUFFICES ASSUME Init PROVE HttpInv
  OBVIOUS
<1>1. Types
  <2>1. call \in [Calls -> CallType]
    <3>1. None \in AllVerbs
      BY DEF AllVerbs
    <3>2. NewCall \in CallType
      BY <3>1 DEF CallType, NewCall, PCs
    <3> QED
      BY <3>2 DEF Init
  <2>2. car \in [Calls -> CarType] /\ srv \in [Calls -> SrvType]
    BY DEF Init, CarType, NewCar, SrvType, NewSrv
  <2>3. sess \in SessType /\ handle \in HandleType
    BY DEF Init, SessType, HandleType
  <2> QED
    BY <2>1, <2>2, <2>3 DEF Init, Types
<1>2. CloseOrder /\ CallShape /\ CarShape
  BY DEF Init, CloseOrder, CallShape, CallOk, CarShape, CarOk, NewCall, NewCar, Unopened, Opened
<1>3. RespShape /\ SpoiledForCause
  BY DEF Init, RespShape, SpoiledForCause, NewSrv
<1>4. InFlight = {}
  BY DEF Init, InFlight, NewCall, Opened
<1>5. CountExact
  BY <1>4, FS_EmptySet DEF Init, CountExact
<1> QED
  BY <1>1, <1>2, <1>3, <1>5 DEF HttpInv

(* The status table: only OK is 200, and every status is a number. *)
LEMMA StatusTable ==
  /\ \A c : ToHTTP(c) \in Nat /\ (ToHTTP(c) = 200 => c = "OK")
  /\ FromHTTP(408) = "Canceled"
  /\ \A h \in Nat : FromHTTP(h) \in Statuses
<1>1. \A c : ToHTTP(c) \in Nat /\ (ToHTTP(c) = 200 => c = "OK")
  BY DEF ToHTTP
<1>2. FromHTTP(408) = "Canceled"
  BY DEF FromHTTP
<1>3. \A h \in Nat : FromHTTP(h) \in
        {"OK", "InvalidArgument", "Unauthenticated", "PermissionDenied", "NotFound", "Canceled",
         "AlreadyExists", "ResourceExhausted", "Unimplemented", "Unavailable",
         "DeadlineExceeded", "Unknown"}
  BY DEF FromHTTP
<1> QED
  BY <1>1, <1>2, <1>3 DEF Statuses

(* What Recv makes of a response, and of none. *)
LEMMA ResultType ==
  /\ \A r \in Responses : RecvResult(r) \in Results
  /\ [kind |-> "failure", code |-> "Unavailable"] \in Results
<1>1. "Unavailable" \in Statuses /\ "ResourceExhausted" \in Statuses
  BY DEF Statuses
<1>2. ASSUME NEW r \in Responses PROVE RecvResult(r) \in Results
  <2>1. r.http \in Nat /\ r.body \in BodyKinds /\ r.code \in Statuses
    BY DEF Responses
  <2>2. DecodeErrorBody(r) \in Statuses
    BY <2>1, StatusTable DEF DecodeErrorBody
  <2> QED
    BY <1>1, <2>1, <2>2 DEF RecvResult, Results
<1> QED
  BY <1>1, <1>2 DEF Results


(* What Abort makes of a carrier. *)
LEMMA AbortedCar ==
  ASSUME Types, NEW K
  PROVE  /\ Aborted(K) \in [Calls -> CarType]
         /\ \A k \in Calls \ K : Aborted(K)[k] = car[k]
         /\ \A k \in Calls \cap K :
              /\ Aborted(K)[k].aborted /\ Aborted(K)[k].trip = car[k].trip
              /\ car[k].aborted => Aborted(K)[k] = car[k]
              /\ ~car[k].aborted =>
                   /\ Aborted(K)[k].ready = IF car[k].ready = "no" THEN "err" ELSE car[k].ready
                   /\ Aborted(K)[k].body = IF car[k].body = "open" THEN "dead" ELSE car[k].body
<1> DEFINE Cut(k) == [car[k] EXCEPT !.aborted = TRUE,
                                    !.ready = IF @ = "no" THEN "err" ELSE @,
                                    !.body = IF @ = "open" THEN "dead" ELSE @]
<1>1. \A k \in Calls : car[k] \in CarType
  BY DEF Types
<1>2. \A k \in Calls :
        /\ Cut(k) \in CarType /\ Cut(k).aborted /\ Cut(k).trip = car[k].trip
        /\ Cut(k).ready = IF car[k].ready = "no" THEN "err" ELSE car[k].ready
        /\ Cut(k).body = IF car[k].body = "open" THEN "dead" ELSE car[k].body
  BY <1>1 DEF CarType
<1>3. \A k \in Calls : Aborted(K)[k] = IF k \notin K \/ car[k].aborted THEN car[k] ELSE Cut(k)
  BY DEF Aborted
<1>4. Aborted(K) = [k \in Calls |-> Aborted(K)[k]]
  BY DEF Aborted
<1> HIDE DEF Cut
<1> QED
  BY <1>1, <1>2, <1>3, <1>4

(* What OpenStream and Do make of it. *)
LEMMA TripCar ==
  ASSUME Types, NEW k \in Calls, NEW r \in {"resp", "err"}
  PROVE  /\ Started(k) \in CarType /\ Started(k).trip = "running"
         /\ Started(k).aborted = car[k].aborted /\ Started(k).ready = car[k].ready
         /\ Started(k).body = IF call[k].verb = "GET" THEN "none" ELSE "open"
         /\ Finished(k, r) \in CarType /\ Finished(k, r).trip = "done"
         /\ Finished(k, r).aborted = car[k].aborted
         /\ Finished(k, r).ready = IF car[k].ready = "no" THEN r ELSE car[k].ready
         /\ Finished(k, r).body = IF car[k].body = "open" THEN "dead" ELSE car[k].body
<1>1. car[k] \in CarType
  BY DEF Types
<1> QED
  BY <1>1 DEF CarType, Started, Finished

(* The fields of a call may be set to values of their types. *)
LEMMA CallFields ==
  ASSUME Types, NEW k \in Calls
  PROVE  /\ [call EXCEPT ![k] = [call[k] EXCEPT !.reqBuf = TRUE]] \in [Calls -> CallType]
         /\ [call EXCEPT ![k] = [call[k] EXCEPT !.halfClosed = TRUE, !.pc = "write"]]
              \in [Calls -> CallType]
         /\ \A p \in {"abort", "spoil"} :
              [call EXCEPT ![k] = [call[k] EXCEPT !.closed = TRUE, !.closing = p]]
                \in [Calls -> CallType]
         /\ \A p \in PCs : [call EXCEPT ![k] = [call[k] EXCEPT !.pc = p]] \in [Calls -> CallType]
         /\ \A p \in {"abort", "land", "done"} :
              [call EXCEPT ![k] = [call[k] EXCEPT !.closing = p]] \in [Calls -> CallType]
<1>1. call[k] \in CallType /\ call \in [Calls -> CallType]
  BY DEF Types
<1>2. [call[k] EXCEPT !.reqBuf = TRUE] \in CallType
  BY <1>1 DEF CallType
<1>3. [call[k] EXCEPT !.halfClosed = TRUE, !.pc = "write"] \in CallType
  BY <1>1 DEF CallType, PCs
<1>4. ASSUME NEW p \in {"abort", "spoil"}
      PROVE  [call[k] EXCEPT !.closed = TRUE, !.closing = p] \in CallType
  BY <1>1 DEF CallType
<1>5. ASSUME NEW p \in {"abort", "land", "done"} PROVE [call[k] EXCEPT !.closing = p] \in CallType
  BY <1>1 DEF CallType
<1>6. ASSUME NEW p \in PCs PROVE [call[k] EXCEPT !.pc = p] \in CallType
  BY <1>1 DEF CallType
<1> QED
  BY <1>1, <1>2, <1>3, <1>4, <1>5, <1>6, Zenon

LEMMA TypeStep == Types /\ CallShape /\ CarShape /\ RespShape /\ [Next]_vars => Types'
<1> SUFFICES ASSUME Types, CallShape, CarShape, RespShape, [Next]_vars PROVE Types'
  OBVIOUS
<1> USE DEF Types, At, Goto
<1>1. ASSUME NEW k \in Calls, NEW v \in Verbs[k], OpenCall(k, v) PROVE Types'
  <2>1. sess' \in SessType
    BY <1>1 DEF OpenCall, SessType
  <2>2. call' \in [Calls -> CallType]
    <3>1. v \in AllVerbs
      BY DEF AllVerbs
    <3>2. ASSUME NEW r \in CallType PROVE [r EXCEPT !.verb = v] \in CallType
      BY <3>1 DEF CallType
    <3>3. [call[k] EXCEPT !.pc = "preface"] \in CallType
      BY DEF CallType, PCs
    <3>4. [[call[k] EXCEPT !.pc = "preface"] EXCEPT !.verb = v] \in CallType
      BY <3>2, <3>3
    <3>5. [call[k] EXCEPT !.pc = "preface", !.verb = v] \in CallType
      BY <3>4
    <3>6. call' = [call EXCEPT ![k] = [call[k] EXCEPT !.pc = "preface", !.verb = v]]
      BY <1>1 DEF OpenCall, CallType
    <3> QED
      BY <3>5, <3>6
  <2> QED
    BY <1>1, <2>1, <2>2 DEF OpenCall
<1>2. ASSUME NEW k \in Calls, PrefaceFails(k) PROVE Types'
  <2>1. sess' \in SessType
    BY <1>2 DEF PrefaceFails, Landed, SessType
  <2>2. call' \in [Calls -> CallType]
    BY <1>2 DEF PrefaceFails, Landed, CallType, PCs
  <2> QED
    BY <1>2, <2>1, <2>2 DEF PrefaceFails, Landed
<1>3. ASSUME NEW k \in Calls, StreamChecks(k) PROVE Types'
  <2>1. call' \in [Calls -> CallType]
    BY <1>3 DEF StreamChecks, CallType, PCs
  <2> QED
    BY <1>3, <2>1 DEF StreamChecks
<1>4. ASSUME NEW k \in Calls, StreamTracks(k) PROVE Types'
  <2>1. handle' \in HandleType
    BY <1>4 DEF StreamTracks, HandleType
  <2>2. call' \in [Calls -> CallType]
    BY <1>4 DEF StreamTracks, CallType, PCs
  <2>3. car' \in [Calls -> CarType]
    BY <1>4, TripCar DEF StreamTracks
  <2> QED
    BY <1>4, <2>1, <2>2, <2>3 DEF StreamTracks
<1>5. ASSUME NEW k \in Calls, OpenRefused(k) PROVE Types'
  <2>1. sess' \in SessType
    BY <1>5 DEF OpenRefused, Landed, SessType
  <2>2. call' \in [Calls -> CallType]
    <3>1. call' = [call EXCEPT ![k] = [call[k] EXCEPT !.pc = "refused2"]] /\ "refused2" \in PCs
      BY <1>5 DEF OpenRefused, PCs
    <3> QED
      BY <3>1, CallFields, Zenon
  <2> QED
    BY <1>5, <2>1, <2>2 DEF OpenRefused, Landed
<1>6. ASSUME NEW k \in Calls, OpenMarksBad(k) PROVE Types'
  <2>1. sess' \in SessType
    BY <1>6 DEF OpenMarksBad, SessType
  <2>2. call' \in [Calls -> CallType]
    BY <1>6 DEF OpenMarksBad, CallType, PCs
  <2> QED
    BY <1>6, <2>1, <2>2 DEF OpenMarksBad
<1>7. ASSUME NEW k \in Calls, DoReturns(k) PROVE Types'
  <2>1. car' \in [Calls -> CarType]
    BY <1>7, TripCar DEF DoReturns
  <2> QED
    BY <1>7, <2>1 DEF DoReturns
<1>8. ASSUME NEW k \in Calls, DoFails(k) PROVE Types'
  <2>1. handle' \in HandleType
    BY <1>8 DEF DoFails, Untracked, HandleType
  <2>2. car' \in [Calls -> CarType]
    BY <1>8, TripCar DEF DoFails
  <2>3. cause' \in BOOLEAN
    BY <1>8 DEF DoFails, Blame
  <2> QED
    BY <1>8, <2>1, <2>2, <2>3 DEF DoFails, Event
<1>9. ASSUME NEW k \in Calls, Send(k) PROVE Types'
  <2>1. call' \in [Calls -> CallType]
    <3>1. call' = [call EXCEPT ![k] = [call[k] EXCEPT !.reqBuf = TRUE]]
      BY <1>9 DEF Send
    <3> QED
      BY <3>1, CallFields, Zenon
  <2> QED
    BY <1>9, <2>1 DEF Send
<1>10. ASSUME NEW k \in Calls, HalfClose(k) PROVE Types'
  <2>1. call' \in [Calls -> CallType]
    <3>1. call' = [call EXCEPT ![k] = [call[k] EXCEPT !.halfClosed = TRUE, !.pc = "write"]]
      BY <1>10 DEF HalfClose
    <3> QED
      BY <3>1, CallFields, Zenon
  <2> QED
    BY <1>10, <2>1 DEF HalfClose
<1>11. ASSUME NEW k \in Calls, HalfCloseWrites(k) PROVE Types'
  <2>1. call' \in [Calls -> CallType]
    BY <1>11 DEF HalfCloseWrites, CallType, PCs
  <2>2. car' \in [Calls -> CarType]
    BY <1>11 DEF HalfCloseWrites, CarType
  <2> QED
    BY <1>11, <2>1, <2>2 DEF HalfCloseWrites
<1>12. ASSUME NEW k \in Calls, HalfCloseFails(k) PROVE Types'
  <2>1. call' \in [Calls -> CallType]
    BY <1>12 DEF HalfCloseFails, ReceiveOpen, Blame, CallType, PCs
  <2>2. cause' \in BOOLEAN
    BY <1>12 DEF HalfCloseFails, ReceiveOpen, Blame, Types
  <2> QED
    BY <1>12, <2>1, <2>2 DEF HalfCloseFails, ReceiveOpen, Blame
<1>13. ASSUME NEW k \in Calls, MarkBad(k) PROVE Types'
  <2>1. sess' \in SessType
    BY <1>13 DEF MarkBad, SessType
  <2>2. call' \in [Calls -> CallType]
    BY <1>13 DEF MarkBad, CallType, PCs
  <2> QED
    BY <1>13, <2>1, <2>2 DEF MarkBad
<1>14. ASSUME NEW k \in Calls, Recv(k) PROVE Types'
  <2>1. call' \in [Calls -> CallType]
    BY <1>14 DEF Recv, CallType, PCs
  <2> QED
    BY <1>14, <2>1 DEF Recv
<1>15. ASSUME NEW k \in Calls, RecvReturns(k) PROVE Types'
  <2>1. handle' \in HandleType
    BY <1>15 DEF RecvReturns, Untracked, HandleType
  <2>2. call' \in [Calls -> CallType]
    <3>1. PICK b \in BOOLEAN : call' = [call EXCEPT ![k] = [call[k] EXCEPT !.pc = "user", !.terminal = b]]
      BY <1>15 DEF RecvReturns
    <3>2. ASSUME NEW r \in CallType PROVE [r EXCEPT !.terminal = b] \in CallType
      BY DEF CallType
    <3>3. [call[k] EXCEPT !.pc = "user"] \in CallType
      BY DEF CallType, PCs
    <3>4. [[call[k] EXCEPT !.pc = "user"] EXCEPT !.terminal = b] \in CallType
      BY <3>2, <3>3
    <3>5. call' = [call EXCEPT ![k] = [[call[k] EXCEPT !.pc = "user"] EXCEPT !.terminal = b]]
      BY <3>1 DEF CallType
    <3> QED
      BY <3>4, <3>5
  <2>3. result' \in [Calls -> Results \cup {None}]
    <3>1. resp[k] \in Responses
      BY <1>15 DEF RecvReturns, CarShape, CarOk
    <3>2. result' = [result EXCEPT ![k] = RecvResult(resp[k])]
      BY <1>15 DEF RecvReturns
    <3> QED
      BY <3>1, <3>2, ResultType
  <2> QED
    BY <1>15, <2>1, <2>2, <2>3 DEF RecvReturns, Untracked
<1>16. ASSUME NEW k \in Calls, RecvFails(k) PROVE Types'
  <2>1. handle' \in HandleType
    BY <1>16 DEF RecvFails, Untracked, Event, Blame, HandleType
  <2>2. call' \in [Calls -> CallType]
    BY <1>16 DEF RecvFails, Untracked, Event, Blame, CallType, PCs
  <2>3. result' \in [Calls -> Results \cup {None}]
    <3>1. result' = [result EXCEPT ![k] = [kind |-> "failure", code |-> "Unavailable"]]
      BY <1>16 DEF RecvFails
    <3> QED
      BY <3>1, ResultType
  <2>4. cause' \in BOOLEAN
    BY <1>16 DEF RecvFails, Untracked, Event, Blame, Types
  <2> QED
    BY <1>16, <2>1, <2>2, <2>3, <2>4 DEF RecvFails, Untracked, Event, Blame
<1>17. ASSUME NEW k \in Calls, CloseCall(k) PROVE Types'
  <2>1. call' \in [Calls -> CallType]
    <3>1. PICK p \in {"abort", "spoil"} :
             call' = [call EXCEPT ![k] = [call[k] EXCEPT !.closed = TRUE, !.closing = p]]
      BY <1>17 DEF CloseCall
    <3> QED
      BY <3>1, CallFields, Zenon
  <2>2. cause' \in BOOLEAN
    BY <1>17 DEF CloseCall, Blame, Types
  <2> QED
    BY <1>17, <2>1, <2>2 DEF CloseCall, Blame
<1>18. ASSUME NEW k \in Calls, CloseSpoils(k) PROVE Types'
  <2>1. sess' \in SessType
    BY <1>18 DEF CloseSpoils, SessType
  <2>2. call' \in [Calls -> CallType]
    <3>1. call' = [call EXCEPT ![k] = [call[k] EXCEPT !.closing = "abort"]]
      BY <1>18 DEF CloseSpoils
    <3> QED
      BY <3>1, CallFields, Zenon
  <2> QED
    BY <1>18, <2>1, <2>2 DEF CloseSpoils
<1>19. ASSUME NEW k \in Calls, CloseAborts(k) PROVE Types'
  <2>1. handle' \in HandleType
    BY <1>19 DEF CloseAborts, Aborted, Untracked, HandleType
  <2>2. call' \in [Calls -> CallType]
    <3>1. call' = [call EXCEPT ![k] = [call[k] EXCEPT !.closing = "land"]]
      BY <1>19 DEF CloseAborts
    <3> QED
      BY <3>1, CallFields, Zenon
  <2>3. car' \in [Calls -> CarType]
    BY <1>19, AbortedCar DEF CloseAborts
  <2> QED
    BY <1>19, <2>1, <2>2, <2>3 DEF CloseAborts, Aborted, Untracked
<1>20. ASSUME NEW k \in Calls, CloseLands(k) PROVE Types'
  <2>1. sess' \in SessType
    BY <1>20 DEF CloseLands, Landed, SessType
  <2>2. call' \in [Calls -> CallType]
    <3>1. call' = [call EXCEPT ![k] = [call[k] EXCEPT !.closing = "done"]]
      BY <1>20 DEF CloseLands
    <3> QED
      BY <3>1, CallFields, Zenon
  <2> QED
    BY <1>20, <2>1, <2>2 DEF CloseLands, Landed
<1>21. ASSUME NEW k \in Calls, AcceptCall(k) PROVE Types'
  <2>1. srv' \in [Calls -> SrvType]
    <3>1. CASE srv' = [srv EXCEPT ![k].pc = "handler"]
      BY <3>1 DEF SrvType
    <3>2. ASSUME NEW c \in Codes[k],
                 srv' = [srv EXCEPT ![k] = [srv[k] EXCEPT !.pc = "finish", !.code = c]]
          PROVE  srv' \in [Calls -> SrvType]
      <4>1. c \in Statuses
        BY DEF Statuses
      <4>2. [srv[k] EXCEPT !.pc = "finish", !.code = c] \in SrvType
        BY <4>1 DEF SrvType
      <4> QED
        BY <3>2, <4>2
    <3> QED
      BY <1>21, <3>1, <3>2 DEF AcceptCall
  <2> QED
    BY <1>21, <2>1 DEF AcceptCall
<1>22. ASSUME NEW k \in Calls, HandlerReturns(k) PROVE Types'
  <2>1. srv' \in [Calls -> SrvType]
    <3>1. PICK c \in Codes[k] : srv' = [srv EXCEPT ![k] = [srv[k] EXCEPT !.pc = "finish", !.code = c]]
      BY <1>22 DEF HandlerReturns
    <3>2. c \in Statuses
      BY DEF Statuses
    <3>3. [srv[k] EXCEPT !.pc = "finish", !.code = c] \in SrvType
      BY <3>2 DEF SrvType
    <3>4. srv' = [srv EXCEPT ![k] = [srv[k] EXCEPT !.pc = "finish", !.code = c]]
      BY <3>1 DEF SrvType
    <3> QED
      BY <3>3, <3>4
  <2> QED
    BY <1>22, <2>1 DEF HandlerReturns, RequestRead
<1>23. ASSUME NEW k \in Calls, Finish(k) PROVE Types'
  <2>1. srv' \in [Calls -> SrvType]
    <3>1. srv' = [srv EXCEPT ![k] = [srv[k] EXCEPT !.pc = "gone", !.aborted = TRUE]]
      BY <1>23 DEF Finish
    <3> QED
      BY <3>1 DEF SrvType
  <2>2. resp' \in [Calls -> Responses \cup {None}]
    <3>1. ASSUME NEW b \in Bodies(k),
                 resp' = [resp EXCEPT ![k] = [http |-> ToHTTP(srv[k].code), body |-> b,
                                              code |-> srv[k].code]]
          PROVE  resp' \in [Calls -> Responses \cup {None}]
      <4>1. b \in BodyKinds
        BY DEF Bodies, BodyKinds
      <4>2. srv[k].code \in Statuses /\ ToHTTP(srv[k].code) \in Nat
        BY <1>23, StatusTable DEF Finish, RespShape
      <4> QED
        BY <3>1, <4>1, <4>2 DEF Responses
    <3> QED
      BY <1>23, <3>1 DEF Finish
  <2> QED
    BY <1>23, <2>1, <2>2 DEF Finish
<1>24. ASSUME NEW k \in Calls, ServerAborts(k) PROVE Types'
  <2>1. srv' \in [Calls -> SrvType]
    BY <1>24 DEF ServerAborts, Event, SrvType
  <2>2. resp' \in [Calls -> Responses \cup {None}]
    <3>1. [http |-> 408, body |-> "none", code |-> "Canceled"] \in Responses
      BY DEF Responses, Statuses, BodyKinds
    <3> QED
      BY <1>24, <3>1 DEF ServerAborts
  <2> QED
    BY <1>24, <2>1, <2>2 DEF ServerAborts, Event
<1>25. CASE SessionClose
  <2>1. sess' \in SessType
    BY <1>25 DEF SessionClose, Event, SessType
  <2> QED
    BY <1>25, <2>1 DEF SessionClose, Event
<1>26. CASE HandleCloses
  <2>1. handle' \in HandleType
    BY <1>26 DEF HandleCloses, HandleType
  <2> QED
    BY <1>26, <2>1 DEF HandleCloses
<1>27. CASE HandleSnapshots
  <2>1. handle' \in HandleType
    BY <1>27 DEF HandleSnapshots, HandleType
  <2> QED
    BY <1>27, <2>1 DEF HandleSnapshots
<1>28. CASE HandleAborts
  <2>1. handle' \in HandleType
    <3>1. PICK S \in SUBSET Calls, w \in {"done", "aborting"} :
             handle' = [handle EXCEPT !.sweep = w, !.doomed = S]
      <4>1. CASE handle.doomed = {}
        BY <1>28, <4>1 DEF HandleAborts, HandleType
      <4>2. ASSUME NEW k \in handle.doomed,
                   handle' = [handle EXCEPT !.doomed = handle.doomed \ {k}]
            PROVE  handle' = [handle EXCEPT !.sweep = "aborting",
                                            !.doomed = handle.doomed \ {k}]
        BY <1>28, <4>2 DEF HandleAborts, HandleType
      <4>3. handle.doomed \subseteq Calls
        BY DEF HandleType
      <4> QED
        BY <1>28, <4>1, <4>2, <4>3 DEF HandleAborts
    <3> QED
      BY <3>1 DEF HandleType
  <2>2. car' \in [Calls -> CarType]
    <3>1. ASSUME NEW x \in handle.doomed, car' = Aborted({x}) PROVE car' \in [Calls -> CarType]
      BY <3>1, AbortedCar
    <3> QED
      BY <1>28, <3>1 DEF HandleAborts
  <2>3. cause' \in BOOLEAN
    BY <1>28 DEF HandleAborts, Aborted, Blame, Types
  <2> QED
    BY <1>28, <2>1, <2>2, <2>3 DEF HandleAborts, Aborted, Blame
<1>29. CASE UNCHANGED vars
  BY <1>29 DEF vars
<1> QED
  BY <1>1, <1>2, <1>3, <1>4, <1>5, <1>6, <1>7, <1>8, <1>9, <1>10, <1>11, <1>12, <1>13,
      <1>14, <1>15, <1>16, <1>17, <1>18, <1>19, <1>20, <1>21, <1>22, <1>23, <1>24, <1>25,
      <1>26, <1>27, <1>28, <1>29 DEF Next, Opening, Trip, Using, Closing, Sweep

LEMMA OrderStep == Types /\ CloseOrder /\ CallShape /\ [Next]_vars => CloseOrder'
<1> SUFFICES ASSUME Types, CloseOrder, CallShape, [Next]_vars PROVE CloseOrder'
  OBVIOUS
<1> USE DEF SessType, HandleType, CallType, CarType, SrvType, Types, CloseOrder, At, Goto
<1>1. ASSUME NEW k \in Calls, NEW v \in Verbs[k], OpenCall(k, v) PROVE CloseOrder'
  BY <1>1 DEF OpenCall
<1>2. ASSUME NEW k \in Calls, PrefaceFails(k) PROVE CloseOrder'
  BY <1>2 DEF PrefaceFails, Landed
<1>3. ASSUME NEW k \in Calls, StreamChecks(k) PROVE CloseOrder'
  BY <1>3 DEF StreamChecks
<1>4. ASSUME NEW k \in Calls, StreamTracks(k) PROVE CloseOrder'
  BY <1>4 DEF StreamTracks
<1>5. ASSUME NEW k \in Calls, OpenRefused(k) PROVE CloseOrder'
  BY <1>5 DEF OpenRefused, Landed
<1>6. ASSUME NEW k \in Calls, OpenMarksBad(k) PROVE CloseOrder'
  BY <1>6 DEF OpenMarksBad
<1>7. ASSUME NEW k \in Calls, DoReturns(k) PROVE CloseOrder'
  BY <1>7 DEF DoReturns
<1>8. ASSUME NEW k \in Calls, DoFails(k) PROVE CloseOrder'
  BY <1>8 DEF DoFails, Untracked
<1>9. ASSUME NEW k \in Calls, Send(k) PROVE CloseOrder'
  BY <1>9 DEF Send
<1>10. ASSUME NEW k \in Calls, HalfClose(k) PROVE CloseOrder'
  BY <1>10 DEF HalfClose
<1>11. ASSUME NEW k \in Calls, HalfCloseWrites(k) PROVE CloseOrder'
  BY <1>11 DEF HalfCloseWrites
<1>12. ASSUME NEW k \in Calls, HalfCloseFails(k) PROVE CloseOrder'
  BY <1>12 DEF HalfCloseFails, ReceiveOpen, Blame
<1>13. ASSUME NEW k \in Calls, MarkBad(k) PROVE CloseOrder'
  BY <1>13 DEF MarkBad
<1>14. ASSUME NEW k \in Calls, Recv(k) PROVE CloseOrder'
  BY <1>14 DEF Recv
<1>15. ASSUME NEW k \in Calls, RecvReturns(k) PROVE CloseOrder'
  BY <1>15 DEF RecvReturns, Untracked
<1>16. ASSUME NEW k \in Calls, RecvFails(k) PROVE CloseOrder'
  BY <1>16 DEF RecvFails, Untracked, Event, Blame
<1>17. ASSUME NEW k \in Calls, CloseCall(k) PROVE CloseOrder'
  BY <1>17 DEF CloseCall, Blame
<1>18. ASSUME NEW k \in Calls, CloseSpoils(k) PROVE CloseOrder'
  BY <1>18 DEF CloseSpoils
<1>19. ASSUME NEW k \in Calls, CloseAborts(k) PROVE CloseOrder'
  BY <1>19 DEF CloseAborts, Aborted, Untracked
<1>20. ASSUME NEW k \in Calls, CloseLands(k) PROVE CloseOrder'
  BY <1>20 DEF CloseLands, Landed
<1>21. ASSUME NEW k \in Calls, AcceptCall(k) PROVE CloseOrder'
  BY <1>21 DEF AcceptCall
<1>22. ASSUME NEW k \in Calls, HandlerReturns(k) PROVE CloseOrder'
  BY <1>22 DEF HandlerReturns, RequestRead
<1>23. ASSUME NEW k \in Calls, Finish(k) PROVE CloseOrder'
  BY <1>23 DEF Finish
<1>24. ASSUME NEW k \in Calls, ServerAborts(k) PROVE CloseOrder'
  BY <1>24 DEF ServerAborts, Event
<1>25. CASE SessionClose
  BY <1>25 DEF SessionClose, Event
<1>26. CASE HandleCloses
  BY <1>26 DEF HandleCloses
<1>27. CASE HandleSnapshots
  BY <1>27 DEF HandleSnapshots
<1>28. CASE HandleAborts
  <2>1. CASE handle.doomed = {}
    BY <1>28, <2>1 DEF HandleAborts
  <2>2. ASSUME NEW x \in handle.doomed, handle' = [handle EXCEPT !.doomed = handle.doomed \ {x}],
               sess' = sess
        PROVE  CloseOrder'
    BY <1>28, <2>2 DEF HandleAborts
  <2> QED
    BY <1>28, <2>1, <2>2 DEF HandleAborts
<1>29. CASE UNCHANGED vars
  BY <1>29 DEF vars
<1> QED
  BY <1>1, <1>2, <1>3, <1>4, <1>5, <1>6, <1>7, <1>8, <1>9, <1>10, <1>11, <1>12, <1>13,
      <1>14, <1>15, <1>16, <1>17, <1>18, <1>19, <1>20, <1>21, <1>22, <1>23, <1>24, <1>25,
      <1>26, <1>27, <1>28, <1>29 DEF Next, Opening, Trip, Using, Closing, Sweep

LEMMA CallStep == Types /\ CloseOrder /\ CallShape /\ CarShape /\ [Next]_vars => CallShape'
<1> SUFFICES ASSUME Types, CloseOrder, CallShape, CarShape, [Next]_vars PROVE CallShape'
  OBVIOUS
<1> USE DEF SessType, HandleType, CallType, CarType, SrvType, Types, CallShape, CallOk,
    Unopened, Opened, At, Goto
<1>1. ASSUME NEW k \in Calls, NEW v \in Verbs[k], OpenCall(k, v) PROVE CallShape'
  BY <1>1, NoResultAssumption DEF OpenCall
<1>2. ASSUME NEW k \in Calls, PrefaceFails(k) PROVE CallShape'
  BY <1>2, NoResultAssumption DEF PrefaceFails, Landed
<1>3. ASSUME NEW k \in Calls, StreamChecks(k) PROVE CallShape'
  <2>1. PICK p \in {"refused", "track"} :
          call' = [call EXCEPT ![k].pc = p] /\ (p = "refused" => handle.closed)
    BY <1>3 DEF StreamChecks
  <2>2. /\ \A x \in Calls \ {k} : call'[x] = call[x]
        /\ call'[k] = [call[k] EXCEPT !.pc = p]
        /\ UNCHANGED <<sess, car, result, cause>>
    BY <1>3, <2>1 DEF StreamChecks
  <2>3. p = "refused" => sess.closed
    BY <2>1 DEF CloseOrder
  <2>4. call[k].pc = "preface"
    BY <1>3 DEF StreamChecks
  <2> QED
    BY <2>2, <2>3, <2>4
<1>4. ASSUME NEW k \in Calls, StreamTracks(k) PROVE CallShape'
  <2>1. call[k].pc = "track" /\ UNCHANGED <<sess, result, cause>>
    BY <1>4 DEF StreamTracks
  <2>2. CASE handle.closed
    <3>1. sess.closed /\ car' = car /\ call' = [call EXCEPT ![k].pc = "refused"]
      BY <1>4, <2>2 DEF StreamTracks, CloseOrder
    <3> QED
      BY <2>1, <3>1
  <2>3. CASE ~handle.closed
    <3>1. /\ \A x \in Calls \ {k} : car'[x] = car[x] /\ call'[x] = call[x]
          /\ car'[k].trip = "running" /\ car'[k].aborted = car[k].aborted
          /\ call' = [call EXCEPT ![k].pc = "user"]
      BY <1>4, <2>3, TripCar DEF StreamTracks
    <3>2. /\ call'[k].pc = "user"
          /\ \A f \in {"closing", "closed", "terminal"} : call'[k][f] = call[k][f]
      BY <3>1
    <3>3. ~call[k].closed /\ call[k].closing = "no"
      BY <2>1
    <3> QED
      BY <2>1, <3>1, <3>2, <3>3
  <2> QED
    BY <2>2, <2>3
<1>5. ASSUME NEW k \in Calls, OpenRefused(k) PROVE CallShape'
  BY <1>5, NoResultAssumption DEF OpenRefused, Landed
<1>6. ASSUME NEW k \in Calls, OpenMarksBad(k) PROVE CallShape'
  BY <1>6, NoResultAssumption DEF OpenMarksBad
<1>7. ASSUME NEW k \in Calls, DoReturns(k) PROVE CallShape'
  <2>1. /\ \A x \in Calls : car'[x].aborted = car[x].aborted
        /\ \A x \in Calls \ {k} : car'[x] = car[x]
        /\ car'[k].trip = "done" /\ car[k].trip = "running"
        /\ UNCHANGED <<sess, call, result, cause>>
    BY <1>7, TripCar DEF DoReturns
  <2>2. call[k].pc \notin Unopened
    BY <2>1 DEF NewCar
  <2> QED
    BY <2>1, <2>2
<1>8. ASSUME NEW k \in Calls, DoFails(k) PROVE CallShape'
  <2>1. /\ \A x \in Calls : car'[x].aborted = car[x].aborted
        /\ \A x \in Calls \ {k} : car'[x] = car[x]
        /\ car'[k].trip = "done" /\ car[k].trip = "running"
        /\ UNCHANGED <<sess, call, result>> /\ cause'
    BY <1>8, TripCar DEF DoFails, Blame
  <2>2. call[k].pc \notin Unopened
    BY <2>1 DEF NewCar
  <2>3. CallOk(k)'
    BY <2>1, <2>2
  <2>4. ASSUME NEW x \in Calls \ {k} PROVE CallOk(x)'
    BY <2>1
  <2> QED
    BY <2>3, <2>4
<1>9. ASSUME NEW k \in Calls, Send(k) PROVE CallShape'
  BY <1>9, NoResultAssumption DEF Send
<1>10. ASSUME NEW k \in Calls, HalfClose(k) PROVE CallShape'
  BY <1>10, NoResultAssumption DEF HalfClose
<1>11. ASSUME NEW k \in Calls, HalfCloseWrites(k) PROVE CallShape'
  BY <1>11, NoResultAssumption DEF HalfCloseWrites
<1>12. ASSUME NEW k \in Calls, HalfCloseFails(k) PROVE CallShape'
  BY <1>12, NoResultAssumption DEF HalfCloseFails, ReceiveOpen, Blame
<1>13. ASSUME NEW k \in Calls, MarkBad(k) PROVE CallShape'
  BY <1>13, NoResultAssumption DEF MarkBad
<1>14. ASSUME NEW k \in Calls, Recv(k) PROVE CallShape'
  BY <1>14, NoResultAssumption DEF Recv
<1>15. ASSUME NEW k \in Calls, RecvReturns(k) PROVE CallShape'
  <2> DEFINE r == RecvResult(resp[k])
  <2>1. /\ call' = [call EXCEPT ![k] = [call[k] EXCEPT !.pc = "user", !.terminal = r.kind # "limit"]]
        /\ result' = [result EXCEPT ![k] = r] /\ call[k].pc = "recv"
        /\ UNCHANGED <<sess, car, cause>> /\ resp[k] \in Responses
    BY <1>15 DEF RecvReturns, CarShape, CarOk
  <2>2. /\ call'[k].pc = "user" /\ call'[k].closing = call[k].closing
        /\ call'[k].closed = call[k].closed
        /\ \A x \in Calls \ {k} : call'[x] = call[x] /\ result'[x] = result[x]
    BY <2>1
  <2>3. result'[k] # None
    <3>1. r \in Results
      BY <2>1, ResultType
    <3> QED
      BY <2>1, <3>1, NoResultAssumption
  <2>4. CallOk(k)'
    BY <2>1, <2>2, <2>3
  <2>5. ASSUME NEW x \in Calls \ {k} PROVE CallOk(x)'
    BY <2>1, <2>2
  <2> QED
    BY <2>4, <2>5
<1>16. ASSUME NEW k \in Calls, RecvFails(k) PROVE CallShape'
  BY <1>16, NoResultAssumption DEF RecvFails, Untracked, Event, Blame
<1>17. ASSUME NEW k \in Calls, CloseCall(k) PROVE CallShape'
  BY <1>17, NoResultAssumption DEF CloseCall, Blame
<1>18. ASSUME NEW k \in Calls, CloseSpoils(k) PROVE CallShape'
  BY <1>18, NoResultAssumption DEF CloseSpoils
<1>19. ASSUME NEW k \in Calls, CloseAborts(k) PROVE CallShape'
  <2>1. /\ call' = [call EXCEPT ![k].closing = "land"] /\ call[k].closing = "abort"
        /\ car' = Aborted({k}) /\ UNCHANGED <<sess, result, cause>>
    BY <1>19 DEF CloseAborts
  <2>2. /\ \A x \in Calls \ {k} : car'[x] = car[x]
        /\ car'[k].aborted /\ car'[k].trip = car[k].trip
    BY <2>1, AbortedCar
  <2>3. call[k].closed /\ call[k].pc \notin Unopened
    BY <2>1
  <2>4. /\ \A x \in Calls \ {k} : call'[x] = call[x]
        /\ call'[k].closing = "land" /\ call'[k].pc = call[k].pc
        /\ call'[k].closed = call[k].closed /\ call'[k].terminal = call[k].terminal
    BY <2>1
  <2>5. CallOk(k)'
    BY <2>1, <2>2, <2>3, <2>4
  <2>6. ASSUME NEW x \in Calls, x # k PROVE CallOk(x)'
    <3>1. UNCHANGED <<sess.closed, call[x], car[x], result[x], cause>>
      BY <2>1, <2>2, <2>4, <2>6
    <3>2. CallOk(x)
      OBVIOUS
    <3> QED
      BY ONLY <3>1, <3>2 DEF CallOk
  <2> QED
    BY <2>5, <2>6
<1>20. ASSUME NEW k \in Calls, CloseLands(k) PROVE CallShape'
  BY <1>20, NoResultAssumption DEF CloseLands, Landed
<1>21. ASSUME NEW k \in Calls, AcceptCall(k) PROVE CallShape'
  BY <1>21, NoResultAssumption DEF AcceptCall
<1>22. ASSUME NEW k \in Calls, HandlerReturns(k) PROVE CallShape'
  BY <1>22, NoResultAssumption DEF HandlerReturns, RequestRead
<1>23. ASSUME NEW k \in Calls, Finish(k) PROVE CallShape'
  BY <1>23, NoResultAssumption DEF Finish
<1>24. ASSUME NEW k \in Calls, ServerAborts(k) PROVE CallShape'
  BY <1>24, NoResultAssumption DEF ServerAborts, Event
<1>25. CASE SessionClose
  BY <1>25, NoResultAssumption DEF SessionClose, Event
<1>26. CASE HandleCloses
  BY <1>26, NoResultAssumption DEF HandleCloses
<1>27. CASE HandleSnapshots
  BY <1>27, NoResultAssumption DEF HandleSnapshots
<1>28. CASE HandleAborts
  <2>1. CASE car' = car /\ cause' = cause
    BY <1>28, <2>1 DEF HandleAborts
  <2>2. ASSUME NEW x \in handle.doomed, car' = Aborted({x}), cause' PROVE CallShape'
    <3>1. x \in Calls /\ call[x].pc \in {"user", "write", "recv", "markBad"}
      BY DEF CarShape, CarOk
    <3>2. /\ \A y \in Calls \ {x} : car'[y] = car[y]
          /\ car'[x].aborted /\ car'[x].trip = car[x].trip
      BY <2>2, <3>1, AbortedCar
    <3>3. UNCHANGED <<sess, call, result>>
      BY <1>28 DEF HandleAborts
    <3>4. CallOk(x)'
      BY <2>2, <3>1, <3>2, <3>3
    <3>5. ASSUME NEW y \in Calls, y # x PROVE CallOk(y)'
      <4>1. UNCHANGED <<sess.closed, call[y], car[y], result[y]>> /\ cause'
        BY <2>2, <3>2, <3>3, <3>5
      <4>2. CallOk(y)
        OBVIOUS
      <4> QED
        BY ONLY <4>1, <4>2 DEF CallOk
    <3> QED
      BY <3>4, <3>5
  <2> QED
    BY <1>28, <2>1, <2>2 DEF HandleAborts, Blame
<1>29. CASE UNCHANGED vars
  BY <1>29, NoResultAssumption DEF vars
<1> QED
  BY <1>1, <1>2, <1>3, <1>4, <1>5, <1>6, <1>7, <1>8, <1>9, <1>10, <1>11, <1>12, <1>13,
      <1>14, <1>15, <1>16, <1>17, <1>18, <1>19, <1>20, <1>21, <1>22, <1>23, <1>24, <1>25,
      <1>26, <1>27, <1>28, <1>29 DEF Next, Opening, Trip, Using, Closing, Sweep

LEMMA CarStep == Types /\ CloseOrder /\ CallShape /\ CarShape /\ RespShape /\ [Next]_vars => CarShape'
<1> SUFFICES ASSUME Types, CloseOrder, CallShape, CarShape, RespShape, [Next]_vars PROVE CarShape'
  OBVIOUS
<1> USE DEF SessType, HandleType, CallType, CarType, SrvType, Types, CarShape, CarOk,
    Unopened, Opened, At, Goto
<1>1. ASSUME NEW k \in Calls, NEW v \in Verbs[k], OpenCall(k, v) PROVE CarShape'
  BY <1>1, NoResultAssumption DEF OpenCall
<1>2. ASSUME NEW k \in Calls, PrefaceFails(k) PROVE CarShape'
  BY <1>2, NoResultAssumption DEF PrefaceFails, Landed
<1>3. ASSUME NEW k \in Calls, StreamChecks(k) PROVE CarShape'
  BY <1>3, NoResultAssumption DEF StreamChecks
<1>4. ASSUME NEW k \in Calls, StreamTracks(k) PROVE CarShape'
  <2>1. call[k].pc = "track" /\ UNCHANGED <<result, resp>> /\ car[k] = NewCar
    BY <1>4 DEF StreamTracks, CallShape, CallOk
  <2>2. CASE handle.closed
    <3>1. UNCHANGED <<car, handle>> /\ call' = [call EXCEPT ![k].pc = "refused"]
      BY <1>4, <2>2 DEF StreamTracks
    <3>2. \A x \in Calls \ {k} : call'[x] = call[x]
      BY <3>1
    <3>3. call'[k].pc = "refused"
      BY <3>1
    <3> QED
      BY <2>1, <3>1, <3>2, <3>3
  <2>3. CASE ~handle.closed
    <3>1. /\ car' = [car EXCEPT ![k] = Started(k)]
          /\ handle' = [handle EXCEPT !.carriers = handle.carriers \cup {k}]
          /\ call' = [call EXCEPT ![k].pc = "user"]
      BY <1>4, <2>3 DEF StreamTracks
    <3>2. \A x \in Calls \ {k} : call'[x] = call[x] /\ car'[x] = car[x]
      BY <3>1
    <3>3. /\ call'[k].pc = "user" /\ car'[k].trip = "running"
          /\ car'[k].body \in {"none", "open"}
          /\ car'[k].ready = "no" /\ ~car'[k].aborted
      BY <2>1, <3>1, TripCar DEF NewCar
    <3>4. handle'.carriers = handle.carriers \cup {k} /\ handle'.doomed = handle.doomed
      BY <3>1
    <3> QED
      BY <2>1, <3>2, <3>3, <3>4
  <2> QED
    BY <2>2, <2>3
<1>5. ASSUME NEW k \in Calls, OpenRefused(k) PROVE CarShape'
  BY <1>5, NoResultAssumption DEF OpenRefused, Landed
<1>6. ASSUME NEW k \in Calls, OpenMarksBad(k) PROVE CarShape'
  BY <1>6, NoResultAssumption DEF OpenMarksBad
<1>7. ASSUME NEW k \in Calls, DoReturns(k) PROVE CarShape'
  BY <1>7, TripCar, NoResultAssumption DEF DoReturns
<1>8. ASSUME NEW k \in Calls, DoFails(k) PROVE CarShape'
  BY <1>8, TripCar, NoResultAssumption DEF DoFails, Untracked, Blame
<1>9. ASSUME NEW k \in Calls, Send(k) PROVE CarShape'
  BY <1>9, NoResultAssumption DEF Send
<1>10. ASSUME NEW k \in Calls, HalfClose(k) PROVE CarShape'
  BY <1>10, NoResultAssumption DEF HalfClose
<1>11. ASSUME NEW k \in Calls, HalfCloseWrites(k) PROVE CarShape'
  BY <1>11, NoResultAssumption DEF HalfCloseWrites
<1>12. ASSUME NEW k \in Calls, HalfCloseFails(k) PROVE CarShape'
  BY <1>12, NoResultAssumption DEF HalfCloseFails, ReceiveOpen, Blame
<1>13. ASSUME NEW k \in Calls, MarkBad(k) PROVE CarShape'
  BY <1>13, NoResultAssumption DEF MarkBad
<1>14. ASSUME NEW k \in Calls, Recv(k) PROVE CarShape'
  BY <1>14, NoResultAssumption DEF Recv
<1>15. ASSUME NEW k \in Calls, RecvReturns(k) PROVE CarShape'
  <2>1. /\ \A x \in Calls \ {k} : call'[x].pc = call[x].pc /\ result'[x] = result[x]
        /\ call'[k].pc = "user" /\ call[k].pc = "recv" /\ UNCHANGED <<car, resp>>
        /\ car[k].ready = "resp" /\ ~car[k].aborted
        /\ handle'.doomed = handle.doomed
        /\ handle'.carriers = handle.carriers \/ handle'.carriers = handle.carriers \ {k}
    BY <1>15 DEF RecvReturns, Untracked
  <2>2. result'[k] # None
    <3>1. resp[k] \in Responses /\ result'[k] = RecvResult(resp[k])
      BY <1>15 DEF RecvReturns
    <3> QED
      BY <3>1, ResultType, NoResultAssumption
  <2> QED
    BY <2>1, <2>2
<1>16. ASSUME NEW k \in Calls, RecvFails(k) PROVE CarShape'
  <2>1. /\ \A x \in Calls \ {k} : call'[x].pc = call[x].pc /\ result'[x] = result[x]
        /\ call'[k].pc = "markBad" /\ call[k].pc = "recv" /\ UNCHANGED <<car, resp>>
        /\ handle'.doomed = handle.doomed
        /\ \/ handle'.carriers = handle.carriers
           \/ car[k].ready = "resp" /\ handle'.carriers = handle.carriers \ {k}
    BY <1>16 DEF RecvFails, Untracked
  <2>2. result'[k] # None
    <3>1. result'[k] = [kind |-> "failure", code |-> "Unavailable"]
      BY <1>16 DEF RecvFails
    <3> QED
      BY <3>1, ResultType, NoResultAssumption
  <2>3. car[k].ready = "resp" => car[k].trip # "running" \/ car[k].aborted
    OBVIOUS
  <2> QED
    BY <2>1, <2>2, <2>3
<1>17. ASSUME NEW k \in Calls, CloseCall(k) PROVE CarShape'
  BY <1>17, NoResultAssumption DEF CloseCall, Blame
<1>18. ASSUME NEW k \in Calls, CloseSpoils(k) PROVE CarShape'
  BY <1>18, NoResultAssumption DEF CloseSpoils
<1>19. ASSUME NEW k \in Calls, CloseAborts(k) PROVE CarShape'
  <2>1. /\ \A x \in Calls : call'[x].pc = call[x].pc
        /\ car' = Aborted({k}) /\ UNCHANGED <<resp, result>>
        /\ handle'.doomed = handle.doomed /\ handle'.carriers = handle.carriers \ {k}
    BY <1>19 DEF CloseAborts, Untracked
  <2>2. /\ \A x \in Calls \ {k} : car'[x] = car[x]
        /\ car'[k].aborted /\ car'[k].trip = car[k].trip
        /\ car[k].aborted => car'[k] = car[k]
        /\ ~car[k].aborted =>
             /\ car'[k].ready = IF car[k].ready = "no" THEN "err" ELSE car[k].ready
             /\ car'[k].body = IF car[k].body = "open" THEN "dead" ELSE car[k].body
    BY <2>1, AbortedCar
  <2>3. CarOk(k)'
    BY <2>1, <2>2
  <2>4. ASSUME NEW x \in Calls, x # k PROVE CarOk(x)'
    <3>1. /\ UNCHANGED <<call[x].pc, car[x], resp[x], result[x], handle.doomed>>
          /\ handle'.carriers = handle.carriers \ {k}
      BY <2>1, <2>2, <2>4
    <3>2. CarOk(x)
      OBVIOUS
    <3> QED
      BY ONLY <2>4, <3>1, <3>2 DEF CarOk
  <2> QED
    BY <2>3, <2>4
<1>20. ASSUME NEW k \in Calls, CloseLands(k) PROVE CarShape'
  BY <1>20, NoResultAssumption DEF CloseLands, Landed
<1>21. ASSUME NEW k \in Calls, AcceptCall(k) PROVE CarShape'
  BY <1>21, NoResultAssumption DEF AcceptCall
<1>22. ASSUME NEW k \in Calls, HandlerReturns(k) PROVE CarShape'
  BY <1>22, NoResultAssumption DEF HandlerReturns, RequestRead
<1>23. ASSUME NEW k \in Calls, Finish(k) PROVE CarShape'
  <2>1. \A x \in Calls : resp[x] # None => resp'[x] = resp[x]
    BY <1>23 DEF Finish, RespShape
  <2>2. UNCHANGED <<handle, call, car, result>>
    BY <1>23 DEF Finish
  <2> QED
    BY <2>1, <2>2
<1>24. ASSUME NEW k \in Calls, ServerAborts(k) PROVE CarShape'
  <2>1. \A x \in Calls : resp[x] # None => resp'[x] = resp[x]
    BY <1>24 DEF ServerAborts, RespShape
  <2>2. UNCHANGED <<handle, call, car, result>>
    BY <1>24 DEF ServerAborts
  <2> QED
    BY <2>1, <2>2
<1>25. CASE SessionClose
  BY <1>25, NoResultAssumption DEF SessionClose, Event
<1>26. CASE HandleCloses
  BY <1>26, NoResultAssumption DEF HandleCloses
<1>27. CASE HandleSnapshots
  <2>1. /\ UNCHANGED <<call, car, resp, result>>
        /\ handle'.carriers = {} /\ handle'.doomed = handle.carriers
        /\ handle.doomed = {}
    BY <1>27 DEF HandleSnapshots, CloseOrder
  <2> QED
    BY <2>1
<1>28. CASE HandleAborts
  <2>1. CASE car' = car /\ handle' = [handle EXCEPT !.sweep = "done"]
    BY <1>28, <2>1 DEF HandleAborts
  <2>2. ASSUME NEW x \in handle.doomed, car' = Aborted({x}),
               handle' = [handle EXCEPT !.doomed = handle.doomed \ {x}]
        PROVE  CarShape'
    <3>1. x \in Calls /\ handle.carriers = {} /\ handle'.carriers = {}
          /\ handle'.doomed = handle.doomed \ {x}
      BY <1>28, <2>2 DEF HandleAborts, CloseOrder
    <3>2. /\ \A y \in Calls \ {x} : car'[y] = car[y]
          /\ car'[x].aborted /\ car'[x].trip = car[x].trip
          /\ car[x].aborted => car'[x] = car[x]
          /\ ~car[x].aborted =>
               /\ car'[x].ready = IF car[x].ready = "no" THEN "err" ELSE car[x].ready
               /\ car'[x].body = IF car[x].body = "open" THEN "dead" ELSE car[x].body
      BY <2>2, <3>1, AbortedCar
    <3>3. UNCHANGED <<call, resp, result>>
      BY <1>28 DEF HandleAborts
    <3> QED
      BY <3>1, <3>2, <3>3
  <2> QED
    BY <1>28, <2>1, <2>2 DEF HandleAborts
<1>29. CASE UNCHANGED vars
  BY <1>29, NoResultAssumption DEF vars
<1> QED
  BY <1>1, <1>2, <1>3, <1>4, <1>5, <1>6, <1>7, <1>8, <1>9, <1>10, <1>11, <1>12, <1>13,
      <1>14, <1>15, <1>16, <1>17, <1>18, <1>19, <1>20, <1>21, <1>22, <1>23, <1>24, <1>25,
      <1>26, <1>27, <1>28, <1>29 DEF Next, Opening, Trip, Using, Closing, Sweep

LEMMA RespStep == Types /\ CallShape /\ CarShape /\ RespShape /\ [Next]_vars => RespShape'
<1> SUFFICES ASSUME Types, CallShape, CarShape, RespShape, [Next]_vars PROVE RespShape'
  OBVIOUS
<1> USE DEF SessType, HandleType, CallType, CarType, SrvType, Types, RespShape, At, Goto
<1>0. RespShape
  OBVIOUS
<1>1. ASSUME NEW k \in Calls, NEW v \in Verbs[k], OpenCall(k, v) PROVE RespShape'
  BY <1>1, NoResultAssumption DEF OpenCall
<1>2. ASSUME NEW k \in Calls, PrefaceFails(k) PROVE RespShape'
  BY <1>2, NoResultAssumption DEF PrefaceFails, Landed
<1>3. ASSUME NEW k \in Calls, StreamChecks(k) PROVE RespShape'
  BY <1>3, NoResultAssumption DEF StreamChecks
<1>4. ASSUME NEW k \in Calls, StreamTracks(k) PROVE RespShape'
  BY <1>4, NoResultAssumption DEF StreamTracks
<1>5. ASSUME NEW k \in Calls, OpenRefused(k) PROVE RespShape'
  BY <1>5, NoResultAssumption DEF OpenRefused, Landed
<1>6. ASSUME NEW k \in Calls, OpenMarksBad(k) PROVE RespShape'
  BY <1>6, NoResultAssumption DEF OpenMarksBad
<1>7. ASSUME NEW k \in Calls, DoReturns(k) PROVE RespShape'
  BY <1>7, TripCar, NoResultAssumption DEF DoReturns
<1>8. ASSUME NEW k \in Calls, DoFails(k) PROVE RespShape'
  BY <1>8, TripCar, NoResultAssumption DEF DoFails, Untracked, Blame
<1>9. ASSUME NEW k \in Calls, Send(k) PROVE RespShape'
  BY <1>9, NoResultAssumption DEF Send
<1>10. ASSUME NEW k \in Calls, HalfClose(k) PROVE RespShape'
  BY <1>10, NoResultAssumption DEF HalfClose
<1>11. ASSUME NEW k \in Calls, HalfCloseWrites(k) PROVE RespShape'
  BY <1>11, NoResultAssumption DEF HalfCloseWrites
<1>12. ASSUME NEW k \in Calls, HalfCloseFails(k) PROVE RespShape'
  BY <1>12, NoResultAssumption DEF HalfCloseFails, ReceiveOpen, Blame
<1>13. ASSUME NEW k \in Calls, MarkBad(k) PROVE RespShape'
  BY <1>13, NoResultAssumption DEF MarkBad
<1>14. ASSUME NEW k \in Calls, Recv(k) PROVE RespShape'
  BY <1>14, NoResultAssumption DEF Recv
<1>15. ASSUME NEW k \in Calls, RecvReturns(k) PROVE RespShape'
  <2>1. UNCHANGED <<srv, resp>> /\ result' = [result EXCEPT ![k] = RecvResult(resp[k])]
    BY <1>15 DEF RecvReturns
  <2>2. resp[k] # None
    BY <1>15 DEF RecvReturns, CarShape, CarOk
  <2> QED
    BY <2>1, <2>2
<1>16. ASSUME NEW k \in Calls, RecvFails(k) PROVE RespShape'
  BY <1>16, NoResultAssumption DEF RecvFails, Untracked, Event, Blame
<1>17. ASSUME NEW k \in Calls, CloseCall(k) PROVE RespShape'
  BY <1>17, NoResultAssumption DEF CloseCall, Blame
<1>18. ASSUME NEW k \in Calls, CloseSpoils(k) PROVE RespShape'
  BY <1>18, NoResultAssumption DEF CloseSpoils
<1>19. ASSUME NEW k \in Calls, CloseAborts(k) PROVE RespShape'
  <2>1. UNCHANGED <<srv, resp, result>>
    BY <1>19 DEF CloseAborts
  <2> QED
    BY <2>1
<1>20. ASSUME NEW k \in Calls, CloseLands(k) PROVE RespShape'
  BY <1>20, NoResultAssumption DEF CloseLands, Landed
<1>21. ASSUME NEW k \in Calls, AcceptCall(k) PROVE RespShape'
  <2>1. UNCHANGED <<resp, result>> /\ srv[k].pc = "none"
    BY <1>21 DEF AcceptCall
  <2>2. CASE srv' = [srv EXCEPT ![k].pc = "handler"]
    BY <2>1, <2>2
  <2>3. ASSUME NEW c \in Codes[k],
               srv' = [srv EXCEPT ![k] = [srv[k] EXCEPT !.pc = "finish", !.code = c]]
        PROVE  RespShape'
    <3>1. \A x \in Calls \ {k} : srv'[x] = srv[x]
      BY <2>3
    <3>2. srv'[k].aborted = srv[k].aborted /\ srv'[k].code \in Statuses
      BY <2>3 DEF Statuses
    <3> QED
      BY ONLY <1>0, <2>1, <3>1, <3>2 DEF RespShape
  <2> QED
    BY <1>21, <2>2, <2>3 DEF AcceptCall
<1>22. ASSUME NEW k \in Calls, HandlerReturns(k) PROVE RespShape'
  <2>1. UNCHANGED <<resp, result>> /\ srv[k].pc = "handler"
    BY <1>22 DEF HandlerReturns
  <2>2. \A x \in Calls \ {k} : srv'[x] = srv[x]
    BY <1>22 DEF HandlerReturns
  <2>3. srv'[k].aborted = srv[k].aborted /\ srv'[k].code \in Statuses
    BY <1>22 DEF HandlerReturns, Statuses
  <2> QED
    BY ONLY <1>0, <2>1, <2>2, <2>3 DEF RespShape
<1>23. ASSUME NEW k \in Calls, Finish(k) PROVE RespShape'
  <2>1. /\ srv' = [srv EXCEPT ![k] = [srv[k] EXCEPT !.pc = "gone", !.aborted = TRUE]]
        /\ srv[k].pc = "finish" /\ result' = result
    BY <1>23 DEF Finish
  <2>2. /\ srv'[k].pc = "gone" /\ srv'[k].aborted /\ srv'[k].code = srv[k].code
        /\ \A x \in Calls \ {k} : srv'[x] = srv[x]
    BY <2>1
  <2>3. CASE srv[k].aborted
    <3>1. resp' = resp
      BY <1>23, <2>3 DEF Finish
    <3> QED
      BY <2>1, <2>2, <3>1
  <2>4. CASE ~srv[k].aborted
    <3>1. PICK b \in Bodies(k) :
            resp' = [resp EXCEPT ![k] = [http |-> ToHTTP(srv[k].code), body |-> b,
                                         code |-> srv[k].code]]
      BY <1>23, <2>4 DEF Finish
    <3>2. resp[k] = None
      BY <2>4
    <3>3. /\ resp'[k].http = ToHTTP(srv[k].code) /\ resp'[k].body = b
          /\ resp'[k].code = srv[k].code
          /\ \A x \in Calls \ {k} : resp'[x] = resp[x]
      BY <3>1
    <3>4. b \in {"message", "json", "cut", "big"} /\ (b = "message" => srv[k].code = "OK")
      BY <3>1 DEF Bodies
    <3> QED
      BY <2>1, <2>2, <3>2, <3>3, <3>4
  <2> QED
    BY <2>3, <2>4
<1>24. ASSUME NEW k \in Calls, ServerAborts(k) PROVE RespShape'
  BY <1>24, NoResultAssumption DEF ServerAborts, Event
<1>25. CASE SessionClose
  BY <1>25, NoResultAssumption DEF SessionClose, Event
<1>26. CASE HandleCloses
  BY <1>26, NoResultAssumption DEF HandleCloses
<1>27. CASE HandleSnapshots
  BY <1>27, NoResultAssumption DEF HandleSnapshots
<1>28. CASE HandleAborts
  <2>1. UNCHANGED <<srv, resp, result>>
    BY <1>28 DEF HandleAborts
  <2> QED
    BY <2>1
<1>29. CASE UNCHANGED vars
  BY <1>29, NoResultAssumption DEF vars
<1> QED
  BY <1>1, <1>2, <1>3, <1>4, <1>5, <1>6, <1>7, <1>8, <1>9, <1>10, <1>11, <1>12, <1>13,
      <1>14, <1>15, <1>16, <1>17, <1>18, <1>19, <1>20, <1>21, <1>22, <1>23, <1>24, <1>25,
      <1>26, <1>27, <1>28, <1>29 DEF Next, Opening, Trip, Using, Closing, Sweep

LEMMA SpoilStep == Types /\ CallShape /\ SpoiledForCause /\ [Next]_vars => SpoiledForCause'
<1> SUFFICES ASSUME Types, CallShape, SpoiledForCause, [Next]_vars PROVE SpoiledForCause'
  OBVIOUS
<1> USE DEF SessType, HandleType, CallType, CarType, SrvType, Types, SpoiledForCause, At,
    Goto
<1>1. ASSUME NEW k \in Calls, NEW v \in Verbs[k], OpenCall(k, v) PROVE SpoiledForCause'
  BY <1>1, NoResultAssumption DEF OpenCall
<1>2. ASSUME NEW k \in Calls, PrefaceFails(k) PROVE SpoiledForCause'
  BY <1>2, NoResultAssumption DEF PrefaceFails, Landed
<1>3. ASSUME NEW k \in Calls, StreamChecks(k) PROVE SpoiledForCause'
  BY <1>3, NoResultAssumption DEF StreamChecks
<1>4. ASSUME NEW k \in Calls, StreamTracks(k) PROVE SpoiledForCause'
  <2>1. /\ \A x \in Calls : /\ call'[x].closed = call[x].closed
                           /\ call'[x].terminal = call[x].terminal
        /\ UNCHANGED <<sess, cause>>
    <3>1. PICK p \in {"refused", "user"} : call' = [call EXCEPT ![k].pc = p]
      BY <1>4 DEF StreamTracks
    <3> QED
      BY <1>4, <3>1 DEF StreamTracks
  <2> QED
    BY <2>1
<1>5. ASSUME NEW k \in Calls, OpenRefused(k) PROVE SpoiledForCause'
  BY <1>5, NoResultAssumption DEF OpenRefused, Landed
<1>6. ASSUME NEW k \in Calls, OpenMarksBad(k) PROVE SpoiledForCause'
  BY <1>6 DEF OpenMarksBad, CallShape, CallOk
<1>7. ASSUME NEW k \in Calls, DoReturns(k) PROVE SpoiledForCause'
  BY <1>7, TripCar, NoResultAssumption DEF DoReturns
<1>8. ASSUME NEW k \in Calls, DoFails(k) PROVE SpoiledForCause'
  BY <1>8, TripCar, NoResultAssumption DEF DoFails, Untracked, Blame
<1>9. ASSUME NEW k \in Calls, Send(k) PROVE SpoiledForCause'
  BY <1>9, NoResultAssumption DEF Send
<1>10. ASSUME NEW k \in Calls, HalfClose(k) PROVE SpoiledForCause'
  BY <1>10, NoResultAssumption DEF HalfClose
<1>11. ASSUME NEW k \in Calls, HalfCloseWrites(k) PROVE SpoiledForCause'
  BY <1>11, NoResultAssumption DEF HalfCloseWrites
<1>12. ASSUME NEW k \in Calls, HalfCloseFails(k) PROVE SpoiledForCause'
  BY <1>12, NoResultAssumption DEF HalfCloseFails, ReceiveOpen, Blame
<1>13. ASSUME NEW k \in Calls, MarkBad(k) PROVE SpoiledForCause'
  <2>1. cause /\ cause' = cause
    BY <1>13 DEF MarkBad, CallShape, CallOk
  <2> QED
    BY <2>1
<1>14. ASSUME NEW k \in Calls, Recv(k) PROVE SpoiledForCause'
  BY <1>14, NoResultAssumption DEF Recv
<1>15. ASSUME NEW k \in Calls, RecvReturns(k) PROVE SpoiledForCause'
  <2>1. /\ \A x \in Calls \ {k} : call'[x] = call[x]
        /\ call'[k].closed = call[k].closed /\ UNCHANGED <<sess, cause>>
    BY <1>15 DEF RecvReturns
  <2>2. call[k].closed /\ ~call[k].terminal => cause
    BY <1>15 DEF RecvReturns, CallShape, CallOk
  <2> QED
    BY <2>1, <2>2
<1>16. ASSUME NEW k \in Calls, RecvFails(k) PROVE SpoiledForCause'
  BY <1>16, NoResultAssumption DEF RecvFails, Untracked, Event, Blame
<1>17. ASSUME NEW k \in Calls, CloseCall(k) PROVE SpoiledForCause'
  BY <1>17, NoResultAssumption DEF CloseCall, Blame
<1>18. ASSUME NEW k \in Calls, CloseSpoils(k) PROVE SpoiledForCause'
  <2>1. cause' = cause /\ call'[k].closed = call[k].closed
        /\ call'[k].terminal = call[k].terminal
    BY <1>18 DEF CloseSpoils
  <2>2. call[k].closed /\ (~call[k].terminal \/ cause)
    BY <1>18 DEF CloseSpoils, CallShape, CallOk
  <2> QED
    BY <2>1, <2>2
<1>19. ASSUME NEW k \in Calls, CloseAborts(k) PROVE SpoiledForCause'
  <2>1. /\ \A x \in Calls : /\ call'[x].closed = call[x].closed
                           /\ call'[x].terminal = call[x].terminal
        /\ UNCHANGED <<sess, cause>>
    BY <1>19 DEF CloseAborts
  <2> QED
    BY <2>1
<1>20. ASSUME NEW k \in Calls, CloseLands(k) PROVE SpoiledForCause'
  BY <1>20, NoResultAssumption DEF CloseLands, Landed
<1>21. ASSUME NEW k \in Calls, AcceptCall(k) PROVE SpoiledForCause'
  BY <1>21, NoResultAssumption DEF AcceptCall
<1>22. ASSUME NEW k \in Calls, HandlerReturns(k) PROVE SpoiledForCause'
  BY <1>22, NoResultAssumption DEF HandlerReturns, RequestRead
<1>23. ASSUME NEW k \in Calls, Finish(k) PROVE SpoiledForCause'
  BY <1>23, NoResultAssumption DEF Finish
<1>24. ASSUME NEW k \in Calls, ServerAborts(k) PROVE SpoiledForCause'
  BY <1>24, NoResultAssumption DEF ServerAborts, Event
<1>25. CASE SessionClose
  BY <1>25, NoResultAssumption DEF SessionClose, Event
<1>26. CASE HandleCloses
  BY <1>26, NoResultAssumption DEF HandleCloses
<1>27. CASE HandleSnapshots
  BY <1>27, NoResultAssumption DEF HandleSnapshots
<1>28. CASE HandleAborts
  <2>1. UNCHANGED <<sess, call>> /\ (cause' \/ UNCHANGED cause)
    BY <1>28 DEF HandleAborts, Blame
  <2> QED
    BY <2>1
<1>29. CASE UNCHANGED vars
  BY <1>29, NoResultAssumption DEF vars
<1> QED
  BY <1>1, <1>2, <1>3, <1>4, <1>5, <1>6, <1>7, <1>8, <1>9, <1>10, <1>11, <1>12, <1>13,
      <1>14, <1>15, <1>16, <1>17, <1>18, <1>19, <1>20, <1>21, <1>22, <1>23, <1>24, <1>25,
      <1>26, <1>27, <1>28, <1>29 DEF Next, Opening, Trip, Using, Closing, Sweep

-----------------------------------------------------------------------------
(* inFlight, endFlight.                                                    *)

LEMMA FlightsFinite == IsFiniteSet(InFlight) /\ Cardinality(InFlight) \in Nat
<1>1. InFlight \subseteq Calls
  BY DEF InFlight
<1> QED
  BY <1>1, FS_Subset, FS_CardinalityType, HttpAssumption

LEMMA CountKept ==
  ASSUME CountExact, sess'.inFlight = sess.inFlight, InFlight' = InFlight
  PROVE  CountExact'
BY DEF CountExact

(* endFlight takes out a call that was counted. *)
LEMMA CountLands ==
  ASSUME Types, CountExact, NEW k \in InFlight, InFlight' = InFlight \ {k},
         sess' = [sess EXCEPT !.inFlight = Landed]
  PROVE  CountExact'
<1>1. /\ Cardinality(InFlight') = Cardinality(InFlight) - 1
      /\ Cardinality(InFlight') \in Nat
  BY FlightsFinite, FS_RemoveElement, FS_CardinalityType
<1>2. sess.inFlight > 0 /\ sess'.inFlight = Landed
  BY <1>1, FlightsFinite DEF CountExact, Types, SessType
<1> QED
  BY <1>1, <1>2 DEF CountExact, Landed

LEMMA CountStep == Types /\ CallShape /\ CountExact /\ [Next]_vars => CountExact'
<1> SUFFICES ASSUME Types, CallShape, CountExact, [Next]_vars PROVE CountExact'
  OBVIOUS
<1> USE DEF Types, SessType, HandleType, CallType, CarType, SrvType, At, Goto
<1>1. ASSUME NEW k \in Calls, NEW v \in Verbs[k], OpenCall(k, v) PROVE CountExact'
  <2>1. sess'.inFlight = sess.inFlight + 1
    BY <1>1 DEF OpenCall
  <2>2. InFlight' = InFlight \cup {k} /\ k \notin InFlight
    BY <1>1 DEF OpenCall, InFlight, Opened
  <2>3. Cardinality(InFlight') = Cardinality(InFlight) + 1
    BY <2>2, FlightsFinite, FS_AddElement
  <2> QED
    BY <2>1, <2>3 DEF CountExact
<1>2. ASSUME NEW k \in Calls, PrefaceFails(k) PROVE CountExact'
  <2>1. InFlight' = InFlight \ {k} /\ k \in InFlight
    BY <1>2 DEF PrefaceFails, InFlight, Opened
  <2> QED
    BY <1>2, <2>1, CountLands DEF PrefaceFails
<1>3. ASSUME NEW k \in Calls, StreamChecks(k) PROVE CountExact'
  <2>1. sess'.inFlight = sess.inFlight /\ InFlight' = InFlight
    BY <1>3 DEF StreamChecks, InFlight, Opened
  <2> QED
    BY <2>1, CountKept
<1>4. ASSUME NEW k \in Calls, StreamTracks(k) PROVE CountExact'
  <2>1. call[k].pc = "track" /\ ~call[k].closed /\ call[k].closing = "no" /\ sess' = sess
    BY <1>4 DEF StreamTracks, CallShape, CallOk, Unopened
  <2>2. PICK p \in {"refused", "user"} : call' = [call EXCEPT ![k].pc = p]
    BY <1>4 DEF StreamTracks
  <2>3. InFlight' = InFlight
    BY <2>1, <2>2 DEF InFlight, Opened
  <2> QED
    BY <2>1, <2>3, CountKept
<1>5. ASSUME NEW k \in Calls, OpenRefused(k) PROVE CountExact'
  <2>1. InFlight' = InFlight \ {k} /\ k \in InFlight
    BY <1>5 DEF OpenRefused, InFlight, Opened
  <2> QED
    BY <1>5, <2>1, CountLands DEF OpenRefused
<1>6. ASSUME NEW k \in Calls, OpenMarksBad(k) PROVE CountExact'
  <2>1. sess'.inFlight = sess.inFlight /\ InFlight' = InFlight
    BY <1>6 DEF OpenMarksBad, InFlight, Opened
  <2> QED
    BY <2>1, CountKept
<1>7. ASSUME NEW k \in Calls, DoReturns(k) PROVE CountExact'
  <2>1. sess'.inFlight = sess.inFlight /\ InFlight' = InFlight
    BY <1>7 DEF DoReturns, InFlight, Opened
  <2> QED
    BY <2>1, CountKept
<1>8. ASSUME NEW k \in Calls, DoFails(k) PROVE CountExact'
  <2>1. sess'.inFlight = sess.inFlight /\ InFlight' = InFlight
    BY <1>8 DEF DoFails, InFlight, Opened
  <2> QED
    BY <2>1, CountKept
<1>9. ASSUME NEW k \in Calls, Send(k) PROVE CountExact'
  <2>1. sess'.inFlight = sess.inFlight /\ InFlight' = InFlight
    BY <1>9 DEF Send, InFlight, Opened
  <2> QED
    BY <2>1, CountKept
<1>10. ASSUME NEW k \in Calls, HalfClose(k) PROVE CountExact'
  <2>1. sess'.inFlight = sess.inFlight /\ InFlight' = InFlight
    BY <1>10 DEF HalfClose, InFlight, Opened
  <2> QED
    BY <2>1, CountKept
<1>11. ASSUME NEW k \in Calls, HalfCloseWrites(k) PROVE CountExact'
  <2>1. sess'.inFlight = sess.inFlight /\ InFlight' = InFlight
    BY <1>11 DEF HalfCloseWrites, InFlight, Opened
  <2> QED
    BY <2>1, CountKept
<1>12. ASSUME NEW k \in Calls, HalfCloseFails(k) PROVE CountExact'
  <2>1. sess'.inFlight = sess.inFlight /\ InFlight' = InFlight
    BY <1>12 DEF HalfCloseFails, ReceiveOpen, Blame, InFlight, Opened
  <2> QED
    BY <2>1, CountKept
<1>13. ASSUME NEW k \in Calls, MarkBad(k) PROVE CountExact'
  <2>1. sess'.inFlight = sess.inFlight /\ InFlight' = InFlight
    BY <1>13 DEF MarkBad, InFlight, Opened
  <2> QED
    BY <2>1, CountKept
<1>14. ASSUME NEW k \in Calls, Recv(k) PROVE CountExact'
  <2>1. sess'.inFlight = sess.inFlight /\ InFlight' = InFlight
    BY <1>14 DEF Recv, InFlight, Opened
  <2> QED
    BY <2>1, CountKept
<1>15. ASSUME NEW k \in Calls, RecvReturns(k) PROVE CountExact'
  <2>1. sess'.inFlight = sess.inFlight /\ InFlight' = InFlight
    BY <1>15 DEF RecvReturns, Untracked, InFlight, Opened
  <2> QED
    BY <2>1, CountKept
<1>16. ASSUME NEW k \in Calls, RecvFails(k) PROVE CountExact'
  <2>1. sess'.inFlight = sess.inFlight /\ InFlight' = InFlight
    BY <1>16 DEF RecvFails, Untracked, Event, Blame, InFlight, Opened
  <2> QED
    BY <2>1, CountKept
<1>17. ASSUME NEW k \in Calls, CloseCall(k) PROVE CountExact'
  <2>1. /\ call' = [call EXCEPT ![k] = [call[k] EXCEPT
                      !.closed = TRUE, !.closing = IF call[k].terminal THEN "abort" ELSE "spoil"]]
        /\ sess' = sess /\ ~call[k].closed
    BY <1>17 DEF CloseCall
  <2>2. /\ call'[k].pc = call[k].pc /\ call'[k].closing # "done" /\ call[k].closing = "no"
        /\ \A x \in Calls \ {k} : call'[x] = call[x]
    BY <2>1 DEF CallShape, CallOk
  <2>3. InFlight' = InFlight
    BY <2>2 DEF InFlight, Opened
  <2> QED
    BY <2>1, <2>3, CountKept
<1>18. ASSUME NEW k \in Calls, CloseSpoils(k) PROVE CountExact'
  <2>1. sess'.inFlight = sess.inFlight /\ InFlight' = InFlight
    BY <1>18 DEF CloseSpoils, InFlight, Opened
  <2> QED
    BY <2>1, CountKept
<1>19. ASSUME NEW k \in Calls, CloseAborts(k) PROVE CountExact'
  <2>1. sess' = sess /\ call[k].closing = "abort"
        /\ call' = [call EXCEPT ![k].closing = "land"]
    BY <1>19 DEF CloseAborts
  <2>2. InFlight' = InFlight
    BY <2>1 DEF InFlight, Opened
  <2> QED
    BY <2>1, <2>2, CountKept
<1>20. ASSUME NEW k \in Calls, CloseLands(k) PROVE CountExact'
  <2>1. call[k].pc \in Opened
    BY <1>20 DEF CloseLands, CallShape, CallOk, PCs, Unopened, Opened
  <2>2. InFlight' = InFlight \ {k} /\ k \in InFlight
    BY <1>20, <2>1 DEF CloseLands, InFlight, Opened
  <2> QED
    BY <1>20, <2>2, CountLands DEF CloseLands
<1>21. ASSUME NEW k \in Calls, AcceptCall(k) PROVE CountExact'
  <2>1. sess'.inFlight = sess.inFlight /\ InFlight' = InFlight
    BY <1>21 DEF AcceptCall, InFlight, Opened
  <2> QED
    BY <2>1, CountKept
<1>22. ASSUME NEW k \in Calls, HandlerReturns(k) PROVE CountExact'
  <2>1. sess'.inFlight = sess.inFlight /\ InFlight' = InFlight
    BY <1>22 DEF HandlerReturns, RequestRead, InFlight, Opened
  <2> QED
    BY <2>1, CountKept
<1>23. ASSUME NEW k \in Calls, Finish(k) PROVE CountExact'
  <2>1. sess'.inFlight = sess.inFlight /\ InFlight' = InFlight
    BY <1>23 DEF Finish, InFlight, Opened
  <2> QED
    BY <2>1, CountKept
<1>24. ASSUME NEW k \in Calls, ServerAborts(k) PROVE CountExact'
  <2>1. sess'.inFlight = sess.inFlight /\ InFlight' = InFlight
    BY <1>24 DEF ServerAborts, Event, InFlight, Opened
  <2> QED
    BY <2>1, CountKept
<1>25. CASE SessionClose
  <2>1. sess'.inFlight = sess.inFlight /\ InFlight' = InFlight
    BY <1>25 DEF SessionClose, Event, InFlight, Opened
  <2> QED
    BY <2>1, CountKept
<1>26. CASE HandleCloses
  <2>1. sess'.inFlight = sess.inFlight /\ InFlight' = InFlight
    BY <1>26 DEF HandleCloses, InFlight, Opened
  <2> QED
    BY <2>1, CountKept
<1>27. CASE HandleSnapshots
  <2>1. sess'.inFlight = sess.inFlight /\ InFlight' = InFlight
    BY <1>27 DEF HandleSnapshots, InFlight, Opened
  <2> QED
    BY <2>1, CountKept
<1>28. CASE HandleAborts
  <2>1. sess'.inFlight = sess.inFlight /\ InFlight' = InFlight
    BY <1>28 DEF HandleAborts, Aborted, Blame, InFlight, Opened
  <2> QED
    BY <2>1, CountKept
<1>29. CASE UNCHANGED vars
  <2>1. sess'.inFlight = sess.inFlight /\ InFlight' = InFlight
    BY <1>29 DEF vars, InFlight, Opened
  <2> QED
    BY <2>1, CountKept
<1> QED
  BY <1>1, <1>2, <1>3, <1>4, <1>5, <1>6, <1>7, <1>8, <1>9, <1>10, <1>11, <1>12, <1>13,
      <1>14, <1>15, <1>16, <1>17, <1>18, <1>19, <1>20, <1>21, <1>22, <1>23, <1>24, <1>25,
      <1>26, <1>27, <1>28, <1>29 DEF Next, Opening, Trip, Using, Closing, Sweep

LEMMA HttpInvariant == Spec => []HttpInv
<1>1. HttpInv /\ [Next]_vars => HttpInv'
  <2> SUFFICES ASSUME HttpInv, [Next]_vars PROVE HttpInv'
    OBVIOUS
  <2> USE DEF HttpInv
  <2>1. Types'
    BY TypeStep
  <2>2. CloseOrder' /\ CallShape'
    BY OrderStep, CallStep
  <2>3. CarShape' /\ RespShape'
    BY CarStep, RespStep
  <2>4. SpoiledForCause' /\ CountExact'
    BY SpoilStep, CountStep
  <2> QED
    BY <2>1, <2>2, <2>3, <2>4
<1> QED
  BY <1>1, HttpInit, PTL DEF Spec

-----------------------------------------------------------------------------
(* What Recv reports is what the server did: the table of httpstatus.go     *)
(* blurs a code only when the JSON body did not get through, and the 408 of *)
(* an aborted exchange reads Canceled (recvClient, DecodeErrorBody and the  *)
(* server's Finish and Abort).                                              *)
THEOREM AnswersAreTruthful == Spec => []AnswerTruthful
<1>1. HttpInv => AnswerTruthful
  <2> SUFFICES ASSUME HttpInv, NEW k \in Calls, result[k] # None
               PROVE  CASE result[k].kind = "message" ->
                             srv[k].code = "OK" /\ resp[k].http = 200
                        [] result[k].kind = "status" ->
                             \/ result[k].code = srv[k].code
                             \/ /\ resp[k].body = "cut"
                                /\ result[k].code = FromHTTP(ToHTTP(srv[k].code))
                             \/ resp[k].http = 408 /\ result[k].code = "Canceled"
                        [] OTHER -> TRUE
    BY DEF AnswerTruthful
  <2> USE DEF HttpInv
  <2>1. ASSUME result[k].kind = "message"
        PROVE  srv[k].code = "OK" /\ resp[k].http = 200
    <3>1. resp[k] # None /\ result[k] = RecvResult(resp[k])
      BY <2>1 DEF RespShape
    <3>2. resp[k].http = 200
      BY <2>1, <3>1 DEF RecvResult
    <3> QED
      BY <3>1, <3>2, StatusTable DEF RespShape
  <2>2. ASSUME result[k].kind = "status"
        PROVE  \/ result[k].code = srv[k].code
               \/ resp[k].body = "cut" /\ result[k].code = FromHTTP(ToHTTP(srv[k].code))
               \/ resp[k].http = 408 /\ result[k].code = "Canceled"
    <3>1. resp[k] # None /\ result[k] = RecvResult(resp[k])
      BY <2>2 DEF RespShape
    <3>2. /\ resp[k].http # 200 /\ resp[k].body # "big"
          /\ result[k].code = DecodeErrorBody(resp[k])
      BY <2>2, <3>1 DEF RecvResult
    <3>3. CASE resp[k] = [http |-> 408, body |-> "none", code |-> "Canceled"]
      BY <3>2, <3>3, StatusTable DEF DecodeErrorBody
    <3>4. CASE /\ resp[k].body \in {"message", "json", "cut", "big"}
               /\ resp[k].http = ToHTTP(srv[k].code) /\ resp[k].code = srv[k].code
               /\ resp[k].body = "message" => srv[k].code = "OK"
      <4>1. resp[k].body # "message"
        BY <3>2, <3>4 DEF ToHTTP
      <4> QED
        BY <3>2, <3>4, <4>1 DEF DecodeErrorBody
    <3> QED
      BY <3>1, <3>3, <3>4 DEF RespShape
  <2> QED
    BY <2>1, <2>2
<1> QED
  BY <1>1, HttpInvariant, PTL

(* The shared handle: inFlight counts the calls between OpenCall and the    *)
(* end of Close, the map holds live exchanges only, a sweep misses none,    *)
(* and reusable falls only for cause (clientSession, streamConn).           *)
THEOREM HandleIsSound == Spec => []HandleSound
<1>1. HttpInv => HandleSound
  <2> SUFFICES ASSUME HttpInv PROVE HandleAccounted
    BY DEF HandleSound, HttpInv
  <2> USE DEF HttpInv
  <2>1. sess.inFlight = Cardinality({k \in Calls :
            \/ call[k].pc \in {"preface", "track", "refused"}
            \/ call[k].pc \in {"user", "write", "recv", "markBad"} /\ call[k].closing # "done"})
    BY DEF CountExact, InFlight, Opened
  <2>2. \A k \in handle.carriers : car[k].trip # "none" /\ ~car[k].aborted
    BY DEF Types, HandleType, CarShape, CarOk, CallShape, CallOk
  <2>3. handle.sweep = "done" =>
          /\ handle.carriers = {}
          /\ \A k \in Calls : car[k].trip = "running" => car[k].aborted
    BY DEF CloseOrder, CarShape, CarOk
  <2> QED
    BY <2>1, <2>2, <2>3 DEF HandleAccounted
<1> QED
  BY <1>1, HttpInvariant, PTL

(* When a call's Close, or the session's, has returned, a HalfClose or Recv *)
(* still under way finds its exchange at an end (clientCarrier.Abort,       *)
(* streamConn.Close).                                                       *)
THEOREM NobodyIsStranded == Spec => []NoWaiterStranded
<1>1. HttpInv => NoWaiterStranded
  <2> SUFFICES ASSUME HttpInv, NEW k \in Calls,
                      call[k].closing = "done" \/ handle.sweep = "done"
               PROVE  /\ call[k].pc = "write" => car[k].body # "open"
                      /\ call[k].pc = "recv" => car[k].aborted \/ car[k].ready = "err"
    BY DEF NoWaiterStranded, At, ReceiveOpen
  <2> USE DEF HttpInv, CallShape, CallOk, CarShape, CarOk
  <2>1. CASE call[k].closing = "done"
    BY <2>1
  <2>2. CASE handle.sweep = "done"
    <3>1. handle.carriers \cup handle.doomed = {}
      BY <2>2 DEF CloseOrder
    <3> QED
      BY <3>1 DEF Opened
  <2> QED
    BY <2>1, <2>2
<1> QED
  BY <1>1, HttpInvariant, PTL
=============================================================================
