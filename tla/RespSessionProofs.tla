------------------------- MODULE RespSessionProofs -------------------------
(***************************************************************************)
(* Theorems about RespSession for any number of calls, any bounds and any  *)
(* choice of commands and passwords: a session that would be lent carries  *)
(* nothing of an earlier call, no reader waits for a wake-up that cannot   *)
(* come, at most one value is under way on the connection, and a session   *)
(* that is spoilt stays so.                                                *)
(*                                                                         *)
(* The argument follows the one value a reusable connection may carry on   *)
(* its way through seven stations, to the server as a request and back as  *)
(* its reply.  The lemmas come in groups: what a step does to a session,   *)
(* the types, wake-ups, the calls one by one and in their order, sequences *)
(* of bytes, what a step leaves where it was, what each write and read     *)
(* moves, whose the values are, and how many there are.                    *)
(***************************************************************************)
EXTENDS RespSession, SequenceTheorems, TLAPS

(***************************************************************************)
(* Types and places.                                                       *)

\* What a wait returns: a value, or how it ended.
Failures == {"byte", "err", "bad", "ctx"}
Answers == Values \cup {Outcome(o) : o \in Failures}

\* Where each goroutine can be, and where it waits for input.
Places(p) ==
  IF p = Dial
  THEN {"hello", "helloRead", "auth", "authRead", "ready", "fail", "failed"}
  ELSE IF p = Srv
  THEN {"hello", "auth", "idle", "first", "open", "handler", "reject", "finish",
        "close", "fail", "gone"}
  ELSE {"new", "exclusive", "user", "write", "recv", "markBad"}
Waiting(p) ==
  at[p] \in (IF p = Srv THEN {"hello", "auth", "first", "open"}
             ELSE {"helloRead", "authRead", "recv"})

\* The fields of the calls of both sides.
CallType == [m: Commands \cup {None}, closed: BOOLEAN, terminal: BOOLEAN,
             sendDone: BOOLEAN, ending: {"no", "poison", "clean", "done"}]
SrvType == [m: Words \cup {None}, k: Calls \cup {None}, replySent: BOOLEAN,
            finished: BOOLEAN, pushes: Nat]

\* The types of the variables the proofs look at.
Types ==
  /\ sess \in [Sides -> Sess]
  /\ wire \in [Sides -> Input]
  /\ DOMAIN at = Readers /\ \A p \in Readers : at[p] \in Places(p)
  /\ res \in [Readers -> Answers \cup {None}]
  /\ rd \in [Readers -> {"off", "look", "park"}]
  /\ woken \in [Readers -> BOOLEAN]
  /\ call \in [Calls -> CallType]
  /\ srv \in SrvType
  /\ got \in [Calls -> SUBSET Answers]

\* The server has a command exactly while it serves a call.
Serving == at[Srv] \in {"handler", "reject", "finish", "close"}
Serves == Serving \/ srv.m = None

\* A goroutine waits for input only at certain places, and comes back from the
\* wait with an answer.
Waits ==
  \A p \in Readers :
    /\ rd[p] # "off" => Waiting(p)
    /\ rd[p] = "off" /\ Waiting(p) =>
         res[p] \in Answers /\ (res[p] = Outcome("byte") => at[p] = "first")

\* A read loop has stopped exactly when it has said so.
Told == \A s \in Sides : sess[s].readErr <=> sess[s].loop # "run"

(***************************************************************************)
(* Requests and replies.                                                   *)

\* A value, not Junk or a beginning: what a piece of input holds of them.
Token(v) == v \in Values
Holds(b) == \E i \in 1 .. Len(b) : Token(b[i])
Single(b) == \A i, j \in 1 .. Len(b) : Token(b[i]) /\ Token(b[j]) => i = j
Within(b, S) == \A i \in 1 .. Len(b) : Token(b[i]) => b[i] \in S

\* A value a reader has taken from the buffer and not used yet; a command the
\* server has not answered.
InHand(p) == Waiting(p) /\ rd[p] = "off" /\ Token(res[p])
Unanswered == Serving /\ ~srv.replySent

\* The places a request passes through on its way and back as the reply.
Stations == {"wireS", "bufS", "resS", "srv", "wireC", "bufC", "resC"}
Has(l) ==
  \/ l = "wireS" /\ Holds(wire["S"])
  \/ l = "bufS" /\ Holds(sess["S"].buf)
  \/ l = "resS" /\ InHand(Srv)
  \/ l = "srv" /\ Unanswered
  \/ l = "wireC" /\ Holds(wire["C"])
  \/ l = "bufC" /\ Holds(sess["C"].buf)
  \/ l = "resC" /\ \E p \in Readers \ {Srv} : InHand(p)
Quiet == \A l \in Stations : ~Has(l)
One ==
  /\ \A s \in Sides : Single(wire[s]) /\ Single(sess[s].buf)
  /\ \A x, y \in Stations : Has(x) /\ Has(y) => x = y

\* Whose the connection is: the last call opened, or the dial.
Opened(k) == at[k] # "new"
Last(k) == Opened(k) /\ \A j \in Calls : j > k => ~Opened(j)
Owner(x) == IF x = None THEN \A j \in Calls : ~Opened(j) ELSE Last(x)

\* What may be under way: the owner's, a handshake's only before the first
\* call, and no stream while the session is reusable.
Fits == {v \in Values : /\ Owner(v.k)
                        /\ v.m \in {"HELLO", "AUTH"} => v.k = None
                        /\ sess["C"].reusable => ~Streaming(v.m)}
Owned ==
  /\ \A s \in Sides : Within(wire[s], Fits) /\ Within(sess[s].buf, Fits)
  /\ \A p \in Readers : InHand(p) => res[p] \in Fits
  /\ Serving /\ (~srv.replySent \/ Streaming(srv.m)) =>
       Owner(srv.k) /\ (sess["C"].reusable => ~Streaming(srv.m))

(***************************************************************************)
(* The client's calls.                                                     *)

\* What holds of a call whatever its neighbours do ...
OwnOk(k) ==
  /\ IF Opened(k) THEN call[k].m \in Commands ELSE call[k] = NoCall /\ got[k] = {}
  /\ at[k] = "exclusive" =>
       ~call[k].closed /\ ~call[k].terminal /\ ~call[k].sendDone /\ Streaming(call[k].m)
  /\ at[k] = "write" => ~call[k].sendDone
  /\ at[k] = "markBad" => call[k].terminal
  /\ call[k].closed <=> call[k].ending # "no"
  /\ call[k].ending = "clean" => call[k].terminal /\ ~Streaming(call[k].m)
  /\ sess["C"].reusable /\ Streaming(call[k].m) => at[k] = "exclusive"
  /\ sess["C"].reusable /\ call[k].ending = "done" => call[k].terminal
  /\ Opened(k) /\ call[k].ending # "done" => sess["C"].busy

\* ... and of the order in which they are opened.
Turn(k) ==
  Opened(k) => /\ at[Dial] = "ready"
               /\ \A j \in Calls : j < k => Opened(j)
               /\ Last(k) \/ call[k].ending = "done"
CallsOk == \A k \in Calls : OwnOk(k) /\ Turn(k)

\* And, unless a Close overtook a failing Recv, of its place in the order.
Inert(k) == at[k] = "user" /\ call[k].closed
Ordered ==
  \A k \in Calls :
    /\ at[k] = "markBad" => ~call[k].closed
    /\ sess["C"].reusable /\ call[k].terminal =>
         at[k] = "markBad" \/ (at[k] = "user" /\ (call[k].sendDone \/ call[k].closed))
    /\ Opened(k) /\ ~Last(k) => Inert(k)
    /\ \A v \in got[k] : v.k = k

\* What is under way belongs to a call that waits for it.
Expects(k) ==
  /\ Last(k) /\ call[k].sendDone /\ call[k].ending # "done"
  /\ ~call[k].terminal \/ at[k] = "markBad" \/ call[k].ending = "poison"
Expected ==
  /\ at[Dial] \in {"hello", "auth"} => Quiet
  /\ at[Dial] = "ready" /\ ~Quiet => \E k \in Calls : Expects(k)

Exact == at[Dial] \in {"fail", "failed"} \/ (One /\ Expected)
Clean == slips = {} => Ordered /\ Owned /\ (sess["C"].reusable => Exact)

\* The inductive invariant.
IInv == Types /\ Serves /\ Waits /\ Told /\ NoReaderStranded /\ CallsOk /\ Clean

\* The client's calls, its dial and the server are different goroutines.
LEMMA Numbers ==
  /\ NCalls \in Nat /\ Dial \notin Calls /\ Srv \notin Calls /\ Dial # Srv
  /\ Readers = Calls \cup {Dial, Srv} /\ Calls \subseteq Nat
BY RespAssumption DEF Dial, Srv, Calls, Readers

\* Junk and beginnings are no values.
LEMMA Blanks ==
  Junk # Part /\ Junk \notin Values /\ Part \notin Values
BY DEF Junk, Part, Values, Words, Commands

\* Input stays input when the loop or a reader takes from it ...
LEMMA InputRead ==
  ASSUME NEW b \in Input
  PROVE  /\ Whole(b) \in Input
         /\ b # <<>> => Tail(b) \in Input /\ Head(b) \in Values \cup {Junk, Part}
BY DEF Whole, Input

\* ... gets shorter by a read ...
LEMMA TailShorter ==
  ASSUME NEW b \in Input, b # <<>>
  PROVE  Tail(b) # b
BY DEF Input

\* ... and stays input when something is written to it.
LEMMA InputGrows ==
  ASSUME NEW b \in Input, NEW v \in Values \cup {Junk, Part}
  PROVE  /\ Append(b, v) \in Input
         /\ b \o <<v>> \in Input
         /\ b \o (<<v>> \o <<>>) \in Input
         /\ b \o (<<v>> \o <<Junk>>) \in Input
         /\ \A w \in Values : b \o (<<v>> \o <<w>>) \in Input
BY DEF Input

\* What no step does to a session, and which steps do the rest.
Steady(r, q) ==
  /\ q \in Sess
  /\ r.closed => q.closed
  /\ q.reusable => r.reusable
  /\ r.loop # "run" => q.loop # "run"
  /\ (r.readErr <=> r.loop # "run") => (q.readErr <=> q.loop # "run")
Kept(r, q) == Steady(r, q) /\ q.buf = r.buf
Calm(r, q) == Kept(r, q) /\ q.busy = r.busy /\ q.loop = r.loop

\* A step that replaces one session leaves the other as it was.
LEMMA OneSession ==
  ASSUME sess \in [Sides -> Sess], NEW s \in Sides, NEW r, Kept(sess[s], r),
         sess' = [sess EXCEPT ![s] = r]
  PROVE  /\ (sess \in [Sides -> Sess])'
         /\ \A t \in Sides : Kept(sess[t], sess'[t])
         /\ Calm(sess[s], r) => \A t \in Sides : Calm(sess[t], sess'[t])
         /\ s = "S" => sess'["C"] = sess["C"]
<1>1. \A t \in Sides : Calm(sess[t], sess[t])
  BY DEF Calm, Kept, Steady, Sess
<1>2. sess'[s] = r /\ \A t \in Sides \ {s} : sess'[t] = sess[t]
  OBVIOUS
<1>3. (sess \in [Sides -> Sess])' /\ (s = "S" => sess'["C"] = sess["C"])
  BY <1>2 DEF Kept, Steady, Sides
<1> QED
  BY <1>1, <1>2, <1>3 DEF Calm

\* The sessions keep buffer, slot and read loop: only flags change.  The next
\* six lemmas go through the updates that do no more.
Calmly == (sess \in [Sides -> Sess])' /\ \A t \in Sides : Calm(sess[t], sess'[t])

LEMMA ReusableOff ==
  ASSUME sess \in [Sides -> Sess], NEW s \in Sides,
         sess' = [sess EXCEPT ![s] = [sess[s] EXCEPT !.reusable = FALSE]]
  PROVE  Calmly
<1>1. Calm(sess[s], [sess[s] EXCEPT !.reusable = FALSE])
  BY DEF Calm, Kept, Steady, Sess
<1>2. Kept(sess[s], [sess[s] EXCEPT !.reusable = FALSE])
  BY <1>1 DEF Calm
<1> QED
  BY <1>1, <1>2, OneSession DEF Calmly

LEMMA FlagsSet ==
  ASSUME sess \in [Sides -> Sess], NEW s \in Sides,
         sess' = [sess EXCEPT ![s] = [sess[s] EXCEPT !.closed = TRUE, !.reusable = FALSE,
             !.shut = "flagged"]]
  PROVE  Calmly
<1>1. Calm(sess[s], [sess[s] EXCEPT !.closed = TRUE, !.reusable = FALSE, !.shut = "flagged"])
  BY DEF Calm, Kept, Steady, Sess
<1>2. Kept(sess[s], [sess[s] EXCEPT !.closed = TRUE, !.reusable = FALSE, !.shut = "flagged"])
  BY <1>1 DEF Calm
<1> QED
  BY <1>1, <1>2, OneSession DEF Calmly

LEMMA ConnOff ==
  ASSUME sess \in [Sides -> Sess], NEW s \in Sides,
         sess' = [sess EXCEPT ![s] = [sess[s] EXCEPT !.conn = FALSE]]
  PROVE  Calmly
<1>1. Calm(sess[s], [sess[s] EXCEPT !.conn = FALSE])
  BY DEF Calm, Kept, Steady, Sess
<1>2. Kept(sess[s], [sess[s] EXCEPT !.conn = FALSE])
  BY <1>1 DEF Calm
<1> QED
  BY <1>1, <1>2, OneSession DEF Calmly

LEMMA ConnJoins ==
  ASSUME sess \in [Sides -> Sess], NEW s \in Sides,
         sess' = [sess EXCEPT ![s] = [sess[s] EXCEPT !.conn = FALSE, !.shut = "wait"]]
  PROVE  Calmly
<1>1. Calm(sess[s], [sess[s] EXCEPT !.conn = FALSE, !.shut = "wait"])
  BY DEF Calm, Kept, Steady, Sess
<1>2. Kept(sess[s], [sess[s] EXCEPT !.conn = FALSE, !.shut = "wait"])
  BY <1>1 DEF Calm
<1> QED
  BY <1>1, <1>2, OneSession DEF Calmly

LEMMA Joined ==
  ASSUME sess \in [Sides -> Sess], NEW s \in Sides,
         sess' = [sess EXCEPT ![s] = [sess[s] EXCEPT !.shut = "done"]]
  PROVE  Calmly
<1>1. Calm(sess[s], [sess[s] EXCEPT !.shut = "done"])
  BY DEF Calm, Kept, Steady, Sess
<1>2. Kept(sess[s], [sess[s] EXCEPT !.shut = "done"])
  BY <1>1 DEF Calm
<1> QED
  BY <1>1, <1>2, OneSession DEF Calmly

LEMMA Excludes ==
  ASSUME sess \in [Sides -> Sess], NEW s \in Sides,
         sess' = [sess EXCEPT ![s] = [sess[s] EXCEPT !.exclusive = TRUE, !.reusable = FALSE]]
  PROVE  Calmly
<1>1. Calm(sess[s], [sess[s] EXCEPT !.exclusive = TRUE, !.reusable = FALSE])
  BY DEF Calm, Kept, Steady, Sess
<1>2. Kept(sess[s], [sess[s] EXCEPT !.exclusive = TRUE, !.reusable = FALSE])
  BY <1>1 DEF Calm
<1> QED
  BY <1>1, <1>2, OneSession DEF Calmly

LEMMA Unchanged == ASSUME sess \in [Sides -> Sess], sess' = sess PROVE Calmly
BY DEF Calmly, Calm, Kept, Steady, Sess

\* The actions that leave the sessions calm.
LEMMA CalmSess ==
  ASSUME Types
  PROVE  /\ DialHello \/ DialAuth \/ DialRead \/ DialFails \/ ServerHello \/ ServerAuth
               \/ ServerFails \/ ServerFinish \/ ClientClose \/ ServerClose \/ Cut \/
               ServerSend \/ ServerSendFails \/ HandlerReturns \/ UNCHANGED vars =>
               Calmly
         /\ \A s \in Sides : CloseConn(s) \/ CloseJoins(s) => Calmly
         /\ \A p \in Readers : Wake(p) \/ CtxEnds(p) \/ Expire(p) => Calmly
         /\ \A k \in Calls : MarkExclusive(k) \/ SendWrites(k) \/ RecvValue(k) \/
               RecvFails(k) \/ RecvMarksBad(k) \/ SendStarts(k) \/ HalfClose(k) \/
               RecvStarts(k) \/ CloseCall(k) => Calmly
<1>0. sess \in [Sides -> Sess] /\ "C" \in Sides /\ "S" \in Sides
  BY DEF Types, Sides
<1>1. ASSUME NEW s \in Sides, CloseConn(s) PROVE Calmly
  BY <1>0, <1>1, ConnJoins DEF CloseConn
<1>2. ASSUME NEW s \in Sides, CloseJoins(s) PROVE Calmly
  BY <1>0, <1>2, Joined DEF CloseJoins
<1>3. ASSUME DialHello PROVE Calmly
  BY <1>0, <1>3, ReusableOff, Unchanged DEF DialHello, HelloWrites, Writes, WriteFails
<1>4. ASSUME DialAuth PROVE Calmly
  BY <1>0, <1>4, ReusableOff, Unchanged DEF DialAuth, HelloWrites, Writes, WriteFails
<1>5. ASSUME DialFails PROVE Calmly
  BY <1>0, <1>5, FlagsSet, Unchanged DEF DialFails, CloseFlags
<1>6. ASSUME ServerHello PROVE Calmly
  BY <1>0, <1>6, ReusableOff, Unchanged DEF ServerHello, Writes, WriteFails
<1>7. ASSUME ServerAuth PROVE Calmly
  BY <1>0, <1>7, ReusableOff, Unchanged DEF ServerAuth, Writes, WriteFails
<1>8. ASSUME ServerFails PROVE Calmly
  BY <1>0, <1>8, FlagsSet, Unchanged DEF ServerFails, CloseFlags
<1>9. ASSUME NEW k \in Calls, MarkExclusive(k) PROVE Calmly
  BY <1>0, <1>9, Excludes DEF MarkExclusive
<1>10. ASSUME NEW k \in Calls, SendWrites(k) PROVE Calmly
  BY <1>0, <1>10, ReusableOff, Unchanged DEF SendWrites, Writes, WriteFails
<1>11. ASSUME NEW k \in Calls, RecvMarksBad(k) PROVE Calmly
  BY <1>0, <1>11, ReusableOff DEF RecvMarksBad
<1>12. ASSUME ServerFinish PROVE Calmly
  BY <1>0, <1>12, ReusableOff, Unchanged DEF ServerFinish, Writes, WriteFails
<1>13. ASSUME ClientClose PROVE Calmly
  BY <1>0, <1>13, FlagsSet, Unchanged DEF ClientClose, CloseFlags
<1>14. ASSUME ServerClose PROVE Calmly
  BY <1>0, <1>14, ConnOff, FlagsSet, Unchanged DEF ServerClose, CloseFlags
<1>15. ASSUME ServerSend PROVE Calmly
  BY <1>0, <1>15, Unchanged DEF ServerSend, Writes
<1>16. ASSUME ServerSendFails PROVE Calmly
  BY <1>0, <1>16, ReusableOff DEF ServerSendFails, WriteFails
<1>17. /\ DialRead \/ Cut \/ HandlerReturns \/ UNCHANGED vars => Calmly
       /\ \A p \in Readers : Wake(p) \/ CtxEnds(p) \/ Expire(p) => Calmly
       /\ \A k \in Calls : RecvValue(k) \/ RecvFails(k) \/ SendStarts(k) \/
             HalfClose(k) \/ RecvStarts(k) \/ CloseCall(k) => Calmly
  <2>1. /\ DialRead \/ Cut \/ HandlerReturns \/ UNCHANGED vars => UNCHANGED sess
        /\ \A p \in Readers : Wake(p) \/ CtxEnds(p) \/ Expire(p) => UNCHANGED sess
        /\ \A k \in Calls : RecvValue(k) \/ RecvFails(k) \/ SendStarts(k) \/
              HalfClose(k) \/ RecvStarts(k) \/ CloseCall(k) => UNCHANGED sess
    BY DEF Wake, CtxEnds, DialRead, RecvValue, RecvFails, Cut, Expire, SendStarts,
        HalfClose, RecvStarts, CloseCall, HandlerReturns, reads, env, vars
  <2> QED
    BY <1>0, <2>1, Unchanged
<1> QED
  BY <1>1, <1>2, <1>3, <1>4, <1>5, <1>6, <1>7, <1>8, <1>9, <1>10, <1>11, <1>12, <1>13,
      <1>14, <1>15, <1>16, <1>17

\* The read loop's own end.
LEMMA LoopSess ==
  ASSUME Types, NEW s \in Sides, ReadLoopFails(s) \/ ReadLoopExits(s)
  PROVE  /\ (sess \in [Sides -> Sess])'
         /\ \A t \in Sides : Kept(sess[t], sess'[t])
         /\ \A t \in Sides : sess'[t].busy = sess[t].busy
         /\ \A t \in Sides \ {s} : sess'[t] = sess[t]
<1>0. sess \in [Sides -> Sess]
  BY DEF Types
<1>1. ASSUME ReadLoopFails(s) PROVE Kept(sess[s], sess'[s]) /\ sess'[s].busy = sess[s].busy
  BY <1>0, <1>1 DEF ReadLoopFails, Kept, Steady, Sess
<1>2. ASSUME ReadLoopExits(s) PROVE Kept(sess[s], sess'[s]) /\ sess'[s].busy = sess[s].busy
  BY <1>0, <1>2 DEF ReadLoopExits, Kept, Steady, Sess
<1>3. sess' = [sess EXCEPT ![s] = sess'[s]]
  BY <1>0 DEF ReadLoopFails, ReadLoopExits
<1> QED
  BY <1>0, <1>1, <1>2, <1>3, OneSession

\* The accept loop touches its own session only.
LEMMA ServeSess ==
  ASSUME Types, AcceptCall \/ AcceptFirst \/ AcceptOpen \/ ServerEndCall
  PROVE  /\ (sess \in [Sides -> Sess])'
         /\ \A t \in Sides : Kept(sess[t], sess'[t]) /\ sess'[t].loop = sess[t].loop
         /\ sess'["C"] = sess["C"]
<1>0. sess \in [Sides -> Sess] /\ "S" \in Sides /\ "C" \in Sides
  BY DEF Types, Sides
<1> DEFINE r == sess["S"]
           Goal(q) == Kept(r, q) /\ q.loop = r.loop
<1>1. \A x \in BOOLEAN : Goal(r) /\ Goal([r EXCEPT !.busy = x])
  BY <1>0 DEF Kept, Steady, Sess
<1>2. \A x \in BOOLEAN : Goal([r EXCEPT !.busy = FALSE, !.reusable = r.reusable /\ x])
  BY <1>0 DEF Kept, Steady, Sess
<1>22. \A x \in BOOLEAN :
          Goal([r EXCEPT !.exclusive = r.exclusive \/ x, !.reusable = r.reusable /\ ~x])
  <2> TAKE x \in BOOLEAN
  <2> DEFINE u == r.exclusive \/ x
             v == r.reusable /\ ~x
  <2>1. u \in BOOLEAN /\ v \in BOOLEAN /\ (v => r.reusable)
    BY <1>0 DEF Sess
  <2> HIDE DEF u, v
  <2>2. Goal([r EXCEPT !.exclusive = u, !.reusable = v])
    BY <1>0, <2>1 DEF Kept, Steady, Sess
  <2> QED
    BY <2>2 DEF u, v
<1>3. PICK q : sess' = [sess EXCEPT !["S"] = q] /\ Goal(q)
  <2>1. CASE AcceptCall
    <3>1. CASE sess' = sess
      BY <1>0, <1>1, <3>1
    <3>2. CASE sess' = [sess EXCEPT !["S"] = [r EXCEPT !.busy = TRUE]]
      BY <1>1, <3>2
    <3> QED
      BY <2>1, <3>1, <3>2 DEF AcceptCall
  <2>2. CASE AcceptFirst
    <3>1. CASE sess' = sess
      BY <1>0, <1>1, <3>1
    <3>2. CASE sess' = [sess EXCEPT !["S"] = [r EXCEPT !.busy = FALSE]]
      BY <1>1, <3>2
    <3> QED
      BY <2>2, <3>1, <3>2 DEF AcceptFirst
  <2>3. CASE AcceptOpen
    <3> DEFINE x == res[Srv].m # "ctx"
               y == Streaming(res[Srv].m)
    <3>0. x \in BOOLEAN /\ y \in BOOLEAN
      BY DEF Streaming
    <3>1. CASE sess' = [sess EXCEPT !["S"] = [r EXCEPT !.busy = FALSE, !.reusable = r.reusable
              /\ x]]
      BY <1>2, <3>0, <3>1
    <3>2. CASE sess' = [sess EXCEPT !["S"] =
                 [r EXCEPT !.exclusive = r.exclusive \/ y, !.reusable = r.reusable /\ ~y]]
      BY <1>22, <3>0, <3>2
    <3> QED
      BY <2>3, <3>1, <3>2 DEF AcceptOpen
  <2>4. CASE ServerEndCall
    <3> DEFINE x == ~r.exclusive /\ (srv.replySent \/ srv.finished)
    <3>1. Goal([r EXCEPT !.busy = FALSE, !.reusable = r.reusable /\ x])
      BY <1>2
    <3> QED
      BY <2>4, <3>1 DEF ServerEndCall
  <2> QED
    BY <2>1, <2>2, <2>3, <2>4
<1>4. Kept(sess["S"], q) /\ q.loop = sess["S"].loop
  BY <1>3
<1>5. sess'["S"] = q /\ sess'["C"] = sess["C"]
  BY <1>0, <1>3
<1>6. (sess \in [Sides -> Sess])' /\ \A t \in Sides : Kept(sess[t], sess'[t])
  BY <1>0, <1>3, <1>4, OneSession
<1> QED
  BY <1>4, <1>5, <1>6 DEF Sides

\* The client's slot: OpenCall takes it, EndCall gives it back and lets the
\* session be reused only behind a clean call.
LEMMA SlotSess ==
  ASSUME Types, NEW k \in Calls
  PROVE  /\ \A m \in Methods[k] : OpenCall(k, m) =>
              /\ (sess \in [Sides -> Sess])'
              /\ \A t \in Sides : Kept(sess[t], sess'[t]) /\ sess'[t].loop = sess[t].loop
              /\ sess'["C"].busy
         /\ EndCall(k) =>
              /\ (sess \in [Sides -> Sess])'
              /\ \A t \in Sides : Kept(sess[t], sess'[t]) /\ sess'[t].loop = sess[t].loop
              /\ sess'["C"].reusable => call[k].ending = "clean" /\ ~sess["C"].exclusive
<1>0. sess \in [Sides -> Sess] /\ "C" \in Sides
  BY DEF Types, Sides
<1> DEFINE r == sess["C"]
           x == call[k].ending = "clean" /\ ~r.exclusive
           q1 == [r EXCEPT !.busy = TRUE]
           q2 == [r EXCEPT !.busy = FALSE, !.reusable = r.reusable /\ x]
<1>1. Kept(r, q1) /\ q1.loop = r.loop /\ q1.busy
  BY <1>0 DEF Kept, Steady, Sess
<1>2. Kept(r, q2) /\ q2.loop = r.loop /\ (q2.reusable => x)
  BY <1>0 DEF Kept, Steady, Sess
<1>3. ASSUME NEW m \in Methods[k], OpenCall(k, m)
      PROVE  sess' = [sess EXCEPT !["C"] = q1]
  BY <1>3 DEF OpenCall
<1>4. ASSUME EndCall(k)
      PROVE  sess' = [sess EXCEPT !["C"] = q2]
  BY <1>4 DEF EndCall
<1> HIDE DEF q1, q2
<1> QED
  BY <1>0, <1>1, <1>2, <1>3, <1>4, OneSession

\* What the read loop and the readers do to a buffer.
LEMMA DataSess ==
  ASSUME Types, NEW s \in Sides, ReadLoopData(s) \/ ReadLoopPart(s)
  PROVE  /\ (sess \in [Sides -> Sess])'
         /\ \A t \in Sides : /\ Steady(sess[t], sess'[t]) /\ sess'[t].loop = sess[t].loop
                             /\ sess'[t].busy = sess[t].busy
         /\ \A t \in Sides \ {s} : sess'[t] = sess[t]
         /\ ReadLoopData(s) => sess'[s].buf = Append(Whole(sess[s].buf), Head(wire[s]))
         /\ ReadLoopPart(s) => sess'[s].buf = Append(sess[s].buf, Part)
<1>0. sess \in [Sides -> Sess] /\ sess[s] \in Sess /\ sess[s].buf \in Input /\ wire[s] \in Input
  BY DEF Types, Sess
<1>1. \A b \in Input : LET q == [sess[s] EXCEPT !.buf = b]
                       IN Steady(sess[s], q) /\ q.loop = sess[s].loop
                          /\ q.busy = sess[s].busy /\ q.buf = b
  BY <1>0 DEF Steady, Sess
<1>2. PICK b \in Input :
         /\ sess' = [sess EXCEPT ![s] = [sess[s] EXCEPT !.buf = b]]
         /\ ReadLoopData(s) => b = Append(Whole(sess[s].buf), Head(wire[s]))
         /\ ReadLoopPart(s) => b = Append(sess[s].buf, Part)
  <2>1. CASE ReadLoopData(s) /\ ~ReadLoopPart(s)
    BY <1>0, <2>1, InputRead, InputGrows DEF ReadLoopData
  <2>2. CASE ReadLoopPart(s) /\ ~ReadLoopData(s)
    BY <1>0, <2>2, InputGrows DEF ReadLoopPart
  <2>3. CASE ReadLoopPart(s) /\ ReadLoopData(s)
    <3>1. wire[s] # <<>> /\ Tail(wire[s]) = wire[s]
      BY <1>0, <2>3 DEF ReadLoopPart, ReadLoopData, Types
    <3> QED
      BY <1>0, <3>1, TailShorter
  <2> QED
    BY <2>1, <2>2, <2>3
<1>3. sess'[s] = [sess[s] EXCEPT !.buf = b] /\ \A t \in Sides \ {s} : sess'[t] = sess[t]
  BY <1>0, <1>2
<1>4. \A t \in Sides : Steady(sess[t], sess[t])
  BY <1>0 DEF Steady, Sess
<1>5. (sess \in [Sides -> Sess])'
  BY <1>0, <1>1, <1>2 DEF Steady
<1> QED
  BY <1>1, <1>2, <1>3, <1>4, <1>5

\* A reader parks, learns how its wait ends, or takes the first value.
LEMMA LookSess ==
  ASSUME Types, NEW p \in Readers, Look(p)
  PROVE  LET s == SideOf(p)
             r == LookResult(p)
         IN /\ (sess \in [Sides -> Sess])'
            /\ \A t \in Sides : /\ Steady(sess[t], sess'[t]) /\ sess'[t].loop = sess[t].loop
                                /\ sess'[t].busy = sess[t].busy
            /\ \A t \in Sides \ {s} : sess'[t] = sess[t]
            /\ \/ r.m = "wait" /\ rd' = [rd EXCEPT ![p] = "park"] /\ res' = res /\ sess' = sess
               \/ /\ r \in {Outcome("byte"), Outcome("bad"), Outcome("err")}
                  /\ r = Outcome("byte") => at[p] = "first"
                  /\ rd' = [rd EXCEPT ![p] = "off"] /\ res' = [res EXCEPT ![p] = r]
                  /\ sess'[s].buf = sess[s].buf
               \/ /\ sess[s].buf # <<>> /\ r = Head(sess[s].buf) /\ r \in Values
                  /\ rd' = [rd EXCEPT ![p] = "off"] /\ res' = [res EXCEPT ![p] = r]
                  /\ sess'[s].buf = Tail(sess[s].buf)
<1> DEFINE s == SideOf(p)
           r == LookResult(p)
<1>0. s \in Sides /\ sess \in [Sides -> Sess] /\ sess[s] \in Sess /\ sess[s].buf \in Input
  BY DEF Types, Sess, SideOf, Sides
<1>1. \/ r = Outcome("wait")
      \/ r \in {Outcome("byte"), Outcome("bad"), Outcome("err")}
             /\ (r = Outcome("byte") => at[p] = "first")
      \/ sess[s].buf # <<>> /\ r = Head(sess[s].buf) /\ r \in Values
  <2> DEFINE b == sess[s].buf
             gone == sess[s].readErr \/ sess[s].closed
  <2>0. \A o \in {"bad", "err", "wait"} : Outcome(o) # Outcome("byte")
    BY DEF Outcome
  <2>1. CASE b # <<>> /\ p = Srv /\ at[p] = "first"
    BY <2>1 DEF LookResult
  <2>2. CASE b # <<>> /\ ~(p = Srv /\ at[p] = "first") /\ Head(b) = Junk
    BY <2>0, <2>2, Blanks DEF LookResult
  <2>3. CASE b # <<>> /\ ~(p = Srv /\ at[p] = "first") /\ Head(b) \notin {Junk, Part}
    BY <1>0, <2>3, InputRead DEF LookResult
  <2>4. CASE (b = <<>> \/ (~(p = Srv /\ at[p] = "first") /\ Head(b) = Part)) /\ gone
    BY <2>0, <2>4, Blanks DEF LookResult
  <2>5. CASE (b = <<>> \/ (~(p = Srv /\ at[p] = "first") /\ Head(b) = Part)) /\ ~gone
    BY <2>0, <2>5, Blanks DEF LookResult
  <2> QED
    BY <2>1, <2>2, <2>3, <2>4, <2>5
<1>2. \A b \in Input : \A x \in BOOLEAN :
         LET q == [sess[s] EXCEPT !.reusable = sess[s].reusable /\ x, !.buf = b]
         IN Steady(sess[s], q) /\ q.loop = sess[s].loop /\ q.busy = sess[s].busy /\ q.buf = b
  BY <1>0 DEF Steady, Sess
<1>3. \A t \in Sides : Steady(sess[t], sess[t])
  BY <1>0 DEF Steady, Sess
<1>4. CASE r = Outcome("wait")
  <2>1. r.m = "wait" /\ rd' = [rd EXCEPT ![p] = "park"] /\ res' = res /\ sess' = sess
    BY <1>4 DEF Look, Outcome
  <2> QED
    BY <1>0, <1>3, <2>1
<1>5. CASE r # Outcome("wait")
  <2>0. r.m # "wait"
    BY <1>1, <1>5 DEF Outcome, Values, Words, Commands
  <2>1. PICK b \in Input :
           /\ sess' = [sess EXCEPT ![s] =
                  [sess[s] EXCEPT !.reusable = sess[s].reusable /\ r.m # "bad", !.buf = b]]
           /\ IF r.m \in {"bad", "byte", "err"} THEN b = sess[s].buf
              ELSE b = Tail(sess[s].buf)
    <3>1. r.m \notin {"bad", "byte", "err"} => sess[s].buf # <<>>
      BY <1>1, <1>5 DEF Outcome
    <3>2. CASE r.m \in {"bad", "byte", "err"}
      BY <1>0, <2>0, <3>2 DEF Look
    <3>3. CASE r.m \notin {"bad", "byte", "err"}
      BY <1>0, <2>0, <3>1, <3>3, InputRead DEF Look
    <3> QED
      BY <3>2, <3>3
  <2>2. rd' = [rd EXCEPT ![p] = "off"] /\ res' = [res EXCEPT ![p] = r]
    BY <2>0 DEF Look
  <2> DEFINE q == [sess[s] EXCEPT !.reusable = sess[s].reusable /\ r.m # "bad", !.buf = b]
  <2>3. Steady(sess[s], q) /\ q.loop = sess[s].loop /\ q.busy = sess[s].busy /\ q.buf = b
    BY <1>2, <2>1
  <2>4. sess'[s] = q /\ \A t \in Sides \ {s} : sess'[t] = sess[t]
    BY <1>0, <2>1
  <2>5. (sess \in [Sides -> Sess])'
    BY <1>0, <2>1, <2>3 DEF Steady
  <2>6. \/ /\ r.m \in {"bad", "byte", "err"} /\ r \in {Outcome("byte"), Outcome("bad"),
                  Outcome("err")}
           /\ r = Outcome("byte") => at[p] = "first"

        \/ r.m \notin {"bad", "byte", "err"} /\ sess[s].buf # <<>> /\ r = Head(sess[s].buf)
               /\ r \in Values
    BY <1>1, <1>5 DEF Outcome, Values, Words, Commands
  <2> HIDE DEF q
  <2>7. sess'[s].buf = b
    BY <2>3, <2>4
  <2> HIDE DEF s, r
  <2>8. \A t \in Sides : /\ Steady(sess[t], sess'[t]) /\ sess'[t].loop = sess[t].loop
                         /\ sess'[t].busy = sess[t].busy
    BY <1>3, <2>3, <2>4
  <2> QED
    BY <2>1, <2>2, <2>4, <2>5, <2>6, <2>7, <2>8 DEF s, r
<1> QED
  BY <1>4, <1>5

(***************************************************************************)
(* Where the goroutines are and what they wait for.                        *)

\* What the waits keep: their types and their places.
ReadsOk ==
  /\ DOMAIN at = Readers /\ \A p \in Readers : at[p] \in Places(p)
  /\ rd \in [Readers -> {"off", "look", "park"}]
  /\ woken \in [Readers -> BOOLEAN]
  /\ res \in [Readers -> Answers \cup {None}]
  /\ Waits

\* The answers of a wait, one by one.
LEMMA AnswersOf ==
  /\ Values \subseteq Answers
  /\ {Outcome("byte"), Outcome("bad"), Outcome("err"), Outcome("ctx")} \subseteq Answers
  /\ \A v \in Answers : v \in Values \/ v = Outcome("byte") \/ IsError(v)
  /\ Outcome("byte") \notin Values /\ Outcome("ctx") # Outcome("byte")
BY DEF Answers, Failures, Outcome, IsError, Values, Words, Commands

\* Only waiting places wait, and a wait over has its answer.
LEMMA ReadsStep == ASSUME Types, Waits, [Next]_vars PROVE ReadsOk'
<1>0. ReadsOk
  BY DEF Types, ReadsOk
<1>00. /\ Readers = Calls \cup {Dial, Srv} /\ Dial \notin Calls /\ Srv \notin Calls
              /\ Dial # Srv
  BY Numbers
<1>1. /\ Cut \/ ServerSend \/ UNCHANGED vars => ReadsOk'
      /\ \A s \in Sides : ReadLoopExits(s) \/ CloseConn(s) \/ CloseJoins(s) => ReadsOk'
      /\ \A p \in Readers : Expire(p) => ReadsOk'
      /\ \A k \in Calls : EndCall(k) \/ HalfClose(k) \/ CloseCall(k) => ReadsOk'
  <2>1. /\ Cut \/ ServerSend \/ UNCHANGED vars => UNCHANGED <<at, rd, woken, res>>
        /\ \A s \in Sides : ReadLoopExits(s) \/ CloseConn(s) \/ CloseJoins(s) =>
              UNCHANGED <<at, rd, woken, res>>
        /\ \A p \in Readers : Expire(p) => UNCHANGED <<at, rd, woken, res>>
        /\ \A k \in Calls : EndCall(k) \/ HalfClose(k) \/ CloseCall(k) => UNCHANGED
              <<at, rd, woken, res>>
    BY DEF ReadLoopExits, CloseConn, CloseJoins, EndCall, Cut, Expire, HalfClose,
        CloseCall, ServerSend, reads, env, vars
  <2> QED
    BY <1>0, <2>1 DEF ReadsOk, Waits, Waiting
<1>2. ASSUME NEW s \in Sides, ReadLoopData(s) PROVE ReadsOk'
  BY <1>0, <1>00, <1>2 DEF ReadLoopData, Broadcast, ReadsOk, Waits, Waiting
<1>3. ASSUME NEW s \in Sides, ReadLoopPart(s) PROVE ReadsOk'
  BY <1>0, <1>00, <1>3 DEF ReadLoopPart, Broadcast, ReadsOk, Waits, Waiting
<1>4. ASSUME NEW s \in Sides, ReadLoopFails(s) PROVE ReadsOk'
  BY <1>0, <1>00, <1>4 DEF ReadLoopFails, Broadcast, ReadsOk, Waits, Waiting
<1>5. ASSUME NEW p \in Readers, Look(p) PROVE ReadsOk'
  <2> DEFINE r == LookResult(p)
  <2>1. UNCHANGED <<at, woken>> /\ rd[p] = "look"
    BY <1>5 DEF Look
  <2>2. CASE rd' = [rd EXCEPT ![p] = "park"] /\ res' = res
    BY <1>0, <2>1, <2>2 DEF ReadsOk, Waits, Waiting
  <2>3. CASE /\ r \in Answers /\ rd' = [rd EXCEPT ![p] = "off"] /\ res' = [res EXCEPT ![p] = r]
             /\ r = Outcome("byte") => at[p] = "first"
    BY <1>0, <2>1, <2>3 DEF ReadsOk, Waits, Waiting
  <2> QED
    BY <1>5, <2>2, <2>3, LookSess, AnswersOf
<1>6. ASSUME NEW p \in Readers, Wake(p) PROVE ReadsOk'
  BY <1>0, <1>00, <1>6 DEF Wake, ReadsOk, Waits, Waiting, Places
<1>7. ASSUME NEW p \in Readers, CtxEnds(p) PROVE ReadsOk'
  BY <1>0, <1>00, <1>7, AnswersOf DEF CtxEnds, ReadsOk, Waits, Waiting
<1>8. CASE DialHello
  BY <1>0, <1>00, <1>8 DEF DialHello, HelloWrites, Writes, WriteFails, Await, Goto, Val,
      ReadsOk, Waits, Waiting, Places
<1>9. CASE DialAuth
  BY <1>0, <1>00, <1>9 DEF DialAuth, HelloWrites, Writes, WriteFails, Await, Goto, Val,
      ReadsOk, Waits, Waiting, Places
<1>10. CASE DialRead
  BY <1>0, <1>00, <1>10 DEF DialRead, Returned, Goto, IsError, ReadsOk, Waits, Waiting,
      Places
<1>11. CASE DialFails
  BY <1>0, <1>00, <1>11 DEF DialFails, CloseFlags, Broadcast, ReadsOk, Waits, Waiting,
      Places
<1>12. CASE ServerHello
  BY <1>0, <1>00, <1>12 DEF ServerHello, Returned, IsError, Writes, WriteFails, Await,
      Goto, Val, ReadsOk, Waits, Waiting, Places
<1>13. CASE ServerAuth
  BY <1>0, <1>00, <1>13 DEF ServerAuth, Returned, IsError, Writes, WriteFails, Goto,
      Val, ReadsOk, Waits, Waiting, Places
<1>14. CASE ServerFails
  BY <1>0, <1>00, <1>14 DEF ServerFails, CloseFlags, Broadcast, ReadsOk, Waits, Waiting,
      Places
<1>15. ASSUME NEW k \in Calls, MarkExclusive(k) PROVE ReadsOk'
  BY <1>0, <1>00, <1>15 DEF MarkExclusive, reads, ReadsOk, Waits, Waiting, Places
<1>16. ASSUME NEW k \in Calls, SendWrites(k) PROVE ReadsOk'
  BY <1>0, <1>00, <1>16 DEF SendWrites, reads, ReadsOk, Waits, Waiting, Places
<1>17. ASSUME NEW k \in Calls, RecvValue(k) PROVE ReadsOk'
  BY <1>0, <1>00, <1>17 DEF RecvValue, Returned, IsError, Goto, Streaming, ReadsOk,
      Waits, Waiting, Places
<1>18. ASSUME NEW k \in Calls, RecvFails(k) PROVE ReadsOk'
  BY <1>0, <1>00, <1>18 DEF RecvFails, Returned, IsError, Goto, ReadsOk, Waits, Waiting,
      Places
<1>19. ASSUME NEW k \in Calls, RecvMarksBad(k) PROVE ReadsOk'
  BY <1>0, <1>00, <1>19 DEF RecvMarksBad, Goto, ReadsOk, Waits, Waiting, Places
<1>20. CASE AcceptCall
  BY <1>0, <1>00, <1>20 DEF AcceptCall, Goto, Await, ReadsOk, Waits, Waiting, Places
<1>21. CASE AcceptFirst
  BY <1>0, <1>00, <1>21 DEF AcceptFirst, Returned, Goto, Await, ReadsOk, Waits, Waiting,
      Places
<1>22. CASE AcceptOpen
  BY <1>0, <1>00, <1>22 DEF AcceptOpen, Returned, IsError, Goto, NoSrv, Streaming,
      Known, ReadsOk, Waits, Waiting, Places
<1>23. CASE ServerFinish
  BY <1>0, <1>00, <1>23 DEF ServerFinish, reads, ReadsOk, Waits, Waiting, Places
<1>24. CASE ServerEndCall
  BY <1>0, <1>00, <1>24 DEF ServerEndCall, Goto, NoSrv, ReadsOk, Waits, Waiting, Places
<1>25. CASE ClientClose
  BY <1>0, <1>00, <1>25 DEF ClientClose, CloseFlags, Broadcast, Event, ReadsOk, Waits,
      Waiting, Places
<1>26. CASE ServerClose
  <2>1. UNCHANGED <<at, rd, res>> /\ (UNCHANGED woken \/ Broadcast("S"))
    BY <1>26 DEF ServerClose, CloseFlags
  <2> QED
    BY <1>0, <2>1 DEF Broadcast, ReadsOk, Waits, Waiting
<1>27. ASSUME NEW k \in Calls, NEW m \in Methods[k], OpenCall(k, m) PROVE ReadsOk'
  BY <1>0, <1>00, <1>27 DEF OpenCall, reads, ReadsOk, Waits, Waiting, Places
<1>28. ASSUME NEW k \in Calls, SendStarts(k) PROVE ReadsOk'
  BY <1>0, <1>00, <1>28 DEF SendStarts, reads, ReadsOk, Waits, Waiting, Places
<1>29. ASSUME NEW k \in Calls, RecvStarts(k) PROVE ReadsOk'
  BY <1>0, <1>00, <1>29 DEF RecvStarts, Await, ReadsOk, Waits, Waiting, Places
<1>30. CASE ServerSendFails
  BY <1>0, <1>00, <1>30 DEF ServerSendFails, reads, ReadsOk, Waits, Waiting, Places
<1>31. CASE HandlerReturns
  BY <1>0, <1>00, <1>31 DEF HandlerReturns, Goto, Streaming, ReadsOk, Waits, Waiting,
      Places
<1> QED
  BY <1>1, <1>2, <1>3, <1>4, <1>5, <1>6, <1>7, <1>8, <1>9, <1>10, <1>11, <1>12, <1>13,
      <1>14, <1>15, <1>16, <1>17, <1>18, <1>19, <1>20, <1>21, <1>22, <1>23, <1>24,
      <1>25, <1>26, <1>27, <1>28, <1>29, <1>30, <1>31 DEF Next, Internal, External

(***************************************************************************)
(* The types of the rest.                                                  *)

\* Writing values keeps the wire's type.
LEMMA Writing ==
  ASSUME wire \in [Sides -> Input], NEW s \in Sides, NEW v \in Values
  PROVE  /\ Writes(s, <<v>>) => (wire \in [Sides -> Input])'
         /\ Writes(s, <<v>> \o <<>>) => (wire \in [Sides -> Input])'
         /\ Writes(s, <<v>> \o <<Junk>>) => (wire \in [Sides -> Input])'
         /\ \A w \in Values : Writes(s, <<v>> \o <<w>>) => (wire \in [Sides -> Input])'
<1>1. Peer(s) \in Sides
  BY DEF Peer, Sides
<1>2. wire[Peer(s)] \in Input
  BY <1>1
<1>3. /\ wire[Peer(s)] \o <<v>> \in Input
      /\ wire[Peer(s)] \o (<<v>> \o <<>>) \in Input
      /\ wire[Peer(s)] \o (<<v>> \o <<Junk>>) \in Input
      /\ \A w \in Values : wire[Peer(s)] \o (<<v>> \o <<w>>) \in Input
  BY <1>2, InputGrows
<1> QED
  BY <1>1, <1>3 DEF Writes

\* What the two sides write are values.
LEMMA Written ==
  /\ \A k \in Calls : \A m \in Commands : Val(m, k) \in Values
  /\ \A m \in {"HELLO", "AUTH", "OK", "ERR"} : Val(m, None) \in Values
  /\ \A m \in {"ERR", "reply", "push"}, x \in Calls \cup {None} : Val(m, x) \in Values
BY DEF Val, Values, Words, Commands

\* The wire keeps its type ...
LEMMA WireStep == ASSUME Types, CallsOk, [Next]_vars PROVE (wire \in [Sides -> Input])'
<1>0. /\ wire \in [Sides -> Input] /\ "C" \in Sides /\ "S" \in Sides
      /\ call \in [Calls -> CallType] /\ srv.k \in Calls \cup {None}
      /\ \A k \in Calls : call[k].m \in Commands \cup {None}
  BY DEF Types, Sides, CallType, SrvType
<1>1. /\ DialRead \/ DialFails \/ ServerFails \/ AcceptCall \/ AcceptFirst \/
            AcceptOpen \/ ServerEndCall \/ ClientClose \/ ServerClose \/ Cut \/
            ServerSendFails \/ HandlerReturns \/ UNCHANGED vars => (wire \in [Sides ->
            Input])'
      /\ \A s \in Sides : ReadLoopPart(s) \/ ReadLoopFails(s) \/ ReadLoopExits(s) \/
            CloseConn(s) \/ CloseJoins(s) => (wire \in [Sides -> Input])'
      /\ \A p \in Readers : Look(p) \/ Wake(p) \/ CtxEnds(p) \/ Expire(p) => (wire \in
            [Sides -> Input])'
      /\ \A k \in Calls : MarkExclusive(k) \/ RecvValue(k) \/ RecvFails(k) \/
            RecvMarksBad(k) \/ EndCall(k) \/ SendStarts(k) \/ HalfClose(k) \/
            RecvStarts(k) \/ CloseCall(k) => (wire \in [Sides -> Input])'
      /\ \A k \in Calls : \A m \in Methods[k] : OpenCall(k, m) => (wire \in [Sides ->
            Input])'
  <2>1. /\ DialRead \/ DialFails \/ ServerFails \/ AcceptCall \/ AcceptFirst \/
              AcceptOpen \/ ServerEndCall \/ ClientClose \/ ServerClose \/ Cut \/
              ServerSendFails \/ HandlerReturns \/ UNCHANGED vars => UNCHANGED wire
        /\ \A s \in Sides : ReadLoopPart(s) \/ ReadLoopFails(s) \/ ReadLoopExits(s) \/
              CloseConn(s) \/ CloseJoins(s) => UNCHANGED wire
        /\ \A p \in Readers : Look(p) \/ Wake(p) \/ CtxEnds(p) \/ Expire(p) =>
              UNCHANGED wire
        /\ \A k \in Calls : MarkExclusive(k) \/ RecvValue(k) \/ RecvFails(k) \/
              RecvMarksBad(k) \/ EndCall(k) \/ SendStarts(k) \/ HalfClose(k) \/
              RecvStarts(k) \/ CloseCall(k) => UNCHANGED wire
        /\ \A k \in Calls : \A m \in Methods[k] : OpenCall(k, m) => UNCHANGED wire
    BY DEF ReadLoopPart, ReadLoopFails, ReadLoopExits, CloseConn, CloseJoins, Look,
        Wake, CtxEnds, DialRead, DialFails, ServerFails, MarkExclusive, RecvValue,
        RecvFails, RecvMarksBad, EndCall, AcceptCall, AcceptFirst, AcceptOpen,
        ServerEndCall, ClientClose, ServerClose, Cut, Expire, OpenCall, SendStarts,
        HalfClose, RecvStarts, CloseCall, ServerSendFails, HandlerReturns, reads, env,
        WriteFails, vars
  <2> QED
    BY <1>0, <2>1
<1>2. ASSUME NEW s \in Sides, ReadLoopData(s) PROVE (wire \in [Sides -> Input])'
  BY <1>0, <1>2, InputRead DEF ReadLoopData
<1>3. ASSUME DialHello PROVE (wire \in [Sides -> Input])'
  BY <1>0, <1>3, Writing, Written DEF DialHello, HelloWrites, WriteFails
<1>4. ASSUME DialAuth PROVE (wire \in [Sides -> Input])'
  BY <1>0, <1>4, Writing, Written DEF DialAuth, HelloWrites, WriteFails
<1>5. ASSUME ServerHello PROVE (wire \in [Sides -> Input])'
  BY <1>0, <1>5, Writing, Written DEF ServerHello, WriteFails
<1>6. ASSUME ServerAuth PROVE (wire \in [Sides -> Input])'
  <2>1. \A m \in {"OK", "ERR"} : Writes("S", <<Val(m, None)>>) => (wire \in [Sides -> Input])'
    BY <1>0, Writing, Written
  <2>2. CASE pw["C"] = pw["S"]
    BY <1>0, <1>6, <2>1, <2>2 DEF ServerAuth, WriteFails
  <2>3. CASE pw["C"] # pw["S"]
    BY <1>0, <1>6, <2>1, <2>3 DEF ServerAuth, WriteFails
  <2> QED
    BY <2>2, <2>3
<1>7. ASSUME NEW k \in Calls, SendWrites(k) PROVE (wire \in [Sides -> Input])'
  <2>1. CASE wire' = wire
    BY <1>0, <2>1
  <2>2. CASE Writes("C", <<Val(call[k].m, k)>>)
    <3>1. call[k].m \in Commands
      BY <1>0, <1>7 DEF SendWrites, CallsOk, OwnOk, Opened
    <3> QED
      BY <1>0, <2>2, <3>1, Writing, Written
  <2> QED
    BY <1>7, <2>1, <2>2 DEF SendWrites, WriteFails
<1>8. ASSUME ServerFinish PROVE (wire \in [Sides -> Input])'
  <2>1. CASE wire' = wire
    BY <1>0, <2>1
  <2>2. ASSUME NEW rest \in Rests, Writes("S", <<Val("ERR", srv.k)>> \o rest)
        PROVE  (wire \in [Sides -> Input])'
    BY <1>0, <2>2, Writing, Written DEF Rests
  <2> QED
    BY <1>8, <2>1, <2>2 DEF ServerFinish, WriteFails
<1>9. ASSUME ServerSend PROVE (wire \in [Sides -> Input])'
  <2>1. \A m \in {"push", "reply"} : Writes("S", <<Val(m,
            srv.k)>>) => (wire \in [Sides -> Input])'
    BY <1>0, Writing, Written
  <2>2. CASE Streaming(srv.m)
    BY <1>0, <1>9, <2>1, <2>2 DEF ServerSend
  <2>3. CASE ~Streaming(srv.m)
    BY <1>0, <1>9, <2>1, <2>3 DEF ServerSend
  <2> QED
    BY <2>2, <2>3
<1> QED
  BY <1>1, <1>2, <1>3, <1>4, <1>5, <1>6, <1>7, <1>8, <1>9 DEF Next, Internal, External

\* ... the calls theirs ...
LEMMA CallStep == ASSUME Types, [Next]_vars PROVE (call \in [Calls -> CallType])'
<1>0. call \in [Calls -> CallType]
  BY DEF Types
<1>1. /\ DialHello \/ DialAuth \/ DialRead \/ DialFails \/ ServerHello \/ ServerAuth \/
            ServerFails \/ AcceptCall \/ AcceptFirst \/ AcceptOpen \/ ServerFinish \/
            ServerEndCall \/ ClientClose \/ ServerClose \/ Cut \/ ServerSend \/
            ServerSendFails \/ HandlerReturns \/ UNCHANGED vars => (call \in [Calls ->
            CallType])'
      /\ \A s \in Sides : ReadLoopData(s) \/ ReadLoopPart(s) \/ ReadLoopFails(s) \/
            ReadLoopExits(s) \/ CloseConn(s) \/ CloseJoins(s) => (call \in [Calls ->
            CallType])'
      /\ \A p \in Readers : Look(p) \/ Wake(p) \/ CtxEnds(p) \/ Expire(p) => (call \in
            [Calls -> CallType])'
      /\ \A k \in Calls : MarkExclusive(k) \/ RecvMarksBad(k) \/ SendStarts(k) \/
            RecvStarts(k) => (call \in [Calls -> CallType])'
  <2>1. /\ DialHello \/ DialAuth \/ DialRead \/ DialFails \/ ServerHello \/ ServerAuth
              \/ ServerFails \/ AcceptCall \/ AcceptFirst \/ AcceptOpen \/ ServerFinish
              \/ ServerEndCall \/ ClientClose \/ ServerClose \/ Cut \/ ServerSend \/
              ServerSendFails \/ HandlerReturns \/ UNCHANGED vars => UNCHANGED call
        /\ \A s \in Sides : ReadLoopData(s) \/ ReadLoopPart(s) \/ ReadLoopFails(s) \/
              ReadLoopExits(s) \/ CloseConn(s) \/ CloseJoins(s) => UNCHANGED call
        /\ \A p \in Readers : Look(p) \/ Wake(p) \/ CtxEnds(p) \/ Expire(p) =>
              UNCHANGED call
        /\ \A k \in Calls : MarkExclusive(k) \/ RecvMarksBad(k) \/ SendStarts(k) \/
              RecvStarts(k) => UNCHANGED call
    BY DEF ReadLoopData, ReadLoopPart, ReadLoopFails, ReadLoopExits, CloseConn,
        CloseJoins, Look, Wake, CtxEnds, DialHello, DialAuth, DialRead, DialFails,
        ServerHello, ServerAuth, ServerFails, MarkExclusive, RecvMarksBad, AcceptCall,
        AcceptFirst, AcceptOpen, ServerFinish, ServerEndCall, ClientClose, ServerClose,
        Cut, Expire, SendStarts, RecvStarts, ServerSend, ServerSendFails,
        HandlerReturns, reads, env, vars
  <2> QED
    BY <1>0, <2>1
<1>2. ASSUME NEW k \in Calls, SendWrites(k) PROVE (call \in [Calls -> CallType])'
  BY <1>0, <1>2 DEF SendWrites, WriteFails, CallType
<1>3. ASSUME NEW k \in Calls, RecvValue(k) PROVE (call \in [Calls -> CallType])'
  BY <1>0, <1>3 DEF RecvValue, Returned, IsError, Goto, Streaming, CallType
<1>4. ASSUME NEW k \in Calls, RecvFails(k) PROVE (call \in [Calls -> CallType])'
  BY <1>0, <1>4 DEF RecvFails, Returned, IsError, Goto, CallType
<1>5. ASSUME NEW k \in Calls, EndCall(k) PROVE (call \in [Calls -> CallType])'
  BY <1>0, <1>5 DEF EndCall, CallType
<1>6. ASSUME NEW k \in Calls, NEW m \in Methods[k], OpenCall(k, m)
          PROVE (call \in [Calls -> CallType])'
  BY <1>0, <1>6, RespAssumption DEF OpenCall, CallType
<1>7. ASSUME NEW k \in Calls, HalfClose(k) PROVE (call \in [Calls -> CallType])'
  BY <1>0, <1>7 DEF HalfClose, CallType
<1>8. ASSUME NEW k \in Calls, CloseCall(k) PROVE (call \in [Calls -> CallType])'
  BY <1>0, <1>8 DEF CloseCall, Poison, Streaming, CallType
<1> QED
  BY <1>1, <1>2, <1>3, <1>4, <1>5, <1>6, <1>7, <1>8 DEF Next, Internal, External

\* ... the server's call its own, and it is there exactly while it is served
\* ...
LEMMA SrvStep == ASSUME Types, Waits, Serves, [Next]_vars PROVE (srv \in SrvType /\ Serves)'
<1>0. /\ srv \in SrvType /\ Serves /\ DOMAIN at = Readers
      /\ Srv \in Readers /\ Dial \in Readers /\ Srv # Dial /\ Srv \notin Calls
      /\ res[Srv] \in Answers \cup {None}
  BY Numbers DEF Types
<1>1. /\ DialHello \/ DialAuth \/ DialRead \/ DialFails \/ ClientClose \/ ServerClose
            \/ Cut \/ UNCHANGED vars => (srv \in SrvType /\ Serves)'
      /\ \A s \in Sides : ReadLoopData(s) \/ ReadLoopPart(s) \/ ReadLoopFails(s) \/
            ReadLoopExits(s) \/ CloseConn(s) \/ CloseJoins(s) => (srv \in SrvType /\
            Serves)'
      /\ \A p \in Readers : Look(p) \/ Wake(p) \/ CtxEnds(p) \/ Expire(p) => (srv \in
            SrvType /\ Serves)'
      /\ \A k \in Calls : MarkExclusive(k) \/ SendWrites(k) \/ RecvValue(k) \/
            RecvFails(k) \/ RecvMarksBad(k) \/ EndCall(k) \/ SendStarts(k) \/
            HalfClose(k) \/ RecvStarts(k) \/ CloseCall(k) => (srv \in SrvType /\
            Serves)'
      /\ \A k \in Calls : \A m \in Methods[k] : OpenCall(k, m) => (srv \in SrvType /\
            Serves)'
  <2>1. /\ DialHello \/ DialAuth \/ DialRead \/ DialFails \/ ClientClose \/ ServerClose
              \/ Cut \/ UNCHANGED vars => UNCHANGED <<srv, at[Srv]>>
        /\ \A s \in Sides : ReadLoopData(s) \/ ReadLoopPart(s) \/ ReadLoopFails(s) \/
              ReadLoopExits(s) \/ CloseConn(s) \/ CloseJoins(s) => UNCHANGED <<srv,
              at[Srv]>>
        /\ \A p \in Readers : Look(p) \/ Wake(p) \/ CtxEnds(p) \/ Expire(p) =>
              UNCHANGED <<srv, at[Srv]>>
        /\ \A k \in Calls : MarkExclusive(k) \/ SendWrites(k) \/ RecvValue(k) \/
              RecvFails(k) \/ RecvMarksBad(k) \/ EndCall(k) \/ SendStarts(k) \/
              HalfClose(k) \/ RecvStarts(k) \/ CloseCall(k) => UNCHANGED <<srv,
              at[Srv]>>
        /\ \A k \in Calls : \A m \in Methods[k] : OpenCall(k, m) => UNCHANGED <<srv,
              at[Srv]>>
    BY <1>0 DEF ReadLoopData, ReadLoopPart, ReadLoopFails, ReadLoopExits, CloseConn,
        CloseJoins, Look, Wake, CtxEnds, DialHello, DialAuth, DialRead, DialFails,
        MarkExclusive, SendWrites, RecvValue, RecvFails, RecvMarksBad, EndCall,
        ClientClose, ServerClose, Cut, Expire, OpenCall, SendStarts, HalfClose,
        RecvStarts, CloseCall, reads, env, Goto, Await, HelloWrites, vars
  <2> QED
    BY <1>0, <2>1 DEF Serves, Serving
<1>2. ASSUME ServerHello PROVE (srv \in SrvType /\ Serves)'
  BY <1>0, <1>2 DEF ServerHello, Returned, IsError, Writes, WriteFails, Await, Goto,
      Val, Serves, Serving, SrvType
<1>3. ASSUME ServerAuth PROVE (srv \in SrvType /\ Serves)'
  BY <1>0, <1>3 DEF ServerAuth, Returned, IsError, Writes, WriteFails, Goto, Val,
      Serves, Serving, SrvType
<1>4. ASSUME ServerFails PROVE (srv \in SrvType /\ Serves)'
  BY <1>0, <1>4 DEF ServerFails, CloseFlags, Broadcast, Serves, Serving, SrvType
<1>5. ASSUME AcceptCall PROVE (srv \in SrvType /\ Serves)'
  BY <1>0, <1>5 DEF AcceptCall, Goto, Await, Serves, Serving, SrvType
<1>6. ASSUME AcceptFirst PROVE (srv \in SrvType /\ Serves)'
  BY <1>0, <1>6 DEF AcceptFirst, Returned, Goto, Await, Serves, Serving, SrvType
<1>7. ASSUME AcceptOpen PROVE (srv \in SrvType /\ Serves)'
  <2>1. CASE IsError(res[Srv])
    BY <1>0, <1>7, <2>1 DEF AcceptOpen, Returned, Goto, Serves, Serving
  <2>2. CASE ~IsError(res[Srv])
    <3>1. res[Srv] \in Values
      BY <1>7, <2>2, AnswersOf, Numbers DEF AcceptOpen, Returned, Waits, Waiting
    <3>2. /\ srv' = [m |-> res[Srv].m, k |-> res[Srv].k, replySent |-> FALSE,
                 finished |-> FALSE, pushes |-> 0]
          /\ at'[Srv] \in {"handler", "reject"}
      BY <1>0, <1>7, <2>2 DEF AcceptOpen, Goto, NoSrv
    <3> QED
      BY <3>1, <3>2 DEF Serves, Serving, SrvType, Values
  <2> QED
    BY <2>1, <2>2
<1>8. ASSUME ServerFinish PROVE (srv \in SrvType /\ Serves)'
  BY <1>0, <1>8 DEF ServerFinish, Writes, WriteFails, Val, Serves, Serving, SrvType
<1>9. ASSUME ServerEndCall PROVE (srv \in SrvType /\ Serves)'
  BY <1>0, <1>9 DEF ServerEndCall, Goto, NoSrv, Serves, Serving, SrvType
<1>10. ASSUME ServerSend PROVE (srv \in SrvType /\ Serves)'
  <2>1. srv' = [srv EXCEPT !.replySent = TRUE, !.pushes = srv.pushes + 1]
    BY <1>10 DEF ServerSend
  <2>2. srv' \in SrvType
    <3>1. PICK n \in Nat : n = srv.pushes + 1
      BY <1>0 DEF SrvType
    <3>2. srv' = [srv EXCEPT !.replySent = TRUE, !.pushes = n]
      BY <2>1, <3>1
    <3> QED
      BY <1>0, <3>2 DEF SrvType
  <2>3. Serving'
    BY <1>10 DEF ServerSend, Serving, reads
  <2> QED
    BY <2>2, <2>3 DEF Serves
<1>11. ASSUME ServerSendFails PROVE (srv \in SrvType /\ Serves)'
  BY <1>0, <1>11 DEF ServerSendFails, WriteFails, Streaming, Serves, Serving, SrvType
<1>12. ASSUME HandlerReturns PROVE (srv \in SrvType /\ Serves)'
  BY <1>0, <1>12 DEF HandlerReturns, Goto, Streaming, Serves, Serving, SrvType
<1> QED
  BY <1>1, <1>2, <1>3, <1>4, <1>5, <1>6, <1>7, <1>8, <1>9, <1>10, <1>11, <1>12 DEF Next,
      Internal, External

\* ... and calls get answers.
LEMMA GotStep == ASSUME Types, Waits, [Next]_vars PROVE (got \in [Calls -> SUBSET Answers])'
<1>0. got \in [Calls -> SUBSET Answers]
  BY DEF Types
<1>1. /\ DialHello \/ DialAuth \/ DialRead \/ DialFails \/ ServerHello \/ ServerAuth \/
            ServerFails \/ AcceptCall \/ AcceptFirst \/ AcceptOpen \/ ServerFinish \/
            ServerEndCall \/ ClientClose \/ ServerClose \/ Cut \/ ServerSend \/
            ServerSendFails \/ HandlerReturns \/ UNCHANGED vars => (got \in [Calls ->
            SUBSET Answers])'
      /\ \A s \in Sides : ReadLoopData(s) \/ ReadLoopPart(s) \/ ReadLoopFails(s) \/
            ReadLoopExits(s) \/ CloseConn(s) \/ CloseJoins(s) => (got \in [Calls ->
            SUBSET Answers])'
      /\ \A p \in Readers : Look(p) \/ Wake(p) \/ CtxEnds(p) \/ Expire(p) => (got \in
            [Calls -> SUBSET Answers])'
      /\ \A k \in Calls : MarkExclusive(k) \/ SendWrites(k) \/ RecvFails(k) \/
            RecvMarksBad(k) \/ EndCall(k) \/ SendStarts(k) \/ HalfClose(k) \/
            RecvStarts(k) \/ CloseCall(k) => (got \in [Calls -> SUBSET Answers])'
      /\ \A k \in Calls : \A m \in Methods[k] : OpenCall(k, m) => (got \in [Calls ->
            SUBSET Answers])'
  <2>1. /\ DialHello \/ DialAuth \/ DialRead \/ DialFails \/ ServerHello \/ ServerAuth
              \/ ServerFails \/ AcceptCall \/ AcceptFirst \/ AcceptOpen \/ ServerFinish
              \/ ServerEndCall \/ ClientClose \/ ServerClose \/ Cut \/ ServerSend \/
              ServerSendFails \/ HandlerReturns \/ UNCHANGED vars => UNCHANGED got
        /\ \A s \in Sides : ReadLoopData(s) \/ ReadLoopPart(s) \/ ReadLoopFails(s) \/
              ReadLoopExits(s) \/ CloseConn(s) \/ CloseJoins(s) => UNCHANGED got
        /\ \A p \in Readers : Look(p) \/ Wake(p) \/ CtxEnds(p) \/ Expire(p) =>
              UNCHANGED got
        /\ \A k \in Calls : MarkExclusive(k) \/ SendWrites(k) \/ RecvFails(k) \/
              RecvMarksBad(k) \/ EndCall(k) \/ SendStarts(k) \/ HalfClose(k) \/
              RecvStarts(k) \/ CloseCall(k) => UNCHANGED got
        /\ \A k \in Calls : \A m \in Methods[k] : OpenCall(k, m) => UNCHANGED got
    BY DEF ReadLoopData, ReadLoopPart, ReadLoopFails, ReadLoopExits, CloseConn,
        CloseJoins, Look, Wake, CtxEnds, DialHello, DialAuth, DialRead, DialFails,
        ServerHello, ServerAuth, ServerFails, MarkExclusive, SendWrites, RecvFails,
        RecvMarksBad, EndCall, AcceptCall, AcceptFirst, AcceptOpen, ServerFinish,
        ServerEndCall, ClientClose, ServerClose, Cut, Expire, OpenCall, SendStarts,
        HalfClose, RecvStarts, CloseCall, ServerSend, ServerSendFails, HandlerReturns,
        reads, env, vars
  <2> QED
    BY <1>0, <2>1
<1>2. ASSUME NEW k \in Calls, RecvValue(k) PROVE (got \in [Calls -> SUBSET Answers])'
  <2>1. res[k] \in Answers
    BY <1>2, Numbers DEF RecvValue, Returned, Waits, Waiting
  <2> QED
    BY <1>0, <1>2, <2>1 DEF RecvValue
<1> QED
  BY <1>1, <1>2 DEF Next, Internal, External

(***************************************************************************)
(* Parked readers.                                                         *)

\* No step reopens a closed session, makes a spoilt one reusable or revives a
\* read loop.
LEMMA SteadyStep ==
  ASSUME Types, [Next]_vars
  PROVE  (sess \in [Sides -> Sess])' /\ \A t \in Sides : Steady(sess[t], sess'[t])
<1> DEFINE Goal == (sess \in [Sides -> Sess])' /\ \A t \in Sides : Steady(sess[t], sess'[t])
<1>1. /\ DialHello \/ DialAuth \/ DialRead \/ DialFails \/ ServerHello \/ ServerAuth \/
            ServerFails \/ ServerFinish \/ ClientClose \/ ServerClose \/ Cut \/
            ServerSend \/ ServerSendFails \/ HandlerReturns \/ UNCHANGED vars => Goal
      /\ \A s \in Sides : CloseConn(s) \/ CloseJoins(s) => Goal
      /\ \A p \in Readers : Wake(p) \/ CtxEnds(p) \/ Expire(p) => Goal
      /\ \A k \in Calls : MarkExclusive(k) \/ SendWrites(k) \/ RecvValue(k) \/
            RecvFails(k) \/ RecvMarksBad(k) \/ SendStarts(k) \/ HalfClose(k) \/
            RecvStarts(k) \/ CloseCall(k) => Goal
  <2>1. Calmly => Goal
    BY DEF Calmly, Calm, Kept
  <2> HIDE DEF Goal
  <2> QED
    BY <2>1, CalmSess
<1>2. \A s \in Sides : ReadLoopData(s) \/ ReadLoopPart(s) => Goal
  BY DataSess
<1>3. \A s \in Sides : ReadLoopFails(s) \/ ReadLoopExits(s) => Goal
  BY LoopSess DEF Kept
<1>4. \A p \in Readers : Look(p) => Goal
  BY LookSess
<1>5. AcceptCall \/ AcceptFirst \/ AcceptOpen \/ ServerEndCall => Goal
  BY ServeSess DEF Kept
<1>6. \A k \in Calls : /\ EndCall(k) => Goal
                       /\ \A m \in Methods[k] : OpenCall(k, m) => Goal
  BY SlotSess DEF Kept
<1> HIDE DEF Goal
<1>7. Goal
  BY <1>1, <1>2, <1>3, <1>4, <1>5, <1>6 DEF Next, Internal, External
<1> QED
  BY <1>7 DEF Goal

\* A read loop that stops records its error in the same critical section.
LEMMA ToldStep == ASSUME Types, Told, [Next]_vars PROVE Told'
BY SteadyStep DEF Told, Steady

\* What a look that has to wait has found.
Starved(p) ==
  LET s == sess[SideOf(p)] IN
  /\ ~s.readErr /\ ~s.closed
  /\ s.buf = <<>> \/ (~(p = Srv /\ at[p] = "first") /\ Head(s.buf) = Part)

\* A reader goes on waiting exactly when it is starved.
LEMMA LookWaits ==
  Types => \A p \in Readers : LookResult(p).m = "wait" <=> Starved(p)
<1> SUFFICES ASSUME Types, NEW p \in Readers
             PROVE  LookResult(p).m = "wait" <=> Starved(p)
  OBVIOUS
<1> DEFINE b == sess[SideOf(p)].buf
           gone == sess[SideOf(p)].readErr \/ sess[SideOf(p)].closed
           first == p = Srv /\ at[p] = "first"
<1>0. b \in Input
  BY DEF Types, Sess, SideOf, Sides
<1>1. CASE b # <<>> /\ first
  BY <1>1 DEF LookResult, Starved, Outcome
<1>2. CASE b # <<>> /\ ~first /\ Head(b) = Junk
  BY <1>2, Blanks DEF LookResult, Starved, Outcome
<1>3. CASE b # <<>> /\ ~first /\ Head(b) \notin {Junk, Part}
  <2>1. LookResult(p) = Head(b) /\ Head(b) \in Values
    BY <1>0, <1>3, InputRead DEF LookResult
  <2>2. Head(b).m # "wait"
    BY <2>1 DEF Values, Words, Commands
  <2> QED
    BY <1>3, <2>1, <2>2 DEF Starved
<1>4. CASE (b = <<>> \/ (~first /\ Head(b) = Part)) /\ gone
  BY <1>4, Blanks DEF LookResult, Starved, Outcome
<1>5. CASE (b = <<>> \/ (~first /\ Head(b) = Part)) /\ ~gone
  BY <1>5, Blanks DEF LookResult, Starved, Outcome
<1> QED
  BY <1>1, <1>2, <1>3, <1>4, <1>5

\* Who is parked and not woken behind a step was so before it, or has just
\* looked.
LEMMA StaysParked ==
  ASSUME Types, Waits, [Next]_vars, NEW r \in Readers, rd'[r] = "park", ~woken'[r]
  PROVE  Look(r) \/ (rd[r] = "park" /\ ~woken[r] /\ at'[r] = at[r])
<1> DEFINE Still == Look(r) \/ (rd[r] = "park" /\ ~woken[r] /\ at'[r] = at[r])
<1>0. /\ Readers = Calls \cup {Dial, Srv} /\ Dial \notin Calls /\ Srv \notin Calls /\ Dial # Srv
      /\ rd'[r] = "park" /\ ~woken'[r] /\ (rd[r] # "off" => Waiting(r))
      /\ DOMAIN at = Readers /\ DOMAIN rd = Readers /\ DOMAIN woken = Readers
  BY Numbers DEF Types, Waits
<1>1. /\ Cut \/ ServerSend \/ UNCHANGED vars => Still
      /\ \A s \in Sides : ReadLoopExits(s) \/ CloseConn(s) \/ CloseJoins(s) => Still
      /\ \A p \in Readers : Expire(p) => Still
      /\ \A k \in Calls : EndCall(k) \/ HalfClose(k) \/ CloseCall(k) => Still
  <2>1. /\ Cut \/ ServerSend \/ UNCHANGED vars => UNCHANGED <<at, rd, woken>>
        /\ \A s \in Sides : ReadLoopExits(s) \/ CloseConn(s) \/ CloseJoins(s) =>
              UNCHANGED <<at, rd, woken>>
        /\ \A p \in Readers : Expire(p) => UNCHANGED <<at, rd, woken>>
        /\ \A k \in Calls : EndCall(k) \/ HalfClose(k) \/ CloseCall(k) => UNCHANGED
              <<at, rd, woken>>
    BY DEF ReadLoopExits, CloseConn, CloseJoins, EndCall, Cut, Expire, HalfClose,
        CloseCall, ServerSend, reads, env, vars
  <2> QED
    BY <1>0, <2>1
<1>2. ASSUME NEW s \in Sides, ReadLoopData(s) PROVE Still
  BY <1>0, <1>2 DEF ReadLoopData, Broadcast, Waiting
<1>3. ASSUME NEW s \in Sides, ReadLoopPart(s) PROVE Still
  BY <1>0, <1>3 DEF ReadLoopPart, Broadcast, Waiting
<1>4. ASSUME NEW s \in Sides, ReadLoopFails(s) PROVE Still
  BY <1>0, <1>4 DEF ReadLoopFails, Broadcast, Waiting
<1>5. ASSUME NEW p \in Readers, Look(p) PROVE Still
  <2>1. CASE p = r
    BY <1>5, <2>1
  <2>2. CASE p # r
    BY <1>0, <1>5, <2>2 DEF Look
  <2> QED
    BY <2>1, <2>2
<1>6. ASSUME NEW p \in Readers, Wake(p) PROVE Still
  BY <1>0, <1>6 DEF Wake, reads, Waiting
<1>7. ASSUME NEW p \in Readers, CtxEnds(p) PROVE Still
  BY <1>0, <1>7 DEF CtxEnds, Outcome, reads, Waiting
<1>8. ASSUME DialHello PROVE Still
  BY <1>0, <1>8 DEF DialHello, HelloWrites, Writes, WriteFails, Await, Goto, Val, reads,
      Waiting
<1>9. ASSUME DialAuth PROVE Still
  BY <1>0, <1>9 DEF DialAuth, HelloWrites, Writes, WriteFails, Await, Goto, Val, reads,
      Waiting
<1>10. ASSUME DialRead PROVE Still
  BY <1>0, <1>10 DEF DialRead, Returned, Goto, IsError, reads, Waiting
<1>11. ASSUME DialFails PROVE Still
  BY <1>0, <1>11 DEF DialFails, CloseFlags, Broadcast, reads, Waiting
<1>12. ASSUME ServerHello PROVE Still
  BY <1>0, <1>12 DEF ServerHello, Returned, IsError, Writes, WriteFails, Await, Goto,
      Val, reads, Waiting
<1>13. ASSUME ServerAuth PROVE Still
  BY <1>0, <1>13 DEF ServerAuth, Returned, IsError, Writes, WriteFails, Goto, Val,
      reads, Waiting
<1>14. ASSUME ServerFails PROVE Still
  BY <1>0, <1>14 DEF ServerFails, CloseFlags, Broadcast, reads, Waiting
<1>15. ASSUME NEW k \in Calls, MarkExclusive(k) PROVE Still
  BY <1>0, <1>15 DEF MarkExclusive, reads, Waiting
<1>16. ASSUME NEW k \in Calls, SendWrites(k) PROVE Still
  BY <1>0, <1>16 DEF SendWrites, Writes, WriteFails, Val, reads, Waiting
<1>17. ASSUME NEW k \in Calls, RecvValue(k) PROVE Still
  BY <1>0, <1>17 DEF RecvValue, Returned, IsError, Goto, Streaming, reads, Waiting
<1>18. ASSUME NEW k \in Calls, RecvFails(k) PROVE Still
  BY <1>0, <1>18 DEF RecvFails, Returned, IsError, Goto, reads, Waiting
<1>19. ASSUME NEW k \in Calls, RecvMarksBad(k) PROVE Still
  BY <1>0, <1>19 DEF RecvMarksBad, Goto, reads, Waiting
<1>20. ASSUME AcceptCall PROVE Still
  BY <1>0, <1>20 DEF AcceptCall, Goto, Await, reads, Waiting
<1>21. ASSUME AcceptFirst PROVE Still
  BY <1>0, <1>21 DEF AcceptFirst, Returned, Goto, Await, reads, Waiting
<1>22. ASSUME AcceptOpen PROVE Still
  BY <1>0, <1>22 DEF AcceptOpen, Returned, IsError, Goto, NoSrv, Streaming, Known,
      reads, Waiting
<1>23. ASSUME ServerFinish PROVE Still
  BY <1>0, <1>23 DEF ServerFinish, Writes, WriteFails, Val, reads, Waiting
<1>24. ASSUME ServerEndCall PROVE Still
  BY <1>0, <1>24 DEF ServerEndCall, Goto, NoSrv, reads, Waiting
<1>25. ASSUME ClientClose PROVE Still
  BY <1>0, <1>25 DEF ClientClose, CloseFlags, Broadcast, Event, reads, Waiting
<1>26. ASSUME ServerClose PROVE Still
  BY <1>0, <1>26 DEF ServerClose, CloseFlags, Broadcast
<1>27. ASSUME NEW k \in Calls, NEW m \in Methods[k], OpenCall(k, m) PROVE Still
  BY <1>0, <1>27 DEF OpenCall, Lendable, Streaming, reads, Waiting
<1>28. ASSUME NEW k \in Calls, SendStarts(k) PROVE Still
  BY <1>0, <1>28 DEF SendStarts, reads, Waiting
<1>29. ASSUME NEW k \in Calls, RecvStarts(k) PROVE Still
  BY <1>0, <1>29 DEF RecvStarts, Await, reads, Waiting
<1>30. ASSUME ServerSendFails PROVE Still
  BY <1>0, <1>30 DEF ServerSendFails, WriteFails, Streaming, reads, Waiting
<1>31. ASSUME HandlerReturns PROVE Still
  BY <1>0, <1>31 DEF HandlerReturns, Goto, Streaming, reads, Waiting
<1> QED
  BY <1>1, <1>2, <1>3, <1>4, <1>5, <1>6, <1>7, <1>8, <1>9, <1>10, <1>11, <1>12, <1>13,
      <1>14, <1>15, <1>16, <1>17, <1>18, <1>19, <1>20, <1>21, <1>22, <1>23, <1>24,
      <1>25, <1>26, <1>27, <1>28, <1>29, <1>30, <1>31 DEF Next, Internal, External

\* No step strands a reader.
LEMMA StrandedStep ==
  ASSUME Types, Waits, Told, NoReaderStranded, [Next]_vars, Types', Told'
  PROVE  NoReaderStranded'
<1> SUFFICES ASSUME NEW r \in Readers, rd'[r] = "park", ~woken'[r], ~sess'[SideOf(r)].closed
             PROVE  sess'[SideOf(r)].loop = "run" /\ LookResult(r)'.m = "wait"
  BY DEF NoReaderStranded
<1> DEFINE t == SideOf(r)
<1>0. t \in Sides /\ rd \in [Readers -> {"off", "look", "park"}]
  BY DEF Types, SideOf, Sides
<1>1. \A p \in Readers : LookResult(p).m = "wait" <=> Starved(p)
  BY LookWaits
<1>2. \A p \in Readers : LookResult(p)'.m = "wait" <=> Starved(p)'
  <2>1. Types' => (\A p \in Readers : LookResult(p).m = "wait" <=> Starved(p))'

    BY LookWaits, PTL
  <2> QED
    BY <2>1
<1>3. SUFFICES /\ sess'[t].loop = "run"
               /\ sess'[t].buf = <<>> \/ (~(r = Srv /\ at'[r] = "first")
                      /\ Head(sess'[t].buf) = Part)
  BY <1>0, <1>2, <1>3 DEF Starved, Told
<1>4. CASE Look(r)
  <2>1. LookResult(r).m = "wait" /\ sess' = sess /\ at' = at
    BY <1>0, <1>4, LookSess DEF Look
  <2>2. Starved(r)
    BY <1>1, <2>1
  <2> QED
    BY <1>0, <2>1, <2>2 DEF Starved, Told
<1>5. CASE ~Look(r)
  <2>1. rd[r] = "park" /\ ~woken[r] /\ at'[r] = at[r]
    BY <1>5, StaysParked
  <2>2. ~sess[t].closed
    BY <1>0, SteadyStep DEF Steady
  <2>3. sess[t].loop = "run" /\ Starved(r)
    BY <1>1, <2>1, <2>2 DEF NoReaderStranded
  <2> DEFINE Goal == sess'[t].loop = "run" /\ sess'[t].buf = sess[t].buf
  <2>4. /\ DialHello \/ DialAuth \/ DialRead \/ DialFails \/ ServerHello \/ ServerAuth
              \/ ServerFails \/ ServerFinish \/ ClientClose \/ ServerClose \/ Cut \/
              ServerSend \/ ServerSendFails \/ HandlerReturns \/ UNCHANGED vars => Goal
        /\ \A s \in Sides : CloseConn(s) \/ CloseJoins(s) => Goal
        /\ \A p \in Readers : Wake(p) \/ CtxEnds(p) \/ Expire(p) => Goal
        /\ \A k \in Calls : MarkExclusive(k) \/ SendWrites(k) \/ RecvValue(k) \/
              RecvFails(k) \/ RecvMarksBad(k) \/ SendStarts(k) \/ HalfClose(k) \/
              RecvStarts(k) \/ CloseCall(k) => Goal
    <3>1. Calmly => Goal
      BY <1>0, <2>3 DEF Calmly, Calm, Kept
    <3> HIDE DEF Goal
    <3> QED
      BY <3>1, CalmSess
  <2>5. \A s \in Sides : ReadLoopData(s) \/ ReadLoopPart(s) => Goal
    <3> SUFFICES ASSUME NEW s \in Sides, ReadLoopData(s) \/ ReadLoopPart(s) PROVE Goal
      OBVIOUS
    <3>1. Broadcast(s)
      BY DEF ReadLoopData, ReadLoopPart
    <3>2. s # t
      BY <2>1, <3>1 DEF Broadcast
    <3> QED
      BY <1>0, <2>3, <3>2, DataSess
  <2>6. \A s \in Sides : ReadLoopFails(s) \/ ReadLoopExits(s) => Goal
    <3> SUFFICES ASSUME NEW s \in Sides, ReadLoopFails(s) \/ ReadLoopExits(s) PROVE Goal
      OBVIOUS
    <3>1. CASE ReadLoopFails(s)
      <4>1. s # t
        BY <2>1, <3>1 DEF ReadLoopFails, Broadcast
      <4> QED
        BY <1>0, <2>3, <4>1, LoopSess
    <3>2. CASE ReadLoopExits(s)
      <4>1. s # t
        BY <2>3, <3>2 DEF ReadLoopExits
      <4> QED
        BY <1>0, <2>3, <4>1, LoopSess
    <3> QED
      BY <3>1, <3>2
  <2>7. \A p \in Readers : Look(p) => Goal
    <3> SUFFICES ASSUME NEW p \in Readers, Look(p) PROVE Goal
      OBVIOUS
    <3>1. CASE SideOf(p) # t
      BY <1>0, <2>3, <3>1, LookSess
    <3>2. CASE SideOf(p) = t
      <4>1. p # r
        BY <1>5
      <4>2. sess[t].buf # <<>> => ~(p = Srv /\ at[p] = "first") /\ Head(sess[t].buf) = Part
        BY <2>3, <3>2, <4>1 DEF Starved, SideOf
      <4>3. sess'[t].buf = sess[t].buf
        BY <3>2, <4>2, LookSess, Blanks
      <4>4. sess'[t].loop = "run"
        BY <1>0, <2>3, LookSess
      <4> QED
        BY <4>3, <4>4
    <3> QED
      BY <3>1, <3>2
  <2>8. AcceptCall \/ AcceptFirst \/ AcceptOpen \/ ServerEndCall => Goal
    BY <1>0, <2>3, ServeSess DEF Kept
  <2>9. \A k \in Calls : /\ EndCall(k) => Goal
                         /\ \A m \in Methods[k] : OpenCall(k, m) => Goal
    BY <1>0, <2>3, SlotSess DEF Kept
  <2> HIDE DEF Goal
  <2>10. Goal
    BY <2>4, <2>5, <2>6, <2>7, <2>8, <2>9 DEF Next, Internal, External
  <2> QED
    BY <2>1, <2>3, <2>10 DEF Starved, Goal
<1> QED
  BY <1>4, <1>5

(***************************************************************************)
(* The client's calls.                                                     *)

\* Only OpenCall and EndCall touch the client's slot.
LEMMA BusyKept ==
  ASSUME Types
  PROVE  /\ DialHello \/ DialAuth \/ DialRead \/ DialFails \/ ServerHello \/ ServerAuth
               \/ ServerFails \/ AcceptCall \/ AcceptFirst \/ AcceptOpen \/
               ServerFinish \/ ServerEndCall \/ ClientClose \/ ServerClose \/ Cut \/
               ServerSend \/ ServerSendFails \/ HandlerReturns \/ UNCHANGED vars =>
               sess'["C"].busy = sess["C"].busy
         /\ \A s \in Sides : ReadLoopData(s) \/ ReadLoopPart(s) \/ ReadLoopFails(s) \/
               ReadLoopExits(s) \/ CloseConn(s) \/ CloseJoins(s) => sess'["C"].busy =
               sess["C"].busy
         /\ \A p \in Readers : Look(p) \/ Wake(p) \/ CtxEnds(p) \/ Expire(p) =>
               sess'["C"].busy = sess["C"].busy
         /\ \A k \in Calls : MarkExclusive(k) \/ SendWrites(k) \/ RecvValue(k) \/
               RecvFails(k) \/ RecvMarksBad(k) \/ SendStarts(k) \/ HalfClose(k) \/
               RecvStarts(k) \/ CloseCall(k) => sess'["C"].busy = sess["C"].busy
<1> DEFINE Goal == sess'["C"].busy = sess["C"].busy
<1>0. "C" \in Sides
  BY DEF Sides
<1>1. /\ DialHello \/ DialAuth \/ DialRead \/ DialFails \/ ServerHello \/ ServerAuth \/
            ServerFails \/ ServerFinish \/ ClientClose \/ ServerClose \/ Cut \/
            ServerSend \/ ServerSendFails \/ HandlerReturns \/ UNCHANGED vars => Goal
      /\ \A s \in Sides : CloseConn(s) \/ CloseJoins(s) => Goal
      /\ \A p \in Readers : Wake(p) \/ CtxEnds(p) \/ Expire(p) => Goal
      /\ \A k \in Calls : MarkExclusive(k) \/ SendWrites(k) \/ RecvValue(k) \/
            RecvFails(k) \/ RecvMarksBad(k) \/ SendStarts(k) \/ HalfClose(k) \/
            RecvStarts(k) \/ CloseCall(k) => Goal
  <2>1. Calmly => Goal
    BY <1>0 DEF Calmly, Calm
  <2> HIDE DEF Goal
  <2> QED
    BY <2>1, CalmSess
<1>2. \A s \in Sides : ReadLoopData(s) \/ ReadLoopPart(s) => Goal
  BY <1>0, DataSess
<1>3. \A s \in Sides : ReadLoopFails(s) \/ ReadLoopExits(s) => Goal
  BY <1>0, LoopSess
<1>4. \A p \in Readers : Look(p) => Goal
  BY <1>0, LookSess
<1>5. AcceptCall \/ AcceptFirst \/ AcceptOpen \/ ServerEndCall => Goal
  BY ServeSess
<1> HIDE DEF Goal
<1>6. /\ DialHello \/ DialAuth \/ DialRead \/ DialFails \/ ServerHello \/ ServerAuth \/
            ServerFails \/ AcceptCall \/ AcceptFirst \/ AcceptOpen \/ ServerFinish \/
            ServerEndCall \/ ClientClose \/ ServerClose \/ Cut \/ ServerSend \/
            ServerSendFails \/ HandlerReturns \/ UNCHANGED vars => Goal
      /\ \A s \in Sides : ReadLoopData(s) \/ ReadLoopPart(s) \/ ReadLoopFails(s) \/
            ReadLoopExits(s) \/ CloseConn(s) \/ CloseJoins(s) => Goal
      /\ \A p \in Readers : Look(p) \/ Wake(p) \/ CtxEnds(p) \/ Expire(p) => Goal
      /\ \A k \in Calls : MarkExclusive(k) \/ SendWrites(k) \/ RecvValue(k) \/
            RecvFails(k) \/ RecvMarksBad(k) \/ SendStarts(k) \/ HalfClose(k) \/
            RecvStarts(k) \/ CloseCall(k) => Goal
  BY <1>1, <1>2, <1>3, <1>4, <1>5
<1> QED
  BY <1>6 DEF Goal

\* What holds of one call is kept by every step, its own or a neighbour's.
LEMMA OwnStep ==
  ASSUME Types, Waits, CallsOk, [Next]_vars, NEW j \in Calls
  PROVE  OwnOk(j)'
<1>0. /\ Readers = Calls \cup {Dial, Srv} /\ Dial \notin Calls /\ Srv \notin Calls /\ Dial # Srv
      /\ DOMAIN at = Readers /\ sess \in [Sides -> Sess] /\ "C" \in Sides
             /\ call \in [Calls -> CallType] /\ DOMAIN got = Calls /\ OwnOk(j)
      /\ call[j] \in CallType
  BY Numbers DEF Types, CallsOk, Sides
<1>00. sess'["C"].reusable => sess["C"].reusable
  BY SteadyStep DEF Steady, Sides
<1>1. /\ DialHello \/ DialAuth \/ DialRead \/ DialFails \/ ServerHello \/ ServerAuth \/
            ServerFails \/ AcceptCall \/ AcceptFirst \/ AcceptOpen \/ ServerFinish \/
            ServerEndCall \/ ClientClose \/ ServerClose \/ Cut \/ ServerSend \/
            ServerSendFails \/ HandlerReturns \/ UNCHANGED vars => OwnOk(j)'
      /\ \A s \in Sides : ReadLoopData(s) \/ ReadLoopPart(s) \/ ReadLoopFails(s) \/
            ReadLoopExits(s) \/ CloseConn(s) \/ CloseJoins(s) => OwnOk(j)'
      /\ \A p \in Readers : Look(p) \/ Wake(p) \/ CtxEnds(p) \/ Expire(p) => OwnOk(j)'
  <2>1. /\ DialHello \/ DialAuth \/ DialRead \/ DialFails \/ ServerHello \/ ServerAuth
              \/ ServerFails \/ AcceptCall \/ AcceptFirst \/ AcceptOpen \/ ServerFinish
              \/ ServerEndCall \/ ClientClose \/ ServerClose \/ Cut \/ ServerSend \/
              ServerSendFails \/ HandlerReturns \/ UNCHANGED vars => UNCHANGED <<at[j],
              call, got>>
        /\ \A s \in Sides : ReadLoopData(s) \/ ReadLoopPart(s) \/ ReadLoopFails(s) \/
              ReadLoopExits(s) \/ CloseConn(s) \/ CloseJoins(s) => UNCHANGED <<at[j],
              call, got>>
        /\ \A p \in Readers : Look(p) \/ Wake(p) \/ CtxEnds(p) \/ Expire(p) =>
              UNCHANGED <<at[j], call, got>>
    BY <1>0 DEF ReadLoopData, ReadLoopPart, ReadLoopFails, ReadLoopExits, CloseConn,
        CloseJoins, Look, Wake, CtxEnds, DialHello, DialAuth, DialRead, DialFails,
        ServerHello, ServerAuth, ServerFails, AcceptCall, AcceptFirst, AcceptOpen,
        ServerFinish, ServerEndCall, ClientClose, ServerClose, Cut, Expire, ServerSend,
        ServerSendFails, HandlerReturns, reads, env, Goto, Await, HelloWrites, vars
  <2>2. /\ DialHello \/ DialAuth \/ DialRead \/ DialFails \/ ServerHello \/ ServerAuth
              \/ ServerFails \/ AcceptCall \/ AcceptFirst \/ AcceptOpen \/ ServerFinish
              \/ ServerEndCall \/ ClientClose \/ ServerClose \/ Cut \/ ServerSend \/
              ServerSendFails \/ HandlerReturns \/ UNCHANGED vars => UNCHANGED
              sess["C"].busy
        /\ \A s \in Sides : ReadLoopData(s) \/ ReadLoopPart(s) \/ ReadLoopFails(s) \/
              ReadLoopExits(s) \/ CloseConn(s) \/ CloseJoins(s) => UNCHANGED
              sess["C"].busy
        /\ \A p \in Readers : Look(p) \/ Wake(p) \/ CtxEnds(p) \/ Expire(p) =>
              UNCHANGED sess["C"].busy
    BY BusyKept
  <2> QED
    BY <1>0, <1>00, <2>1, <2>2 DEF OwnOk, Opened
<1>2. ASSUME NEW k \in Calls, MarkExclusive(k) PROVE OwnOk(j)'
  <2>1. ~sess'["C"].reusable
    BY <1>0, <1>2 DEF MarkExclusive
  <2>2. sess'["C"].busy = sess["C"].busy
    BY <1>2, BusyKept
  <2> QED
    BY <1>0, <1>2, <2>1, <2>2 DEF MarkExclusive, OwnOk, Opened
<1>3. ASSUME NEW k \in Calls, SendWrites(k) PROVE OwnOk(j)'
  <2>2. sess'["C"].busy = sess["C"].busy
    BY <1>3, BusyKept
  <2>3. at' = [at EXCEPT ![k] = "user"] /\ UNCHANGED got
    BY <1>3 DEF SendWrites
  <2>4. call' \in {call, [call EXCEPT ![k].sendDone = TRUE]}
    BY <1>3 DEF SendWrites
  <2>5. at[k] = "write"
    BY <1>3 DEF SendWrites
  <2> QED
    BY <1>0, <1>00, <2>2, <2>3, <2>4, <2>5 DEF OwnOk, Opened, CallType
<1>4. ASSUME NEW k \in Calls, RecvValue(k) PROVE OwnOk(j)'
  BY <1>0, <1>00, <1>4, BusyKept DEF RecvValue, Returned, IsError, Goto, Streaming,
      reads, OwnOk, Opened, CallType
<1>5. ASSUME NEW k \in Calls, RecvFails(k) PROVE OwnOk(j)'
  BY <1>0, <1>00, <1>5, BusyKept DEF RecvFails, Returned, IsError, Goto, reads, OwnOk,
      Opened, CallType
<1>6. ASSUME NEW k \in Calls, RecvMarksBad(k) PROVE OwnOk(j)'
  BY <1>0, <1>00, <1>6, BusyKept DEF RecvMarksBad, Goto, OwnOk, Opened, CallType
<1>7. ASSUME NEW k \in Calls, EndCall(k) PROVE OwnOk(j)'
  <2>1. /\ call[k].ending \in {"poison", "clean"} /\ UNCHANGED <<at, got>>
        /\ call' = [call EXCEPT ![k].ending = "done"]
    BY <1>7 DEF EndCall, reads
  <2>2. sess'["C"].reusable => call[k].ending = "clean"
    BY <1>7, SlotSess
  <2>3. CASE j # k
    <3>1. Opened(k)
      BY <1>0, <2>1 DEF CallsOk, OwnOk, NoCall
    <3>2. Opened(j) => call[j].ending = "done"
      BY <2>1, <2>3, <3>1, Numbers DEF CallsOk, Turn, Last
    <3> QED
      BY <1>0, <1>00, <2>1, <2>3, <3>2 DEF OwnOk, Opened
  <2>4. CASE j = k
    <3>1. call'[k].ending = "done" /\ call'[k].closed = call[k].closed /\ call'[k].m = call[k].m
          /\ call'[k].terminal = call[k].terminal /\ call'[k].sendDone = call[k].sendDone
      BY <1>0, <2>1 DEF CallType
    <3> QED
      BY <1>0, <1>00, <2>1, <2>2, <2>4, <3>1 DEF OwnOk, Opened, NoCall
  <2> QED
    BY <2>3, <2>4
<1>8. ASSUME NEW k \in Calls, NEW m \in Methods[k], OpenCall(k, m) PROVE OwnOk(j)'
  <2>1. /\ sess'["C"].busy /\ at[k] = "new"
               /\ at' = [at EXCEPT ![k] = IF Streaming(m) THEN "exclusive" ELSE "user"]
        /\ call' = [call EXCEPT ![k].m = m] /\ UNCHANGED got
    BY <1>8, SlotSess DEF OpenCall
  <2>2. CASE j # k
    BY <1>0, <1>00, <2>1, <2>2 DEF OwnOk, Opened
  <2>3. CASE j = k
    <3>1. call[k] = NoCall /\ got'[k] = {}
      BY <1>0, <2>1, <2>3 DEF OwnOk, Opened
    <3>2. call'[k] = [NoCall EXCEPT !.m = m] /\ m \in Commands
      BY <1>0, <2>1, <3>1, RespAssumption
    <3>3. /\ ~call'[k].closed /\ ~call'[k].terminal /\ ~call'[k].sendDone
          /\ call'[k].ending = "no" /\ call'[k].m = m
      BY <3>2 DEF NoCall
    <3>4. at'[k] = IF Streaming(m) THEN "exclusive" ELSE "user"
      BY <1>0, <2>1
    <3> QED
      BY <2>1, <2>3, <3>1, <3>2, <3>3, <3>4 DEF OwnOk, Opened
  <2> QED
    BY <2>2, <2>3
<1>9. ASSUME NEW k \in Calls, SendStarts(k) PROVE OwnOk(j)'
  BY <1>0, <1>00, <1>9, BusyKept DEF SendStarts, reads, OwnOk, Opened, CallType
<1>10. ASSUME NEW k \in Calls, HalfClose(k) PROVE OwnOk(j)'
  BY <1>0, <1>00, <1>10, BusyKept DEF HalfClose, reads, OwnOk, Opened, CallType
<1>11. ASSUME NEW k \in Calls, RecvStarts(k) PROVE OwnOk(j)'
  BY <1>0, <1>00, <1>11, BusyKept DEF RecvStarts, Await, reads, OwnOk, Opened, CallType
<1>12. ASSUME NEW k \in Calls, CloseCall(k) PROVE OwnOk(j)'
  BY <1>0, <1>00, <1>12, BusyKept DEF CloseCall, Poison, Streaming, reads, OwnOk,
      Opened, CallType
<1> QED
  BY <1>1, <1>2, <1>3, <1>4, <1>5, <1>6, <1>7, <1>8, <1>9, <1>10, <1>11, <1>12 DEF Next,
      Internal, External

\* Calls are opened once and in order; what is done stays done.
Onward ==
  /\ at[Dial] = "ready" => at'[Dial] = "ready"
  /\ \A j \in Calls : call[j].ending = "done" => call'[j].ending = "done"
SameOpen == \A j \in Calls : Opened(j)' <=> Opened(j)
NowOpen(k) == \A j \in Calls : Opened(j)' <=> Opened(j) \/ j = k

\* Every action goes onward, and only OpenCall opens a call.
LEMMA Onwards ==
  ASSUME Types, CallsOk
  PROVE  /\ DialHello \/ DialAuth \/ DialRead \/ DialFails \/ ServerHello \/ ServerAuth
               \/ ServerFails \/ AcceptCall \/ AcceptFirst \/ AcceptOpen \/
               ServerFinish \/ ServerEndCall \/ ClientClose \/ ServerClose \/ Cut \/
               ServerSend \/ ServerSendFails \/ HandlerReturns \/ UNCHANGED vars =>
               Onward /\ SameOpen
         /\ \A s \in Sides : ReadLoopData(s) \/ ReadLoopPart(s) \/ ReadLoopFails(s) \/
               ReadLoopExits(s) \/ CloseConn(s) \/ CloseJoins(s) => Onward /\ SameOpen
         /\ \A p \in Readers : Look(p) \/ Wake(p) \/ CtxEnds(p) \/ Expire(p) => Onward
               /\ SameOpen
         /\ \A k \in Calls : MarkExclusive(k) \/ SendWrites(k) \/ RecvValue(k) \/
               RecvFails(k) \/ RecvMarksBad(k) \/ EndCall(k) \/ SendStarts(k) \/
               HalfClose(k) \/ RecvStarts(k) \/ CloseCall(k) => Onward /\ SameOpen
         /\ \A k \in Calls : \A m \in Methods[k] : OpenCall(k, m) => Onward /\ NowOpen(k)
<1>0. /\ Readers = Calls \cup {Dial, Srv} /\ Dial \notin Calls /\ Srv \notin Calls /\ Dial # Srv
      /\ DOMAIN at = Readers /\ call \in [Calls -> CallType]
      /\ \A j \in Calls : call[j].closed <=> call[j].ending # "no"
  BY Numbers DEF Types, CallsOk, OwnOk
<1>1. /\ ClientClose \/ ServerClose \/ Cut \/ ServerSend \/ UNCHANGED vars => Onward /\
            SameOpen
      /\ \A s \in Sides : ReadLoopData(s) \/ ReadLoopPart(s) \/ ReadLoopFails(s) \/
            ReadLoopExits(s) \/ CloseConn(s) \/ CloseJoins(s) => Onward /\ SameOpen
      /\ \A p \in Readers : Look(p) \/ Wake(p) \/ CtxEnds(p) \/ Expire(p) => Onward /\
            SameOpen
  <2>1. /\ ClientClose \/ ServerClose \/ Cut \/ ServerSend \/ UNCHANGED vars =>
              UNCHANGED <<at, call>>
        /\ \A s \in Sides : ReadLoopData(s) \/ ReadLoopPart(s) \/ ReadLoopFails(s) \/
              ReadLoopExits(s) \/ CloseConn(s) \/ CloseJoins(s) => UNCHANGED <<at,
              call>>
        /\ \A p \in Readers : Look(p) \/ Wake(p) \/ CtxEnds(p) \/ Expire(p) =>
              UNCHANGED <<at, call>>
    BY DEF ReadLoopData, ReadLoopPart, ReadLoopFails, ReadLoopExits, CloseConn,
        CloseJoins, Look, Wake, CtxEnds, ClientClose, ServerClose, Cut, Expire,
        ServerSend, reads, env, CloseFlags, vars
  <2> QED
  BY <2>1 DEF Onward, SameOpen, Opened
<1>2. ASSUME DialHello PROVE Onward /\ SameOpen
  BY <1>0, <1>2 DEF DialHello, HelloWrites, Writes, WriteFails, Await, Goto, Val, reads,
      Onward, SameOpen, Opened, CallType
<1>3. ASSUME DialAuth PROVE Onward /\ SameOpen
  BY <1>0, <1>3 DEF DialAuth, HelloWrites, Writes, WriteFails, Await, Goto, Val, reads,
      Onward, SameOpen, Opened, CallType
<1>4. ASSUME DialRead PROVE Onward /\ SameOpen
  BY <1>0, <1>4 DEF DialRead, Returned, Goto, IsError, reads, Onward, SameOpen, Opened,
      CallType
<1>5. ASSUME DialFails PROVE Onward /\ SameOpen
  BY <1>0, <1>5 DEF DialFails, CloseFlags, Broadcast, reads, Onward, SameOpen, Opened,
      CallType
<1>6. ASSUME ServerHello PROVE Onward /\ SameOpen
  BY <1>0, <1>6 DEF ServerHello, Returned, IsError, Writes, WriteFails, Await, Goto,
      Val, reads, Onward, SameOpen, Opened, CallType
<1>7. ASSUME ServerAuth PROVE Onward /\ SameOpen
  BY <1>0, <1>7 DEF ServerAuth, Returned, IsError, Writes, WriteFails, Goto, Val, reads,
      Onward, SameOpen, Opened, CallType
<1>8. ASSUME ServerFails PROVE Onward /\ SameOpen
  BY <1>0, <1>8 DEF ServerFails, CloseFlags, Broadcast, reads, Onward, SameOpen, Opened,
      CallType
<1>9. ASSUME NEW k \in Calls, MarkExclusive(k) PROVE Onward /\ SameOpen
  BY <1>0, <1>9 DEF MarkExclusive, reads, Onward, SameOpen, Opened, CallType
<1>10. ASSUME NEW k \in Calls, SendWrites(k) PROVE Onward /\ SameOpen
  BY <1>0, <1>10 DEF SendWrites, Writes, WriteFails, Val, reads, Onward, SameOpen,
      Opened, CallType
<1>11. ASSUME NEW k \in Calls, RecvValue(k) PROVE Onward /\ SameOpen
  BY <1>0, <1>11 DEF RecvValue, Returned, IsError, Goto, Streaming, reads, Onward,
      SameOpen, Opened, CallType
<1>12. ASSUME NEW k \in Calls, RecvFails(k) PROVE Onward /\ SameOpen
  BY <1>0, <1>12 DEF RecvFails, Returned, IsError, Goto, reads, Onward, SameOpen,
      Opened, CallType
<1>13. ASSUME NEW k \in Calls, RecvMarksBad(k) PROVE Onward /\ SameOpen
  BY <1>0, <1>13 DEF RecvMarksBad, Goto, reads, Onward, SameOpen, Opened, CallType
<1>14. ASSUME NEW k \in Calls, EndCall(k) PROVE Onward /\ SameOpen
  BY <1>0, <1>14 DEF EndCall, reads, Onward, SameOpen, Opened, CallType
<1>15. ASSUME AcceptCall PROVE Onward /\ SameOpen
  BY <1>0, <1>15 DEF AcceptCall, Goto, Await, reads, Onward, SameOpen, Opened, CallType
<1>16. ASSUME AcceptFirst PROVE Onward /\ SameOpen
  BY <1>0, <1>16 DEF AcceptFirst, Returned, Goto, Await, reads, Onward, SameOpen,
      Opened, CallType
<1>17. ASSUME AcceptOpen PROVE Onward /\ SameOpen
  BY <1>0, <1>17 DEF AcceptOpen, Returned, IsError, Goto, NoSrv, Streaming, Known,
      reads, Onward, SameOpen, Opened, CallType
<1>18. ASSUME ServerFinish PROVE Onward /\ SameOpen
  BY <1>0, <1>18 DEF ServerFinish, Writes, WriteFails, Val, reads, Onward, SameOpen,
      Opened, CallType
<1>19. ASSUME ServerEndCall PROVE Onward /\ SameOpen
  BY <1>0, <1>19 DEF ServerEndCall, Goto, NoSrv, reads, Onward, SameOpen, Opened,
      CallType
<1>20. ASSUME NEW k \in Calls, NEW m \in Methods[k], OpenCall(k, m) PROVE Onward /\ NowOpen(k)
  BY <1>0, <1>20 DEF OpenCall, Onward, NowOpen, Opened, CallType, Streaming
<1>21. ASSUME NEW k \in Calls, SendStarts(k) PROVE Onward /\ SameOpen
  BY <1>0, <1>21 DEF SendStarts, reads, Onward, SameOpen, Opened, CallType
<1>22. ASSUME NEW k \in Calls, HalfClose(k) PROVE Onward /\ SameOpen
  BY <1>0, <1>22 DEF HalfClose, reads, Onward, SameOpen, Opened, CallType
<1>23. ASSUME NEW k \in Calls, RecvStarts(k) PROVE Onward /\ SameOpen
  BY <1>0, <1>23 DEF RecvStarts, Await, reads, Onward, SameOpen, Opened, CallType
<1>24. ASSUME NEW k \in Calls, CloseCall(k) PROVE Onward /\ SameOpen
  BY <1>0, <1>24 DEF CloseCall, Poison, Streaming, reads, Onward, SameOpen, Opened,
      CallType
<1>25. ASSUME ServerSendFails PROVE Onward /\ SameOpen
  BY <1>0, <1>25 DEF ServerSendFails, WriteFails, Streaming, reads, Onward, SameOpen,
      Opened, CallType
<1>26. ASSUME HandlerReturns PROVE Onward /\ SameOpen
  BY <1>0, <1>26 DEF HandlerReturns, Goto, Streaming, reads, Onward, SameOpen, Opened,
      CallType
<1> QED
  BY <1>1, <1>2, <1>3, <1>4, <1>5, <1>6, <1>7, <1>8, <1>9, <1>10, <1>11, <1>12, <1>13,
      <1>14, <1>15, <1>16, <1>17, <1>18, <1>19, <1>20, <1>21, <1>22, <1>23, <1>24,
      <1>25, <1>26

\* Calls are opened in order, each behind the end of the one before.
LEMMA TurnStep ==
  ASSUME Types, CallsOk, [Next]_vars, NEW j \in Calls
  PROVE  Turn(j)'
<1>0. \A i \in Calls : Turn(i) /\ OwnOk(i)
  BY DEF CallsOk
<1>1. ASSUME Onward, SameOpen PROVE Turn(j)'
  BY <1>0, <1>1 DEF Turn, Last, Onward, SameOpen
<1>2. ASSUME NEW k \in Calls, NEW m \in Methods[k], OpenCall(k, m) PROVE Turn(j)'
  <2>1. Onward /\ NowOpen(k)
    BY <1>2, Onwards
  <2>2. at[Dial] = "ready" /\ ~sess["C"].busy /\ at[k] = "new" /\ (k > 1 => Opened(k - 1))
    BY <1>2 DEF OpenCall, Lendable, Opened
  <2>3. \A i \in Calls : Opened(i) => call[i].ending = "done"
    BY <1>0, <2>2 DEF OwnOk
  <2>4. CASE j # k
    BY <1>0, <2>1, <2>2, <2>3, <2>4 DEF Turn, NowOpen, Onward
  <2>5. CASE j = k
    <3>1. \A i \in Calls : i < k => Opened(i)
      <4>1. k > 1 => k - 1 \in Calls
        BY Numbers DEF Calls
      <4>2. k > 1 => \A i \in Calls : i < k - 1 => Opened(i)
        BY <1>0, <2>2, <4>1 DEF Turn
      <4> QED
        BY <2>2, <4>2, Numbers DEF Calls
    <3>2. \A i \in Calls : i > k => ~Opened(i)
      BY <1>0, <2>2, Numbers DEF Turn, Opened
    <3> QED
      BY <2>1, <2>2, <2>5, <3>1, <3>2, Numbers DEF Turn, Last, NowOpen, Onward
  <2> QED
    BY <2>4, <2>5
<1> QED
  BY <1>1, <1>2, Onwards DEF Next, Internal, External

\* Together: what holds of the calls.
LEMMA CallsStep ==
  ASSUME Types, Waits, CallsOk, [Next]_vars
  PROVE  CallsOk'
BY OwnStep, TurnStep DEF CallsOk

(***************************************************************************)
(* The values in a buffer.                                                 *)

\* Taking the first value ...
LEMMA Tails ==
  ASSUME NEW b \in Input, b # <<>>
  PROVE  /\ Holds(Tail(b)) => Holds(b)
         /\ Single(b) => Single(Tail(b))
         /\ \A S : Within(b, S) => Within(Tail(b), S)
         /\ Token(Head(b)) => Holds(b) /\ (Single(b) => ~Holds(Tail(b)))
         /\ \A S : Token(Head(b)) /\ Within(b, S) => Head(b) \in S
<1>1. /\ Len(b) \in Nat /\ Len(b) >= 1 /\ Head(b) = b[1] /\ Len(Tail(b)) = Len(b) - 1
      /\ \A i \in 1 .. Len(Tail(b)) : Tail(b)[i] = b[i + 1] /\ i + 1 \in 1 .. Len(b)
             /\ i + 1 # 1
  BY DEF Input
<1>2. 1 \in 1 .. Len(b)
  BY <1>1
<1> QED
  BY <1>1, <1>2 DEF Holds, Single, Within

\* ... completing a value begun ...
LEMMA Wholes ==
  ASSUME NEW b \in Input
  PROVE  /\ Holds(Whole(b)) => Holds(b)
         /\ Single(b) => Single(Whole(b))
         /\ \A S : Within(b, S) => Within(Whole(b), S)
<1>1. /\ Len(Whole(b)) \in Nat /\ Len(b) \in Nat
      /\ \A i \in 1 .. Len(Whole(b)) : i \in 1 .. Len(b) /\ Whole(b)[i] = b[i]
  BY DEF Input, Whole
<1> QED
  BY <1>1 DEF Holds, Single, Within

\* ... and adding one, in terms of the values a sequence holds.
LEMMA Appends ==
  ASSUME NEW b \in Input, NEW v
  PROVE  /\ Holds(Append(b, v)) => Holds(b) \/ Token(v)
         /\ Single(b) /\ (Token(v) => ~Holds(b)) => Single(Append(b, v))
         /\ \A S : Within(b, S) /\ (Token(v) => v \in S) => Within(Append(b, v), S)
<1>1. /\ Len(b) \in Nat /\ Len(Append(b, v)) = Len(b) + 1 /\ Append(b, v)[Len(b) + 1] = v
      /\ \A i \in 1 .. Len(b) : Append(b, v)[i] = b[i]
  BY DEF Input
<1>2. \A i \in 1 .. Len(Append(b, v)) : i \in 1 .. Len(b) \/ i = Len(b) + 1
  BY <1>1
<1> QED
  BY <1>1, <1>2 DEF Holds, Single, Within

\* What a Write appends, piece by piece.
LEMMA Joins ==
  ASSUME NEW b \in Input, NEW v \in Values
  PROVE  /\ b \o <<v>> = Append(b, v)
         /\ b \o (<<v>> \o <<>>) = Append(b, v)
         /\ b \o (<<v>> \o <<Junk>>) = Append(Append(b, v), Junk)
BY DEF Input

\* What a write of one value does to the input it is written to.
Longer(b, c, v) ==
  /\ Holds(c) => Holds(b) \/ Token(v)
  /\ Single(b) /\ (Token(v) => ~Holds(b)) => Single(c)
  /\ \A S : Within(b, S) /\ (Token(v) => v \in S) => Within(c, S)
\* ... and what taking one away does.
Shorter(b, c, v) ==
  /\ Holds(c) => Holds(b)
  /\ Single(b) => Single(c)
  /\ \A S : Within(b, S) => Within(c, S)
  /\ Token(v) => Holds(b) /\ (Single(b) => ~Holds(c))
  /\ \A S : Token(v) /\ Within(b, S) => v \in S

\* The ways the model lengthens a sequence ...
LEMMA Lengthen ==
  ASSUME NEW b \in Input
  PROVE  /\ \A v \in Values \cup {Junk, Part} : Longer(b, Append(Whole(b), v), v)
         /\ Longer(b, Append(b, Part), Part)
         /\ \A v \in Values : /\ Longer(b, b \o <<v>>, v)
                             /\ Longer(b, b \o (<<v>> \o <<>>), v)
                             /\ Longer(b, b \o (<<v>> \o <<Junk>>), v)
<1>1. ASSUME NEW v PROVE Longer(b, Append(b, v), v)
  BY Appends DEF Longer
<1>2. ASSUME NEW v \in Values \cup {Junk, Part} PROVE Longer(b, Append(Whole(b), v), v)
  <2>1. Whole(b) \in Input
    BY InputRead
  <2>2. Longer(Whole(b), Append(Whole(b), v), v)
    BY <2>1, Appends DEF Longer
  <2> QED
    BY <2>2, Wholes DEF Longer
<1>3. ASSUME NEW v \in Values PROVE Longer(b, Append(Append(b, v), Junk), v)
  <2>1. Append(b, v) \in Input
    BY InputGrows
  <2>2. Longer(Append(b, v), Append(Append(b, v), Junk), Junk) /\ ~Token(Junk)
    BY <2>1, Appends, Blanks DEF Longer, Token
  <2> QED
    BY <1>1, <2>2 DEF Longer
<1> QED
  BY <1>1, <1>2, <1>3, Joins

\* ... and the one way it shortens it.
LEMMA Shorten ==
  ASSUME NEW b \in Input, b # <<>>
  PROVE  Shorter(b, Tail(b), Head(b))
BY Tails DEF Shorter

(***************************************************************************)
(* What a step leaves alone.                                               *)

\* What a step leaves where it was: the wire, the buffers, the values in hand,
\* the server's command.
WireKept == wire' = wire
BufsKept == \A t \in Sides : sess'[t].buf = sess[t].buf
HandsKept == \A p \in Readers : InHand(p)' => InHand(p) /\ res'[p] = res[p]
Engaged == Serving /\ (~srv.replySent \/ Streaming(srv.m))
ServiceKept ==
  /\ Engaged' => Engaged /\ srv'.k = srv.k /\ srv'.m = srv.m
  /\ Unanswered' => Unanswered

\* Only the read loops and the readers change buffers.
LEMMA KeepsBufs ==
  ASSUME Types
  PROVE  /\ DialHello \/ DialAuth \/ DialRead \/ DialFails \/ ServerHello \/ ServerAuth
               \/ ServerFails \/ AcceptCall \/ AcceptFirst \/ AcceptOpen \/
               ServerFinish \/ ServerEndCall \/ ClientClose \/ ServerClose \/ Cut \/
               ServerSend \/ ServerSendFails \/ HandlerReturns \/ UNCHANGED vars =>
               BufsKept
         /\ \A s \in Sides : ReadLoopFails(s) \/ ReadLoopExits(s) \/ CloseConn(s) \/
               CloseJoins(s) => BufsKept
         /\ \A p \in Readers : Wake(p) \/ CtxEnds(p) \/ Expire(p) => BufsKept
         /\ \A k \in Calls : MarkExclusive(k) \/ SendWrites(k) \/ RecvValue(k) \/
               RecvFails(k) \/ RecvMarksBad(k) \/ EndCall(k) \/ SendStarts(k) \/
               HalfClose(k) \/ RecvStarts(k) \/ CloseCall(k) => BufsKept
         /\ \A k \in Calls : \A m \in Methods[k] : OpenCall(k, m) => BufsKept
<1>1. /\ DialHello \/ DialAuth \/ DialRead \/ DialFails \/ ServerHello \/ ServerAuth \/
            ServerFails \/ ServerFinish \/ ClientClose \/ ServerClose \/ Cut \/
            ServerSend \/ ServerSendFails \/ HandlerReturns \/ UNCHANGED vars =>
            BufsKept
      /\ \A s \in Sides : CloseConn(s) \/ CloseJoins(s) => BufsKept
      /\ \A p \in Readers : Wake(p) \/ CtxEnds(p) \/ Expire(p) => BufsKept
      /\ \A k \in Calls : MarkExclusive(k) \/ SendWrites(k) \/ RecvValue(k) \/
            RecvFails(k) \/ RecvMarksBad(k) \/ SendStarts(k) \/ HalfClose(k) \/
            RecvStarts(k) \/ CloseCall(k) => BufsKept
  <2>1. Calmly => BufsKept
    BY DEF Calmly, Calm, Kept, BufsKept
  <2> QED
    BY <2>1, CalmSess
<1>2. \A s \in Sides : ReadLoopFails(s) \/ ReadLoopExits(s) => BufsKept
  BY LoopSess DEF Kept, BufsKept
<1>3. AcceptCall \/ AcceptFirst \/ AcceptOpen \/ ServerEndCall => BufsKept
  BY ServeSess DEF Kept, BufsKept
<1>4. \A k \in Calls : /\ EndCall(k) => BufsKept
                       /\ \A m \in Methods[k] : OpenCall(k, m) => BufsKept
  BY SlotSess DEF Kept, BufsKept
<1> QED
  BY <1>1, <1>2, <1>3, <1>4

\* Only writers and read loops change the wire.
LEMMA KeepsWire ==
  /\ DialRead \/ DialFails \/ ServerFails \/ AcceptCall \/ AcceptFirst \/ AcceptOpen \/
        ServerEndCall \/ ClientClose \/ ServerClose \/ Cut \/ ServerSendFails \/
        HandlerReturns \/ UNCHANGED vars => WireKept
  /\ \A s \in Sides : ReadLoopPart(s) \/ ReadLoopFails(s) \/ ReadLoopExits(s) \/
        CloseConn(s) \/ CloseJoins(s) => WireKept
  /\ \A p \in Readers : Look(p) \/ Wake(p) \/ CtxEnds(p) \/ Expire(p) => WireKept
  /\ \A k \in Calls : MarkExclusive(k) \/ RecvValue(k) \/ RecvFails(k) \/
        RecvMarksBad(k) \/ EndCall(k) \/ SendStarts(k) \/ HalfClose(k) \/ RecvStarts(k)
        \/ CloseCall(k) => WireKept
  /\ \A k \in Calls : \A m \in Methods[k] : OpenCall(k, m) => WireKept
BY DEF ReadLoopPart, ReadLoopFails, ReadLoopExits, CloseConn, CloseJoins, Look, Wake,
    CtxEnds, DialRead, DialFails, ServerFails, MarkExclusive, RecvValue, RecvFails,
    RecvMarksBad, EndCall, AcceptCall, AcceptFirst, AcceptOpen, ServerEndCall,
    ClientClose, ServerClose, Cut, Expire, OpenCall, SendStarts, HalfClose, RecvStarts,
    CloseCall, ServerSendFails, HandlerReturns, reads, env, WriteFails, vars, WireKept

\* Only Look puts a value into a reader's hand.
LEMMA KeepsHands ==
  ASSUME Types
  PROVE  /\ DialHello \/ DialAuth \/ DialRead \/ DialFails \/ ServerHello \/ ServerAuth
               \/ ServerFails \/ AcceptCall \/ AcceptFirst \/ AcceptOpen \/
               ServerFinish \/ ServerEndCall \/ ClientClose \/ ServerClose \/ Cut \/
               ServerSend \/ ServerSendFails \/ HandlerReturns \/ UNCHANGED vars =>
               HandsKept
         /\ \A s \in Sides : ReadLoopData(s) \/ ReadLoopPart(s) \/ ReadLoopFails(s) \/
               ReadLoopExits(s) \/ CloseConn(s) \/ CloseJoins(s) => HandsKept
         /\ \A p \in Readers : Wake(p) \/ CtxEnds(p) \/ Expire(p) => HandsKept
         /\ \A k \in Calls : MarkExclusive(k) \/ SendWrites(k) \/ RecvValue(k) \/
               RecvFails(k) \/ RecvMarksBad(k) \/ EndCall(k) \/ SendStarts(k) \/
               HalfClose(k) \/ RecvStarts(k) \/ CloseCall(k) => HandsKept
         /\ \A k \in Calls : \A m \in Methods[k] : OpenCall(k, m) => HandsKept
<1>0. /\ Readers = Calls \cup {Dial, Srv} /\ Dial \notin Calls /\ Srv \notin Calls /\ Dial # Srv
      /\ DOMAIN at = Readers /\ DOMAIN rd = Readers /\ DOMAIN res = Readers
      /\ ~Token(Outcome("ctx"))
  BY Numbers, AnswersOf DEF Types, Token, Outcome, Values, Words, Commands
<1>1. /\ ClientClose \/ ServerClose \/ Cut \/ ServerSend \/ UNCHANGED vars => HandsKept
      /\ \A s \in Sides : ReadLoopData(s) \/ ReadLoopPart(s) \/ ReadLoopFails(s) \/
            ReadLoopExits(s) \/ CloseConn(s) \/ CloseJoins(s) => HandsKept
      /\ \A p \in Readers : Expire(p) => HandsKept
      /\ \A k \in Calls : EndCall(k) \/ HalfClose(k) \/ CloseCall(k) => HandsKept
  <2>1. /\ ClientClose \/ ServerClose \/ Cut \/ ServerSend \/ UNCHANGED vars =>
              UNCHANGED <<at, rd, res>>
        /\ \A s \in Sides : ReadLoopData(s) \/ ReadLoopPart(s) \/ ReadLoopFails(s) \/
              ReadLoopExits(s) \/ CloseConn(s) \/ CloseJoins(s) => UNCHANGED <<at, rd,
              res>>
        /\ \A p \in Readers : Expire(p) => UNCHANGED <<at, rd, res>>
        /\ \A k \in Calls : EndCall(k) \/ HalfClose(k) \/ CloseCall(k) => UNCHANGED
              <<at, rd, res>>
    BY DEF ReadLoopData, ReadLoopPart, ReadLoopFails, ReadLoopExits, CloseConn,
        CloseJoins, EndCall, ClientClose, ServerClose, Cut, Expire, HalfClose,
        CloseCall, ServerSend, reads, env, CloseFlags, Broadcast, vars
  <2> QED
  BY <2>1 DEF HandsKept, InHand, Waiting
<1>3. ASSUME NEW p \in Readers, Wake(p) PROVE HandsKept
  BY <1>0, <1>3 DEF Wake, reads, HandsKept, InHand, Waiting
<1>4. ASSUME NEW p \in Readers, CtxEnds(p) PROVE HandsKept
  BY <1>0, <1>4, AnswersOf DEF CtxEnds, Outcome, HandsKept, InHand, Waiting
<1>5. ASSUME DialHello PROVE HandsKept
  BY <1>0, <1>5 DEF DialHello, HelloWrites, Goto, Await, HandsKept, InHand, Waiting
<1>6. ASSUME DialAuth PROVE HandsKept
  BY <1>0, <1>6 DEF DialAuth, HelloWrites, Goto, Await, HandsKept, InHand, Waiting
<1>7. ASSUME DialRead PROVE HandsKept
  BY <1>0, <1>7 DEF DialRead, Goto, HandsKept, InHand, Waiting
<1>8. ASSUME DialFails PROVE HandsKept
  BY <1>0, <1>8 DEF DialFails, CloseFlags, Broadcast, reads, HandsKept, InHand, Waiting
<1>9. ASSUME ServerHello PROVE HandsKept
  BY <1>0, <1>9 DEF ServerHello, Goto, Await, HandsKept, InHand, Waiting
<1>10. ASSUME ServerAuth PROVE HandsKept
  BY <1>0, <1>10 DEF ServerAuth, Goto, Await, HandsKept, InHand, Waiting
<1>11. ASSUME ServerFails PROVE HandsKept
  BY <1>0, <1>11 DEF ServerFails, CloseFlags, Broadcast, reads, HandsKept, InHand,
      Waiting
<1>12. ASSUME NEW k \in Calls, MarkExclusive(k) PROVE HandsKept
  BY <1>0, <1>12 DEF MarkExclusive, reads, HandsKept, InHand, Waiting
<1>13. ASSUME NEW k \in Calls, SendWrites(k) PROVE HandsKept
  BY <1>0, <1>13 DEF SendWrites, reads, HandsKept, InHand, Waiting
<1>14. ASSUME NEW k \in Calls, RecvValue(k) PROVE HandsKept
  BY <1>0, <1>14 DEF RecvValue, Goto, Returned, HandsKept, InHand, Waiting
<1>15. ASSUME NEW k \in Calls, RecvFails(k) PROVE HandsKept
  BY <1>0, <1>15 DEF RecvFails, Goto, Returned, HandsKept, InHand, Waiting
<1>16. ASSUME NEW k \in Calls, RecvMarksBad(k) PROVE HandsKept
  BY <1>0, <1>16 DEF RecvMarksBad, Goto, reads, HandsKept, InHand, Waiting
<1>17. ASSUME AcceptCall PROVE HandsKept
  BY <1>0, <1>17 DEF AcceptCall, Goto, Await, HandsKept, InHand, Waiting
<1>18. ASSUME AcceptFirst PROVE HandsKept
  BY <1>0, <1>18 DEF AcceptFirst, Goto, Await, HandsKept, InHand, Waiting
<1>19. ASSUME AcceptOpen PROVE HandsKept
  BY <1>0, <1>19 DEF AcceptOpen, Goto, Await, HandsKept, InHand, Waiting
<1>20. ASSUME ServerFinish PROVE HandsKept
  BY <1>0, <1>20 DEF ServerFinish, reads, HandsKept, InHand, Waiting
<1>21. ASSUME ServerEndCall PROVE HandsKept
  BY <1>0, <1>21 DEF ServerEndCall, Goto, NoSrv, reads, HandsKept, InHand, Waiting
<1>22. ASSUME NEW k \in Calls, NEW m \in Methods[k], OpenCall(k, m) PROVE HandsKept
  BY <1>0, <1>22 DEF OpenCall, reads, HandsKept, InHand, Waiting
<1>23. ASSUME NEW k \in Calls, SendStarts(k) PROVE HandsKept
  BY <1>0, <1>23 DEF SendStarts, reads, HandsKept, InHand, Waiting
<1>24. ASSUME NEW k \in Calls, RecvStarts(k) PROVE HandsKept
  BY <1>0, <1>24 DEF RecvStarts, Await, reads, HandsKept, InHand, Waiting
<1>25. ASSUME ServerSendFails PROVE HandsKept
  BY <1>0, <1>25 DEF ServerSendFails, reads, HandsKept, InHand, Waiting
<1>26. ASSUME HandlerReturns PROVE HandsKept
  BY <1>0, <1>26 DEF HandlerReturns, Goto, Streaming, reads, HandsKept, InHand, Waiting
<1> QED
  BY <1>1, <1>3, <1>4, <1>5, <1>6, <1>7, <1>8, <1>9, <1>10, <1>11, <1>12, <1>13,
      <1>14, <1>15, <1>16, <1>17, <1>18, <1>19, <1>20, <1>21, <1>22, <1>23, <1>24,
      <1>25, <1>26

\* Only AcceptOpen gives the server a command to answer.
LEMMA KeepsService ==
  ASSUME Types
  PROVE  /\ DialHello \/ DialAuth \/ DialRead \/ DialFails \/ ServerHello \/ ServerAuth
               \/ ServerFails \/ AcceptCall \/ AcceptFirst \/ ServerFinish \/
               ServerEndCall \/ ClientClose \/ ServerClose \/ Cut \/ ServerSend \/
               ServerSendFails \/ HandlerReturns \/ UNCHANGED vars => ServiceKept
         /\ \A s \in Sides : ReadLoopData(s) \/ ReadLoopPart(s) \/ ReadLoopFails(s) \/
               ReadLoopExits(s) \/ CloseConn(s) \/ CloseJoins(s) => ServiceKept
         /\ \A p \in Readers : Look(p) \/ Wake(p) \/ CtxEnds(p) \/ Expire(p) =>
               ServiceKept
         /\ \A k \in Calls : MarkExclusive(k) \/ SendWrites(k) \/ RecvValue(k) \/
               RecvFails(k) \/ RecvMarksBad(k) \/ EndCall(k) \/ SendStarts(k) \/
               HalfClose(k) \/ RecvStarts(k) \/ CloseCall(k) => ServiceKept
         /\ \A k \in Calls : \A m \in Methods[k] : OpenCall(k, m) => ServiceKept
<1>0. /\ srv \in SrvType /\ DOMAIN at = Readers
      /\ Srv \in Readers /\ Dial \in Readers /\ Srv # Dial /\ Srv \notin Calls
  BY Numbers DEF Types
<1>1. /\ DialHello \/ DialAuth \/ DialRead \/ DialFails \/ ClientClose \/ ServerClose
            \/ Cut \/ UNCHANGED vars => ServiceKept
      /\ \A s \in Sides : ReadLoopData(s) \/ ReadLoopPart(s) \/ ReadLoopFails(s) \/
            ReadLoopExits(s) \/ CloseConn(s) \/ CloseJoins(s) => ServiceKept
      /\ \A p \in Readers : Look(p) \/ Wake(p) \/ CtxEnds(p) \/ Expire(p) =>
            ServiceKept
      /\ \A k \in Calls : MarkExclusive(k) \/ SendWrites(k) \/ RecvValue(k) \/
            RecvFails(k) \/ RecvMarksBad(k) \/ EndCall(k) \/ SendStarts(k) \/
            HalfClose(k) \/ RecvStarts(k) \/ CloseCall(k) => ServiceKept
      /\ \A k \in Calls : \A m \in Methods[k] : OpenCall(k, m) => ServiceKept
  <2>1. /\ DialHello \/ DialAuth \/ DialRead \/ DialFails \/ ClientClose \/ ServerClose
              \/ Cut \/ UNCHANGED vars => UNCHANGED <<srv, at[Srv]>>
        /\ \A s \in Sides : ReadLoopData(s) \/ ReadLoopPart(s) \/ ReadLoopFails(s) \/
              ReadLoopExits(s) \/ CloseConn(s) \/ CloseJoins(s) => UNCHANGED <<srv,
              at[Srv]>>
        /\ \A p \in Readers : Look(p) \/ Wake(p) \/ CtxEnds(p) \/ Expire(p) =>
              UNCHANGED <<srv, at[Srv]>>
        /\ \A k \in Calls : MarkExclusive(k) \/ SendWrites(k) \/ RecvValue(k) \/
              RecvFails(k) \/ RecvMarksBad(k) \/ EndCall(k) \/ SendStarts(k) \/
              HalfClose(k) \/ RecvStarts(k) \/ CloseCall(k) => UNCHANGED <<srv,
              at[Srv]>>
        /\ \A k \in Calls : \A m \in Methods[k] : OpenCall(k, m) => UNCHANGED <<srv,
              at[Srv]>>
    BY <1>0 DEF ReadLoopData, ReadLoopPart, ReadLoopFails, ReadLoopExits, CloseConn,
        CloseJoins, Look, Wake, CtxEnds, DialHello, DialAuth, DialRead, DialFails,
        MarkExclusive, SendWrites, RecvValue, RecvFails, RecvMarksBad, EndCall,
        ClientClose, ServerClose, Cut, Expire, OpenCall, SendStarts, HalfClose,
        RecvStarts, CloseCall, reads, env, Goto, Await, HelloWrites, vars
  <2> QED
  BY <2>1 DEF ServiceKept, Engaged, Unanswered, Serving
<1>2. ASSUME ServerHello PROVE ServiceKept
  BY <1>0, <1>2 DEF ServerHello, Goto, Await, ServiceKept, Engaged, Unanswered, Serving,
      SrvType
<1>3. ASSUME ServerAuth PROVE ServiceKept
  BY <1>0, <1>3 DEF ServerAuth, Goto, Await, ServiceKept, Engaged, Unanswered, Serving,
      SrvType
<1>4. ASSUME ServerFails PROVE ServiceKept
  BY <1>0, <1>4 DEF ServerFails, CloseFlags, Broadcast, reads, ServiceKept, Engaged,
      Unanswered, Serving, SrvType
<1>5. ASSUME AcceptCall PROVE ServiceKept
  BY <1>0, <1>5 DEF AcceptCall, Goto, Await, ServiceKept, Engaged, Unanswered, Serving,
      SrvType
<1>6. ASSUME AcceptFirst PROVE ServiceKept
  BY <1>0, <1>6 DEF AcceptFirst, Goto, Await, ServiceKept, Engaged, Unanswered, Serving,
      SrvType
<1>8. ASSUME ServerFinish PROVE ServiceKept
  BY <1>0, <1>8 DEF ServerFinish, reads, Writes, WriteFails, ServiceKept, Engaged,
      Unanswered, Serving, SrvType
<1>9. ASSUME ServerEndCall PROVE ServiceKept
  BY <1>0, <1>9 DEF ServerEndCall, Goto, NoSrv, reads, ServiceKept, Engaged, Unanswered,
      Serving, SrvType
<1>10. ASSUME ServerSend PROVE ServiceKept
  <2>1. srv' = [srv EXCEPT !.replySent = TRUE, !.pushes = srv.pushes + 1] /\ at' = at
    BY <1>10 DEF ServerSend, reads
  <2>2. srv'.replySent /\ srv'.m = srv.m /\ srv'.k = srv.k
    BY <1>0, <2>1 DEF SrvType
  <2> QED
    BY <1>10, <2>1, <2>2 DEF ServerSend, ServiceKept, Engaged, Unanswered, Serving
<1>11. ASSUME ServerSendFails PROVE ServiceKept
  BY <1>0, <1>11 DEF ServerSendFails, reads, ServiceKept, Engaged, Unanswered, Serving,
      SrvType
<1>12. ASSUME HandlerReturns PROVE ServiceKept
  BY <1>0, <1>12 DEF HandlerReturns, Goto, ServiceKept, Engaged, Unanswered, Serving,
      SrvType
<1> QED
  BY <1>1, <1>2, <1>3, <1>4, <1>5, <1>6, <1>8, <1>9, <1>10, <1>11, <1>12

(***************************************************************************)
(* The calls and the order in which they end.                              *)

\* Ordered, of one call.
OrderedAt(j) ==
  /\ at[j] = "markBad" => ~call[j].closed
  /\ sess["C"].reusable /\ call[j].terminal =>
       at[j] = "markBad" \/ (at[j] = "user" /\ (call[j].sendDone \/ call[j].closed))
  /\ Opened(j) /\ ~Last(j) => Inert(j)
  /\ \A v \in got[j] : v.k = j

\* Nothing is under way on a connection that is free, nor before a request.
LEMMA FreeIsQuiet ==
  ASSUME CallsOk, sess["C"].reusable => Exact, at[Dial] = "ready",
         sess["C"].reusable, ~sess["C"].busy
  PROVE  Quiet
<1>1. ~Quiet => \E k \in Calls : Expects(k)
  BY DEF Exact, Expected
<1>2. \A k \in Calls : ~Expects(k)
  BY DEF CallsOk, OwnOk, Expects, Last
<1> QED
  BY <1>1, <1>2

\* A call that has work to do is the last one.
LEMMA WorksLast ==
  ASSUME CallsOk, Ordered, NEW k \in Calls, at[k] # "new", ~Inert(k)
  PROVE  /\ Last(k) /\ at[Dial] = "ready"
         /\ \A x \in Calls \cup {None} : Owner(x) => x = k
         /\ \A j \in Calls : ~Inert(j) /\ Opened(j) => j = k
<1>1. Last(k) /\ at[Dial] = "ready"
  BY DEF Ordered, Opened, CallsOk, Turn
<1>2. \A j \in Calls : Last(j) => j = k
  BY <1>1, Numbers DEF Last
<1> QED
  BY <1>1, <1>2 DEF Owner, Ordered, Opened

\* Unless a call is opened the owner stays.
LEMMA SameOwner ==
  ASSUME SameOpen
  PROVE  /\ \A j \in Calls : Last(j)' <=> Last(j)
         /\ \A x \in Calls \cup {None} : Owner(x)' <=> Owner(x)
BY DEF SameOpen, Last, Owner

\* The order of the calls: those before the last one are inert.
LEMMA OrderedStep ==
  ASSUME Types, Waits, CallsOk, Ordered, Owned, sess["C"].reusable => Exact,
         [Next]_vars, slips' = {}, NEW j \in Calls
  PROVE  OrderedAt(j)'
<1>0. /\ Readers = Calls \cup {Dial, Srv} /\ Dial \notin Calls /\ Srv \notin Calls /\ Dial # Srv
      /\ DOMAIN at = Readers /\ DOMAIN got = Calls /\ sess \in [Sides -> Sess]
             /\ "C" \in Sides /\ call \in [Calls -> CallType]
      /\ OrderedAt(j) /\ OwnOk(j) /\ slips' = {}
  BY Numbers DEF Types, CallsOk, Ordered, OrderedAt, Sides
<1>00. sess'["C"].reusable => sess["C"].reusable
  BY SteadyStep DEF Steady, Sides
<1>1. /\ DialHello \/ DialAuth \/ DialRead \/ DialFails \/ ServerHello \/ ServerAuth \/
            ServerFails \/ AcceptCall \/ AcceptFirst \/ AcceptOpen \/ ServerFinish \/
            ServerEndCall \/ ClientClose \/ ServerClose \/ Cut \/ ServerSend \/
            ServerSendFails \/ HandlerReturns \/ UNCHANGED vars => OrderedAt(j)'
      /\ \A s \in Sides : ReadLoopData(s) \/ ReadLoopPart(s) \/ ReadLoopFails(s) \/
            ReadLoopExits(s) \/ CloseConn(s) \/ CloseJoins(s) => OrderedAt(j)'
      /\ \A p \in Readers : Look(p) \/ Wake(p) \/ CtxEnds(p) \/ Expire(p) =>
            OrderedAt(j)'
  <2>1. /\ DialHello \/ DialAuth \/ DialRead \/ DialFails \/ ServerHello \/ ServerAuth
              \/ ServerFails \/ AcceptCall \/ AcceptFirst \/ AcceptOpen \/ ServerFinish
              \/ ServerEndCall \/ ClientClose \/ ServerClose \/ Cut \/ ServerSend \/
              ServerSendFails \/ HandlerReturns \/ UNCHANGED vars => UNCHANGED <<at[j],
              call, got>>
        /\ \A s \in Sides : ReadLoopData(s) \/ ReadLoopPart(s) \/ ReadLoopFails(s) \/
              ReadLoopExits(s) \/ CloseConn(s) \/ CloseJoins(s) => UNCHANGED <<at[j],
              call, got>>
        /\ \A p \in Readers : Look(p) \/ Wake(p) \/ CtxEnds(p) \/ Expire(p) =>
              UNCHANGED <<at[j], call, got>>
    BY <1>0 DEF ReadLoopData, ReadLoopPart, ReadLoopFails, ReadLoopExits, CloseConn,
        CloseJoins, Look, Wake, CtxEnds, DialHello, DialAuth, DialRead, DialFails,
        ServerHello, ServerAuth, ServerFails, AcceptCall, AcceptFirst, AcceptOpen,
        ServerFinish, ServerEndCall, ClientClose, ServerClose, Cut, Expire, ServerSend,
        ServerSendFails, HandlerReturns, reads, env, Goto, Await, HelloWrites, vars
  <2>2. /\ DialHello \/ DialAuth \/ DialRead \/ DialFails \/ ServerHello \/ ServerAuth
              \/ ServerFails \/ AcceptCall \/ AcceptFirst \/ AcceptOpen \/ ServerFinish
              \/ ServerEndCall \/ ClientClose \/ ServerClose \/ Cut \/ ServerSend \/
              ServerSendFails \/ HandlerReturns \/ UNCHANGED vars => SameOpen
        /\ \A s \in Sides : ReadLoopData(s) \/ ReadLoopPart(s) \/ ReadLoopFails(s) \/
              ReadLoopExits(s) \/ CloseConn(s) \/ CloseJoins(s) => SameOpen
        /\ \A p \in Readers : Look(p) \/ Wake(p) \/ CtxEnds(p) \/ Expire(p) => SameOpen
    BY Onwards
  <2>3. UNCHANGED <<at[j], call, got>> /\ SameOpen => OrderedAt(j)'
    BY <1>0, <1>00, SameOwner DEF OrderedAt, Opened, Inert
  <2> QED
    BY <2>1, <2>2, <2>3
<1>2. ASSUME NEW k \in Calls, MarkExclusive(k) PROVE OrderedAt(j)'
  BY <1>0, <1>00, <1>2, Onwards, SameOwner DEF MarkExclusive, reads, OrderedAt, Opened,
      Inert, CallType, OwnOk
<1>3. ASSUME NEW k \in Calls, SendWrites(k) PROVE OrderedAt(j)'
  BY <1>0, <1>00, <1>3, Onwards, SameOwner DEF SendWrites, Writes, WriteFails, reads,
      OrderedAt, Opened, Inert, CallType, OwnOk
<1>4. ASSUME NEW k \in Calls, RecvValue(k) PROVE OrderedAt(j)'
  <2>1. at[k] = "recv" /\ InHand(k) /\ k \in Readers
    BY <1>0, <1>4, AnswersOf DEF RecvValue, Returned, InHand, Waits, Waiting, Token, IsError,
        Outcome
  <2>2. Last(k) /\ at[Dial] = "ready" /\ \A x \in Calls \cup {None} : Owner(x) => x = k
    BY <2>1, WorksLast DEF Inert
  <2>3. res[k] \in Fits
    BY <2>1 DEF Owned
  <2>4. res[k].k = k
    BY <2>2, <2>3 DEF Fits, Values
  <2>5. sess["C"].reusable => call[k].sendDone
    <3>1. Has("resC")
      BY <1>0, <2>1 DEF Has
    <3>2. ~Quiet
      BY <3>1 DEF Quiet, Stations
    <3>3. sess["C"].reusable => \E i \in Calls : Expects(i)
      BY <2>2, <3>2 DEF Exact, Expected
    <3> QED
      BY <2>2, <3>3, Numbers DEF Expects, Last
  <2>6. /\ at' = [at EXCEPT ![k] = "user"] /\ got' = [got EXCEPT ![k] = got[k] \cup {res[k]}]
        /\ UNCHANGED sess
    BY <1>4 DEF RecvValue, Goto
  <2>7. \A i \in Calls : call'[i].closed = call[i].closed
            /\ call'[i].sendDone = call[i].sendDone
                           /\ (i # k => call'[i] = call[i])
    BY <1>0, <1>4 DEF RecvValue, CallType
  <2>10. \A i \in Calls : Last(i)' <=> Last(i)
    BY <1>4, Onwards, SameOwner
  <2>8. CASE j = k
    BY <1>0, <1>00, <2>1, <2>2, <2>4, <2>5, <2>6, <2>7, <2>8, <2>10 DEF OrderedAt, Opened, Inert
  <2>9. CASE j # k
    BY <1>0, <1>00, <2>6, <2>7, <2>9, <2>10 DEF OrderedAt, Opened, Inert
  <2> QED
    BY <2>8, <2>9
<1>5. ASSUME NEW k \in Calls, RecvFails(k) PROVE OrderedAt(j)'
  BY <1>0, <1>00, <1>5, Onwards, SameOwner DEF RecvFails, Goto, Returned, OrderedAt,
      Opened, Inert, CallType, OwnOk
<1>6. ASSUME NEW k \in Calls, RecvMarksBad(k) PROVE OrderedAt(j)'
  <2>1. ~sess'["C"].reusable /\ at' = [at EXCEPT ![k] = "user"] /\ UNCHANGED <<call, got>>
    BY <1>0, <1>6 DEF RecvMarksBad, Goto
  <2>2. at[k] = "markBad"
    BY <1>6 DEF RecvMarksBad
  <2>3. \A i \in Calls : Last(i)' <=> Last(i)
    BY <1>6, Onwards, SameOwner
  <2> QED
    BY <1>0, <2>1, <2>2, <2>3 DEF OrderedAt, Opened, Inert
<1>7. ASSUME NEW k \in Calls, EndCall(k) PROVE OrderedAt(j)'
  BY <1>0, <1>00, <1>7, Onwards, SameOwner DEF EndCall, reads, OrderedAt, Opened, Inert,
      CallType, OwnOk
<1>8. ASSUME NEW k \in Calls, NEW m \in Methods[k], OpenCall(k, m) PROVE OrderedAt(j)'
  <2>1. /\ UNCHANGED <<got>>
               /\ at' = [at EXCEPT ![k] = IF Streaming(m) THEN "exclusive" ELSE "user"]
        /\ call' = [call EXCEPT ![k].m = m] /\ sess["C"].reusable /\ ~sess["C"].busy
               /\ at[k] = "new"
    BY <1>8 DEF OpenCall, Lendable
  <2>2. NowOpen(k)
    BY <1>8, Onwards
  <2>3. CASE j = k
    <3>1. /\ ~call[j].terminal /\ got[j] = {}
      BY <2>1, <2>3 DEF CallsOk, OwnOk, Opened, NoCall
    <3>2. ~call'[j].terminal /\ at'[j] # "markBad" /\ got'[j] = {}
      BY <1>0, <2>1, <2>3, <3>1 DEF CallType
    <3>3. CallsOk'
      BY CallsStep
    <3>4. Last(j)'
      <4>1. \A i \in Calls : i > j => ~Opened(i)
        BY <2>1, <2>3, Numbers DEF CallsOk, Turn, Opened
      <4> QED
        BY <2>2, <2>3, <4>1, Numbers DEF Last, NowOpen
    <3> QED
      BY <3>2, <3>4 DEF OrderedAt
  <2>4. CASE j # k /\ Opened(j)
    <3>1. call[j].ending = "done" /\ call[j].closed /\ call[j].terminal
      BY <2>1, <2>4 DEF CallsOk, OwnOk
    <3>2. at[j] = "user"
      BY <1>0, <2>1, <3>1 DEF OrderedAt
    <3> QED
      BY <1>0, <1>00, <2>1, <2>4, <3>1, <3>2 DEF OrderedAt, Inert
  <2>5. CASE j # k /\ ~Opened(j)
    BY <1>0, <1>00, <2>1, <2>2, <2>5 DEF OrderedAt, NowOpen, Opened
  <2> QED
    BY <2>3, <2>4, <2>5
<1>9. ASSUME NEW k \in Calls, SendStarts(k) PROVE OrderedAt(j)'
  BY <1>0, <1>00, <1>9, Onwards, SameOwner DEF SendStarts, reads, OrderedAt, Opened,
      Inert, CallType, OwnOk
<1>10. ASSUME NEW k \in Calls, HalfClose(k) PROVE OrderedAt(j)'
  BY <1>0, <1>00, <1>10, Onwards, SameOwner DEF HalfClose, reads, OrderedAt, Opened,
      Inert, CallType, OwnOk
<1>11. ASSUME NEW k \in Calls, RecvStarts(k) PROVE OrderedAt(j)'
  BY <1>0, <1>00, <1>11, Onwards, SameOwner DEF RecvStarts, Await, OrderedAt, Opened,
      Inert, CallType, OwnOk
<1>12. ASSUME NEW k \in Calls, CloseCall(k) PROVE OrderedAt(j)'
  BY <1>0, <1>00, <1>12, Onwards, SameOwner DEF CloseCall, Poison, reads, OrderedAt,
      Opened, Inert, CallType, OwnOk
<1> QED
  BY <1>1, <1>2, <1>3, <1>4, <1>5, <1>6, <1>7, <1>8, <1>9, <1>10, <1>11, <1>12 DEF Next,
      Internal, External

(***************************************************************************)
(* Where the values go.                                                    *)

\* v has been written to side t ...
Posted(t, v) ==
  /\ v \in Values
  /\ Longer(wire[t], wire'[t], v)
  /\ \A u \in Sides \ {t} : wire'[u] = wire[u]
\* ... and r is a reply to a handshake's request.
Greets(r) == r \in {Val("HELLO", None), Val("AUTH", None)}

\* A successful Writes posts its value.
LEMMA Posting ==
  ASSUME Types, NEW s \in Sides, NEW v \in Values
  PROVE  /\ Writes(s, <<v>>) => Posted(Peer(s), v)
         /\ Writes(s, <<v>> \o <<>>) => Posted(Peer(s), v)
         /\ Writes(s, <<v>> \o <<Junk>>) => Posted(Peer(s), v)
<1>1. wire \in [Sides -> Input] /\ Peer(s) \in Sides /\ wire[Peer(s)] \in Input
  BY DEF Types, Peer, Sides
<1>2. /\ Longer(wire[Peer(s)], wire[Peer(s)] \o <<v>>, v)
      /\ Longer(wire[Peer(s)], wire[Peer(s)] \o (<<v>> \o <<>>), v)
      /\ Longer(wire[Peer(s)], wire[Peer(s)] \o (<<v>> \o <<Junk>>), v)
  BY <1>1, Lengthen
<1>3. ASSUME NEW vs, Writes(s, vs), Longer(wire[Peer(s)], wire[Peer(s)] \o vs, v)
      PROVE  Posted(Peer(s), v)
  BY <1>1, <1>3 DEF Writes, Posted
<1> QED
  BY <1>2, <1>3

\* What each writer posts, and behind what: the dial ...
LEMMA DialPosts ==
  ASSUME Types, DialHello \/ DialAuth
  PROVE  /\ at[Dial] \in {"hello", "auth"}
         /\ \/ WireKept /\ at'[Dial] = "fail"
            \/ /\ at'[Dial] \in {"helloRead", "authRead"}
               /\ \E v \in Values : Greets(v) /\ Posted("S", v)
<1>0. /\ DOMAIN at = Readers /\ Dial \in Readers
      /\ Val("HELLO", None) \in Values /\ Val("AUTH", None) \in Values
      /\ "C" \in Sides /\ Peer("C") = "S"
  BY Numbers, Written DEF Types, Sides, Peer
<1>1. PICK v \in Values : Greets(v) /\ HelloWrites("C", v) /\ at[Dial] \in {"hello", "auth"}
  BY <1>0 DEF DialHello, DialAuth, Greets
<1>2. CASE Writes("C", <<v>>) /\ Await(Dial, IF v.m = "HELLO" THEN "helloRead" ELSE "authRead")
  <2>1. Posted("S", v)
    BY <1>0, <1>2, Posting
  <2>2. at'[Dial] \in {"helloRead", "authRead"}
    BY <1>0, <1>2 DEF Await
  <2> QED
    BY <1>1, <2>1, <2>2
<1>3. CASE WriteFails("C") /\ Goto(Dial, "fail")
  BY <1>0, <1>1, <1>3 DEF WriteFails, Goto, WireKept
<1> QED
  BY <1>1, <1>2, <1>3 DEF HelloWrites

\* ... a call's Send ...
LEMMA CallPosts ==
  ASSUME Types, CallsOk, NEW k \in Calls, SendWrites(k)
  PROVE  /\ at[k] = "write"
         /\ \/ WireKept /\ UNCHANGED call /\ ~sess'["C"].reusable
            \/ /\ Posted("S", Val(call[k].m, k)) /\ call[k].m \in Commands
               /\ call' = [call EXCEPT ![k].sendDone = TRUE]
<1>0. "C" \in Sides /\ Peer("C") = "S" /\ sess \in [Sides -> Sess]
  BY DEF Types, Sides, Peer
<1>1. at[k] = "write"
  BY DEF SendWrites
<1>2. call[k].m \in Commands
  BY <1>1 DEF CallsOk, OwnOk, Opened
<1>3. CASE Writes("C", <<Val(call[k].m, k)>>) /\ call' = [call EXCEPT ![k].sendDone = TRUE]
  BY <1>0, <1>1, <1>2, <1>3, Posting, Written
<1>4. CASE WriteFails("C") /\ UNCHANGED call
  BY <1>0, <1>1, <1>4 DEF WriteFails, WireKept, Sess
<1> QED
  BY <1>3, <1>4 DEF SendWrites

\* ... the server's side of the handshake, for a greeting in hand ...
LEMMA ServerGreets ==
  ASSUME Types, Waits, ServerHello \/ ServerAuth
  PROVE  \/ WireKept
         \/ /\ InHand(Srv) /\ ~InHand(Srv)' /\ res[Srv].m \in {"HELLO", "AUTH"}
            /\ \E v \in Values : /\ v.k = None /\ v.m \in {"OK", "ERR"}
                                 /\ Posted("C", v)
<1>0. /\ DOMAIN at = Readers /\ DOMAIN rd = Readers /\ Srv \in Readers
      /\ "S" \in Sides /\ Peer("S") = "C"
      /\ \A m \in {"OK", "ERR"} : Val(m, None) \in Values /\ Val(m, None).k = None
             /\ Val(m, None).m = m
  BY Numbers, Written DEF Types, Sides, Peer, Val
<1>1. SUFFICES ASSUME ~WireKept
      PROVE  /\ InHand(Srv) /\ ~InHand(Srv)' /\ res[Srv].m \in {"HELLO", "AUTH"}
             /\ \E v \in Values : /\ v.k = None /\ v.m \in {"OK", "ERR"}
                                  /\ Posted("C", v)
  OBVIOUS
<1>2. ~IsError(res[Srv]) /\ res[Srv].m \in {"HELLO", "AUTH"} /\ rd[Srv] = "off" /\ Waiting(Srv)
  BY <1>1 DEF ServerHello, ServerAuth, WireKept, WriteFails, Returned, Waiting
<1>3. InHand(Srv)
  <2>1. res[Srv] \in Answers
    BY <1>0, <1>2 DEF Waits
  <2> QED
    BY <1>2, <2>1, AnswersOf DEF InHand, Token, Outcome
<1>4. PICK m \in {"OK", "ERR"} : Writes("S", <<Val(m, None)>>)
  BY <1>1 DEF ServerHello, ServerAuth, WireKept, WriteFails
<1>5. Posted("C", Val(m, None))
  BY <1>0, <1>4, Posting
<1>6. ~InHand(Srv)'
  BY <1>0 DEF ServerHello, ServerAuth, Goto, Await, InHand, Waiting
<1> QED
  BY <1>0, <1>2, <1>3, <1>5, <1>6

\* ... and its handler, for the command it serves.
LEMMA ServerReplies ==
  ASSUME Types, ServerSend \/ ServerFinish, slips' = {}
  PROVE  \/ WireKept
         \/ /\ Engaged /\ ~Unanswered' /\ (Unanswered \/ Streaming(srv.m))
            /\ \E v \in Values : /\ v.k = srv.k /\ v.m \in {"push", "reply", "ERR"}
                                 /\ Posted("C", v)
<1>0. /\ DOMAIN at = Readers /\ Srv \in Readers /\ srv \in SrvType
      /\ "S" \in Sides /\ Peer("S") = "C"
      /\ \A m \in {"push", "reply", "ERR"} : /\ Val(m, srv.k) \in Values
                                             /\ Val(m, srv.k).k = srv.k /\ Val(m, srv.k).m = m
  BY Numbers, Written DEF Types, Sides, Peer, Val, SrvType
<1>1. SUFFICES ASSUME ~WireKept
      PROVE  /\ Engaged /\ ~Unanswered' /\ (Unanswered \/ Streaming(srv.m))
             /\ \E v \in Values : /\ v.k = srv.k /\ v.m \in {"push", "reply", "ERR"}
                                  /\ Posted("C", v)
  OBVIOUS
<1>2. CASE ServerSend
  <2>1. PICK m \in {"push", "reply"} : Writes("S", <<Val(m, srv.k)>>)
    <3>1. CASE Streaming(srv.m)
      BY <1>2, <3>1 DEF ServerSend
    <3>2. CASE ~Streaming(srv.m)
      BY <1>2, <3>2 DEF ServerSend
    <3> QED
      BY <3>1, <3>2
  <2>2. Posted("C", Val(m, srv.k))
    BY <1>0, <2>1, Posting
  <2>3. Serving /\ (~srv.replySent \/ Streaming(srv.m))
    BY <1>2 DEF ServerSend, Serving
  <2>4. srv'.replySent
    BY <1>0, <1>2 DEF ServerSend, SrvType
  <2> QED
    BY <1>0, <2>2, <2>3, <2>4 DEF Engaged, Unanswered
<1>3. CASE ServerFinish
  <2>1. /\ at[Srv] \in {"finish", "reject"} /\ ~srv.replySent
        /\ \E rest \in {<<>>, <<Junk>>} : Writes("S", <<Val("ERR", srv.k)>> \o rest)
        /\ srv' = [srv EXCEPT !.finished = TRUE, !.replySent = TRUE]
    BY <1>1, <1>3 DEF ServerFinish, Rests, WireKept, WriteFails
  <2>2. Posted("C", Val("ERR", srv.k))
    <3> PICK rest \in {<<>>, <<Junk>>} : Writes("S", <<Val("ERR", srv.k)>> \o rest)
      BY <2>1
    <3> QED
      BY <1>0, Posting
  <2>3. Unanswered /\ srv'.replySent
    BY <1>0, <2>1 DEF Unanswered, Serving, SrvType
  <2> QED
    BY <1>0, <2>2, <2>3 DEF Engaged, Unanswered
<1> QED
  BY <1>2, <1>3

\* What each read takes, and from where: the read loop from the wire ...
LEMMA LoopTakes ==
  ASSUME Types, NEW s \in Sides, ReadLoopData(s)
  PROVE  /\ Shorter(wire[s], wire'[s], Head(wire[s]))
         /\ Longer(sess[s].buf, sess'[s].buf, Head(wire[s]))
         /\ \A t \in Sides \ {s} : wire'[t] = wire[t] /\ sess'[t].buf = sess[t].buf
<1>1. /\ wire \in [Sides -> Input] /\ wire[s] # <<>>
             /\ wire' = [wire EXCEPT ![s] = Tail(wire[s])]
      /\ sess[s].buf \in Input
  BY DEF Types, ReadLoopData, Sess
<1>2. /\ sess'[s].buf = Append(Whole(sess[s].buf), Head(wire[s]))
      /\ \A t \in Sides \ {s} : sess'[t] = sess[t]
  BY DataSess
<1>3. Head(wire[s]) \in Values \cup {Junk, Part}
  BY <1>1, InputRead
<1>4. wire'[s] = Tail(wire[s]) /\ \A t \in Sides \ {s} : wire'[t] = wire[t]
  BY <1>1
<1> QED
  BY <1>1, <1>2, <1>3, <1>4, Shorten, Lengthen

\* ... or only the beginning of a value ...
LEMMA LoopStarts ==
  ASSUME Types, NEW s \in Sides, ReadLoopPart(s)
  PROVE  /\ Longer(sess[s].buf, sess'[s].buf, Part) /\ ~Token(Part)
         /\ \A t \in Sides \ {s} : sess'[t].buf = sess[t].buf
<1>1. sess[s].buf \in Input
  BY DEF Types, Sess
<1>2. sess'[s].buf = Append(sess[s].buf, Part) /\ \A t \in Sides \ {s} : sess'[t] = sess[t]
  BY DataSess
<1> QED
  BY <1>1, <1>2, Lengthen, Blanks DEF Token

\* ... a reader from the buffer ...
LEMMA ReaderTakes ==
  ASSUME Types, NEW p \in Readers, Look(p)
  PROVE  LET s == SideOf(p) IN
         /\ UNCHANGED <<at, srv>> /\ WireKept
         /\ \A q \in Readers \ {p} : InHand(q)' => InHand(q) /\ res'[q] = res[q]
         /\ ~InHand(p)
         /\ \/ BufsKept /\ ~InHand(p)'
            \/ /\ Shorter(sess[s].buf, sess'[s].buf, res'[p]) /\ Token(res'[p])
               /\ \A t \in Sides \ {s} : sess'[t].buf = sess[t].buf
<1> DEFINE s == SideOf(p)
           r == LookResult(p)
<1>0. /\ rd \in [Readers -> {"off", "look", "park"}] /\ DOMAIN res = Readers
      /\ s \in Sides /\ sess[s].buf \in Input /\ rd[p] = "look"
  BY DEF Types, SideOf, Sides, Sess, Look
<1>1. UNCHANGED <<at, srv>> /\ WireKept
  BY DEF Look, WireKept
<1>2. ~InHand(p)
  BY <1>0 DEF InHand
<1>3. \A t \in Sides \ {s} : sess'[t].buf = sess[t].buf
  BY LookSess
<1>4. CASE rd' = [rd EXCEPT ![p] = "park"] /\ res' = res /\ sess' = sess
  BY <1>0, <1>1, <1>2, <1>4 DEF InHand, Waiting, BufsKept
<1>5. CASE /\ r \in {Outcome("byte"), Outcome("bad"), Outcome("err")}
           /\ rd' = [rd EXCEPT ![p] = "off"] /\ res' = [res EXCEPT ![p] = r]
           /\ sess'[s].buf = sess[s].buf
  <2>1. ~Token(r)
    BY <1>5 DEF Token, Outcome, Values, Words, Commands
  <2>2. ~InHand(p)' /\ BufsKept
    BY <1>0, <1>3, <1>5, <2>1 DEF InHand, BufsKept
  <2>3. \A q \in Readers \ {p} : InHand(q)' => InHand(q) /\ res'[q] = res[q]
    BY <1>0, <1>1, <1>5 DEF InHand, Waiting
  <2> QED
    BY <1>1, <1>2, <2>2, <2>3
<1>6. CASE /\ sess[s].buf # <<>> /\ r = Head(sess[s].buf) /\ r \in Values
           /\ rd' = [rd EXCEPT ![p] = "off"] /\ res' = [res EXCEPT ![p] = r]
           /\ sess'[s].buf = Tail(sess[s].buf)
  <2>1. res'[p] = Head(sess[s].buf) /\ Token(res'[p])
    BY <1>0, <1>6 DEF Token
  <2>2. \A q \in Readers \ {p} : InHand(q)' => InHand(q) /\ res'[q] = res[q]
    BY <1>0, <1>1, <1>6 DEF InHand, Waiting
  <2>3. Shorter(sess[s].buf, sess'[s].buf, res'[p])
    BY <1>0, <1>6, <2>1, Shorten
  <2> QED
    BY <1>1, <1>2, <1>3, <2>1, <2>2, <2>3
<1> QED
  BY <1>4, <1>5, <1>6, LookSess

\* ... and AcceptOpen from the reader's hand.
LEMMA ServerTakes ==
  ASSUME Types, Waits, AcceptOpen
  PROVE  \/ ServiceKept
         \/ /\ InHand(Srv) /\ ~InHand(Srv)' /\ srv'.k = res[Srv].k /\ srv'.m = res[Srv].m
<1>0. /\ DOMAIN at = Readers /\ DOMAIN rd = Readers /\ Srv \in Readers
      /\ at[Srv] = "open" /\ rd[Srv] = "off"
  BY Numbers DEF Types, AcceptOpen, Returned
<1>1. CASE IsError(res[Srv])
  BY <1>0, <1>1 DEF AcceptOpen, Goto, ServiceKept, Engaged, Unanswered, Serving
<1>2. CASE ~IsError(res[Srv])
  <2>1. InHand(Srv)
    BY <1>0, <1>2, AnswersOf DEF InHand, Waits, Waiting, Token, Outcome
  <2>2. ~InHand(Srv)' /\ srv'.k = res[Srv].k /\ srv'.m = res[Srv].m
    BY <1>0, <1>2 DEF AcceptOpen, Goto, InHand, Waiting, NoSrv, Known
  <2> QED
    BY <2>1, <2>2
<1> QED
  BY <1>1, <1>2

(***************************************************************************)
(* Everything under way is the last call's.                                *)

\* Owned behind a step, part by part, with the owners of before.
Ours(x, m) == Owner(x) /\ (sess["C"].reusable => ~Streaming(m))
WiresFit == \A s \in Sides : Within(wire'[s], Fits)
BufsFit == \A s \in Sides : Within(sess'[s].buf, Fits)
HandsFit == \A p \in Readers : InHand(p)' => res'[p] \in Fits
ServiceFits == Engaged' => Ours(srv'.k, srv'.m)

\* What stays where it was still fits.
LEMMA KeptFits ==
  ASSUME Owned
  PROVE  /\ WireKept => WiresFit
         /\ BufsKept => BufsFit
         /\ HandsKept => HandsFit
         /\ ServiceKept => ServiceFits
         /\ Engaged => Ours(srv.k, srv.m)
BY DEF Owned, WireKept, WiresFit, BufsKept, BufsFit, HandsKept, HandsFit, ServiceKept,
    ServiceFits, Engaged, Ours

\* With the same calls open, the parts make the whole.
LEMMA FitsCarry ==
  ASSUME Types, [Next]_vars, SameOpen, WiresFit, BufsFit, HandsFit, ServiceFits,
         srv' \in SrvType
  PROVE  Owned'
<1>1. sess'["C"].reusable => sess["C"].reusable
  BY SteadyStep DEF Steady, Sides
<1>2. \A x \in Calls \cup {None} : Owner(x)' <=> Owner(x)
  BY SameOwner
<1>3. Fits \subseteq Fits'
  BY <1>1, <1>2 DEF Fits, Values
<1>4. srv'.k \in Calls \cup {None}
  BY DEF SrvType
<1>5. \A b : Within(b, Fits) => Within(b, Fits')
  BY <1>3 DEF Within
<1>6. \A s \in Sides : Within(wire'[s], Fits') /\ Within(sess'[s].buf, Fits')
  BY <1>5 DEF WiresFit, BufsFit
<1>7. \A p \in Readers : InHand(p)' => res'[p] \in Fits'
  BY <1>3 DEF HandsFit
<1>8. Engaged' => (Owner(srv.k) /\ (sess["C"].reusable => ~Streaming(srv.m)))'
  <2>1. Engaged' => Owner(srv'.k) /\ (sess["C"].reusable => ~Streaming(srv'.m))
    BY DEF ServiceFits, Ours
  <2>2. Owner(srv'.k) => Owner(srv.k)'
    BY <1>4 DEF SameOpen, Owner, Last
  <2> QED
    BY <1>1, <2>1, <2>2 DEF Streaming
<1>9. (\A s \in Sides : Within(wire[s], Fits) /\ Within(sess[s].buf, Fits))'
  BY <1>6 DEF Within
<1>10. (\A p \in Readers : InHand(p) => res[p] \in Fits)'
  BY <1>7
<1> QED
  BY <1>8, <1>9, <1>10 DEF Owned, Engaged

\* Posting what fits.
LEMMA PostFits ==
  ASSUME Owned, NEW t \in Sides, NEW v \in Fits, Posted(t, v)
  PROVE  WiresFit
BY DEF Owned, Posted, Longer, WiresFit

\* Whatever is under way belongs to the owner.
LEMMA OwnedStep ==
  ASSUME Types, Waits, Serves, CallsOk, Ordered, Owned, sess["C"].reusable => Exact,
         [Next]_vars, slips' = {}
  PROVE  Owned'
<1>0. "C" \in Sides /\ "S" \in Sides /\ Srv \in Readers
  BY Numbers DEF Sides
<1>00. srv' \in SrvType
  BY SrvStep
<1>1. /\ DialRead \/ DialFails \/ ServerFails \/ AcceptCall \/ AcceptFirst \/
            ServerEndCall \/ ClientClose \/ ServerClose \/ Cut \/ ServerSendFails \/
            HandlerReturns \/ UNCHANGED vars => Owned'
      /\ \A s \in Sides : ReadLoopFails(s) \/ ReadLoopExits(s) \/ CloseConn(s) \/
            CloseJoins(s) => Owned'
      /\ \A p \in Readers : Wake(p) \/ CtxEnds(p) \/ Expire(p) => Owned'
      /\ \A k \in Calls : MarkExclusive(k) \/ RecvValue(k) \/ RecvFails(k) \/
            RecvMarksBad(k) \/ EndCall(k) \/ SendStarts(k) \/ HalfClose(k) \/
            RecvStarts(k) \/ CloseCall(k) => Owned'
  <2>1. /\ DialRead \/ DialFails \/ ServerFails \/ AcceptCall \/ AcceptFirst \/
              ServerEndCall \/ ClientClose \/ ServerClose \/ Cut \/ ServerSendFails \/
              HandlerReturns \/ UNCHANGED vars => WireKept
        /\ \A s \in Sides : ReadLoopFails(s) \/ ReadLoopExits(s) \/ CloseConn(s) \/
              CloseJoins(s) => WireKept
        /\ \A p \in Readers : Wake(p) \/ CtxEnds(p) \/ Expire(p) => WireKept
        /\ \A k \in Calls : MarkExclusive(k) \/ RecvValue(k) \/ RecvFails(k) \/
              RecvMarksBad(k) \/ EndCall(k) \/ SendStarts(k) \/ HalfClose(k) \/
              RecvStarts(k) \/ CloseCall(k) => WireKept
    BY KeepsWire
  <2>2. /\ DialRead \/ DialFails \/ ServerFails \/ AcceptCall \/ AcceptFirst \/
              ServerEndCall \/ ClientClose \/ ServerClose \/ Cut \/ ServerSendFails \/
              HandlerReturns \/ UNCHANGED vars => BufsKept
        /\ \A s \in Sides : ReadLoopFails(s) \/ ReadLoopExits(s) \/ CloseConn(s) \/
              CloseJoins(s) => BufsKept
        /\ \A p \in Readers : Wake(p) \/ CtxEnds(p) \/ Expire(p) => BufsKept
        /\ \A k \in Calls : MarkExclusive(k) \/ RecvValue(k) \/ RecvFails(k) \/
              RecvMarksBad(k) \/ EndCall(k) \/ SendStarts(k) \/ HalfClose(k) \/
              RecvStarts(k) \/ CloseCall(k) => BufsKept
    BY KeepsBufs
  <2>3. /\ DialRead \/ DialFails \/ ServerFails \/ AcceptCall \/ AcceptFirst \/
              ServerEndCall \/ ClientClose \/ ServerClose \/ Cut \/ ServerSendFails \/
              HandlerReturns \/ UNCHANGED vars => HandsKept
        /\ \A s \in Sides : ReadLoopFails(s) \/ ReadLoopExits(s) \/ CloseConn(s) \/
              CloseJoins(s) => HandsKept
        /\ \A p \in Readers : Wake(p) \/ CtxEnds(p) \/ Expire(p) => HandsKept
        /\ \A k \in Calls : MarkExclusive(k) \/ RecvValue(k) \/ RecvFails(k) \/
              RecvMarksBad(k) \/ EndCall(k) \/ SendStarts(k) \/ HalfClose(k) \/
              RecvStarts(k) \/ CloseCall(k) => HandsKept
    BY KeepsHands
  <2>4. /\ DialRead \/ DialFails \/ ServerFails \/ AcceptCall \/ AcceptFirst \/
              ServerEndCall \/ ClientClose \/ ServerClose \/ Cut \/ ServerSendFails \/
              HandlerReturns \/ UNCHANGED vars => ServiceKept
        /\ \A s \in Sides : ReadLoopFails(s) \/ ReadLoopExits(s) \/ CloseConn(s) \/
              CloseJoins(s) => ServiceKept
        /\ \A p \in Readers : Wake(p) \/ CtxEnds(p) \/ Expire(p) => ServiceKept
        /\ \A k \in Calls : MarkExclusive(k) \/ RecvValue(k) \/ RecvFails(k) \/
              RecvMarksBad(k) \/ EndCall(k) \/ SendStarts(k) \/ HalfClose(k) \/
              RecvStarts(k) \/ CloseCall(k) => ServiceKept
    BY KeepsService
  <2>5. /\ DialRead \/ DialFails \/ ServerFails \/ AcceptCall \/ AcceptFirst \/
              ServerEndCall \/ ClientClose \/ ServerClose \/ Cut \/ ServerSendFails \/
              HandlerReturns \/ UNCHANGED vars => SameOpen
        /\ \A s \in Sides : ReadLoopFails(s) \/ ReadLoopExits(s) \/ CloseConn(s) \/
              CloseJoins(s) => SameOpen
        /\ \A p \in Readers : Wake(p) \/ CtxEnds(p) \/ Expire(p) => SameOpen
        /\ \A k \in Calls : MarkExclusive(k) \/ RecvValue(k) \/ RecvFails(k) \/
              RecvMarksBad(k) \/ EndCall(k) \/ SendStarts(k) \/ HalfClose(k) \/
              RecvStarts(k) \/ CloseCall(k) => SameOpen
    BY Onwards
  <2>6. WireKept /\ BufsKept /\ HandsKept /\ ServiceKept /\ SameOpen => Owned'
    BY <1>00, KeptFits, FitsCarry
  <2> QED
    BY <2>1, <2>2, <2>3, <2>4, <2>5, <2>6
<1>2. ASSUME NEW s \in Sides, ReadLoopData(s) PROVE Owned'
  <2>1. WiresFit
    BY <1>2, LoopTakes DEF Owned, Shorter, WiresFit
  <2>2. BufsFit
    <3>1. Token(Head(wire[s])) => Head(wire[s]) \in Fits
      BY <1>2, LoopTakes DEF Owned, Shorter
    <3> QED
      BY <1>2, <3>1, LoopTakes DEF Owned, Longer, BufsFit
  <2>3. HandsKept /\ ServiceKept /\ SameOpen
    BY <1>2, KeepsHands, KeepsService, Onwards
  <2> QED
    BY <1>00, <2>1, <2>2, <2>3, KeptFits, FitsCarry
<1>3. ASSUME NEW s \in Sides, ReadLoopPart(s) PROVE Owned'
  <2>1. BufsFit
    BY <1>3, LoopStarts DEF Owned, Longer, BufsFit
  <2>2. WireKept /\ HandsKept /\ ServiceKept /\ SameOpen
    BY <1>3, KeepsWire, KeepsHands, KeepsService, Onwards
  <2> QED
    BY <1>00, <2>1, <2>2, KeptFits, FitsCarry
<1>4. ASSUME NEW p \in Readers, Look(p) PROVE Owned'
  <2>1. WireKept /\ ServiceKept /\ SameOpen
    BY <1>4, KeepsWire, KeepsService, Onwards
  <2>2. HandsFit
    <3>1. InHand(p)' => res'[p] \in Fits
      BY <1>4, ReaderTakes DEF Owned, Shorter, SideOf, Sides
    <3>2. \A q \in Readers \ {p} : InHand(q)' => res'[q] \in Fits
      BY <1>4, ReaderTakes DEF Owned
    <3> QED
      BY <3>1, <3>2 DEF HandsFit
  <2>3. BufsFit
    <3>1. CASE BufsKept
      BY <3>1, KeptFits
    <3>2. CASE ~BufsKept
      BY <1>4, <3>2, ReaderTakes DEF Owned, Shorter, BufsFit
    <3> QED
      BY <3>1, <3>2
  <2> QED
    BY <1>00, <2>1, <2>2, <2>3, KeptFits, FitsCarry
<1>5. ASSUME DialHello \/ DialAuth PROVE Owned'
  <2>1. BufsKept /\ HandsKept /\ ServiceKept /\ SameOpen
    BY <1>5, KeepsBufs, KeepsHands, KeepsService, Onwards
  <2>2. WiresFit
    <3>1. CASE WireKept
      BY <3>1, KeptFits
    <3>2. CASE ~WireKept
      <4>1. PICK v \in Values : Greets(v) /\ Posted("S", v)
        BY <1>5, <3>2, DialPosts
      <4>2. Owner(None)
        BY <1>5, DialPosts DEF CallsOk, Turn, Owner
      <4>3. v \in Fits
        BY <4>1, <4>2 DEF Greets, Val, Fits, Streaming
      <4> QED
        BY <1>0, <4>1, <4>3, PostFits
    <3> QED
      BY <3>1, <3>2
  <2> QED
    BY <1>00, <2>1, <2>2, KeptFits, FitsCarry
<1>6. ASSUME NEW k \in Calls, SendWrites(k) PROVE Owned'
  <2>1. BufsKept /\ HandsKept /\ ServiceKept /\ SameOpen
    BY <1>6, KeepsBufs, KeepsHands, KeepsService, Onwards
  <2>2. WiresFit
    <3>1. CASE WireKept
      BY <3>1, KeptFits
    <3>2. CASE ~WireKept
      <4> DEFINE v == Val(call[k].m, k)
      <4>1. at[k] = "write" /\ Posted("S", v) /\ call[k].m \in Commands
        BY <1>6, <3>2, CallPosts
      <4>2. Owner(k)
        BY <4>1, WorksLast, Numbers, RespAssumption DEF Inert, Owner
      <4>3. sess["C"].reusable => ~Streaming(call[k].m)
        BY <4>1 DEF CallsOk, OwnOk
      <4>4. v.m = call[k].m /\ v.k = k /\ v \in Values
        BY <4>1 DEF Val, Posted
      <4>5. v \in Fits
        BY <4>1, <4>2, <4>3, <4>4 DEF Fits, Commands
      <4> QED
        BY <1>0, <4>1, <4>5, PostFits
    <3> QED
      BY <3>1, <3>2
  <2> QED
    BY <1>00, <2>1, <2>2, KeptFits, FitsCarry
<1>7. ASSUME ServerHello \/ ServerAuth PROVE Owned'
  <2>1. BufsKept /\ HandsKept /\ ServiceKept /\ SameOpen
    BY <1>7, KeepsBufs, KeepsHands, KeepsService, Onwards
  <2>2. WiresFit
    <3>1. CASE WireKept
      BY <3>1, KeptFits
    <3>2. CASE ~WireKept
      <4>1. PICK v \in Values : v.k = None /\ v.m \in {"OK", "ERR"} /\ Posted("C", v)
        BY <1>7, <3>2, ServerGreets
      <4>2. res[Srv] \in Fits /\ res[Srv].m \in {"HELLO", "AUTH"}
        BY <1>0, <1>7, <3>2, ServerGreets DEF Owned
      <4>3. v \in Fits
        BY <4>1, <4>2 DEF Fits, Streaming
      <4> QED
        BY <1>0, <4>1, <4>3, PostFits
    <3> QED
      BY <3>1, <3>2
  <2> QED
    BY <1>00, <2>1, <2>2, KeptFits, FitsCarry
<1>8. ASSUME ServerSend \/ ServerFinish PROVE Owned'
  <2>1. BufsKept /\ HandsKept /\ ServiceKept /\ SameOpen
    BY <1>8, KeepsBufs, KeepsHands, KeepsService, Onwards
  <2>2. WiresFit
    <3>1. CASE WireKept
      BY <3>1, KeptFits
    <3>2. CASE ~WireKept
      <4>1. PICK v \in Values : v.k = srv.k /\ v.m \in {"push", "reply", "ERR"}
                /\ Posted("C", v)
        BY <1>8, <3>2, ServerReplies
      <4>2. Owner(srv.k)
        BY <1>8, <3>2, ServerReplies, KeptFits DEF Ours
      <4>3. v \in Fits
        BY <4>1, <4>2 DEF Fits, Streaming
      <4> QED
        BY <1>0, <4>1, <4>3, PostFits
    <3> QED
      BY <3>1, <3>2
  <2> QED
    BY <1>00, <2>1, <2>2, KeptFits, FitsCarry
<1>9. ASSUME AcceptOpen PROVE Owned'
  <2>1. WireKept /\ BufsKept /\ HandsKept /\ SameOpen
    BY <1>9, KeepsWire, KeepsBufs, KeepsHands, Onwards
  <2>2. ServiceFits
    <3>1. CASE ServiceKept
      BY <3>1, KeptFits
    <3>2. CASE ~ServiceKept
      <4>1. InHand(Srv) /\ srv'.k = res[Srv].k /\ srv'.m = res[Srv].m
        BY <1>9, <3>2, ServerTakes
      <4> QED
        BY <1>0, <4>1 DEF Owned, Fits, ServiceFits, Ours
    <3> QED
      BY <3>1, <3>2
  <2> QED
    BY <1>00, <2>1, <2>2, KeptFits, FitsCarry
<1>10. ASSUME NEW k \in Calls, NEW m \in Methods[k], OpenCall(k, m) PROVE Owned'
  <2>1. WireKept /\ BufsKept /\ HandsKept /\ ServiceKept
    BY <1>10, KeepsWire, KeepsBufs, KeepsHands, KeepsService
  <2>2. Quiet /\ sess["C"].reusable
    BY <1>10, FreeIsQuiet DEF OpenCall, Lendable
  <2>3. /\ \A s \in Sides : ~Holds(wire[s]) /\ ~Holds(sess[s].buf)
        /\ \A p \in Readers : ~InHand(p)
        /\ ~Unanswered
    BY <1>0, <2>2, Numbers DEF Quiet, Stations, Has, Sides
  <2>4. ~Engaged
    BY <2>2, <2>3, KeptFits DEF Engaged, Unanswered, Ours
  <2>5. /\ \A s \in Sides : ~Holds(wire'[s]) /\ ~Holds(sess'[s].buf)
        /\ \A p \in Readers : ~InHand(p)'
        /\ ~Engaged'
    BY <2>1, <2>3, <2>4 DEF WireKept, BufsKept, HandsKept, ServiceKept
  <2> QED
    BY <2>5 DEF Owned, Engaged, Holds, Within, Serving
<1> QED
  BY <1>1, <1>2, <1>3, <1>4, <1>5, <1>6, <1>7, <1>8, <1>9, <1>10 DEF Next, Internal, External

(***************************************************************************)
(* One value at a time is under way.                                       *)

\* A step adds nothing to what is under way: at most it moves it on.
Singles == \A s \in Sides : Single(wire[s]) /\ Single(sess[s].buf)
Flowing == (Quiet => Quiet') /\ (One => One')

\* Nothing gains a value but one station, from another one that gives it up.
LEMMA Moved ==
  ASSUME NEW l \in Stations, NEW j \in Stations,
         \A x \in Stations \ {j} : Has(x)' => Has(x),
         Has(j)' => Has(j) \/ (Has(l) /\ (One => ~Has(l)')),
         One => Singles'
  PROVE  Flowing
<1>1. ASSUME Quiet PROVE Quiet'
  BY <1>1 DEF Quiet
<1>2. ASSUME One, NEW x \in Stations, NEW y \in Stations, Has(x)', Has(y)' PROVE x = y
  BY <1>2 DEF One
<1>3. One => One'
  BY <1>2 DEF One, Singles
<1> QED
  BY <1>1, <1>3 DEF Flowing

\* The stations, one by one, now ...
LEMMA HasOf ==
  /\ Has("wireS") <=> Holds(wire["S"])
  /\ Has("wireC") <=> Holds(wire["C"])
  /\ Has("bufS") <=> Holds(sess["S"].buf)
  /\ Has("bufC") <=> Holds(sess["C"].buf)
  /\ Has("resS") <=> InHand(Srv)
  /\ Has("resC") <=> \E p \in Readers \ {Srv} : InHand(p)
  /\ Has("srv") <=> Unanswered
BY DEF Has

\* ... and behind the step.
LEMMA HasOfNext ==
  /\ Has("wireS")' <=> Holds(wire'["S"])
  /\ Has("wireC")' <=> Holds(wire'["C"])
  /\ Has("bufS")' <=> Holds(sess'["S"].buf)
  /\ Has("bufC")' <=> Holds(sess'["C"].buf)
  /\ Has("resS")' <=> InHand(Srv)'
  /\ Has("resC")' <=> \E p \in Readers \ {Srv} : InHand(p)'
  /\ Has("srv")' <=> Unanswered'
BY DEF Has, Holds, Token

\* What is kept gains nothing.
LEMMA KeptFlow ==
  /\ WireKept => \A x \in {"wireS", "wireC"} : Has(x)' => Has(x)
  /\ BufsKept => \A x \in {"bufS", "bufC"} : Has(x)' => Has(x)
  /\ HandsKept => \A x \in {"resS", "resC"} : Has(x)' => Has(x)
  /\ ServiceKept => (Has("srv")' => Has("srv"))
  /\ WireKept /\ Singles => \A s \in Sides : Single(wire'[s])
  /\ BufsKept /\ Singles => \A s \in Sides : Single(sess'[s].buf)
<1>1. "S" \in Sides /\ "C" \in Sides /\ Srv \in Readers
  BY Numbers DEF Sides
<1>2. HandsKept => \A x \in {"resS", "resC"} : Has(x)' => Has(x)
  BY <1>1, HasOf, HasOfNext DEF HandsKept
<1> QED
  BY <1>1, <1>2, HasOf, HasOfNext DEF WireKept, BufsKept, ServiceKept, Singles

\* Singles behind the step, from what is known of its parts.
LEMMA SinglesNext ==
  ASSUME \A s \in Sides : Single(wire'[s]) /\ Single(sess'[s].buf)
  PROVE  Singles'
BY DEF Singles, Single, Token

\* A step that leaves everything where it was.
LEMMA Stays ==
  ASSUME WireKept, BufsKept, HandsKept, ServiceKept
  PROVE  Flowing
<1>1. \A x \in Stations : Has(x)' => Has(x)
  BY KeptFlow DEF Stations
<1>2. One => Singles'
  BY KeptFlow, SinglesNext DEF One, Singles
<1> QED
  BY <1>1, <1>2, Moved DEF Stations

\* Every action but those that write a request, DialHello, DialAuth and
\* SendWrites.
LEMMA Flows ==
  ASSUME Types, Waits, CallsOk, Owned, sess["C"].reusable, slips' = {}
  PROVE  /\ DialRead \/ DialFails \/ ServerHello \/ ServerAuth \/ ServerFails \/
               AcceptCall \/ AcceptFirst \/ AcceptOpen \/ ServerFinish \/ ServerEndCall
               \/ ClientClose \/ ServerClose \/ Cut \/ ServerSend \/ ServerSendFails \/
               HandlerReturns \/ UNCHANGED vars => Flowing
         /\ \A s \in Sides : ReadLoopData(s) \/ ReadLoopPart(s) \/ ReadLoopFails(s) \/
               ReadLoopExits(s) \/ CloseConn(s) \/ CloseJoins(s) => Flowing
         /\ \A p \in Readers : Look(p) \/ Wake(p) \/ CtxEnds(p) \/ Expire(p) => Flowing
         /\ \A k \in Calls : MarkExclusive(k) \/ RecvValue(k) \/ RecvFails(k) \/
               RecvMarksBad(k) \/ EndCall(k) \/ SendStarts(k) \/ HalfClose(k) \/
               RecvStarts(k) \/ CloseCall(k) => Flowing
         /\ \A k \in Calls : \A m \in Methods[k] : OpenCall(k, m) => Flowing
<1>0. "S" \in Sides /\ "C" \in Sides /\ Srv \in Readers
  BY Numbers DEF Sides
<1>00. One => Singles
  BY DEF One, Singles
<1>1. /\ DialRead \/ DialFails \/ ServerFails \/ AcceptCall \/ AcceptFirst \/
            ServerEndCall \/ ClientClose \/ ServerClose \/ Cut \/ ServerSendFails \/
            HandlerReturns \/ UNCHANGED vars => Flowing
      /\ \A s \in Sides : ReadLoopFails(s) \/ ReadLoopExits(s) \/ CloseConn(s) \/
            CloseJoins(s) => Flowing
      /\ \A p \in Readers : Wake(p) \/ CtxEnds(p) \/ Expire(p) => Flowing
      /\ \A k \in Calls : MarkExclusive(k) \/ RecvValue(k) \/ RecvFails(k) \/
            RecvMarksBad(k) \/ EndCall(k) \/ SendStarts(k) \/ HalfClose(k) \/
            RecvStarts(k) \/ CloseCall(k) => Flowing
      /\ \A k \in Calls : \A m \in Methods[k] : OpenCall(k, m) => Flowing
  <2>1. /\ DialRead \/ DialFails \/ ServerFails \/ AcceptCall \/ AcceptFirst \/
              ServerEndCall \/ ClientClose \/ ServerClose \/ Cut \/ ServerSendFails \/
              HandlerReturns \/ UNCHANGED vars => WireKept
        /\ \A s \in Sides : ReadLoopFails(s) \/ ReadLoopExits(s) \/ CloseConn(s) \/
              CloseJoins(s) => WireKept
        /\ \A p \in Readers : Wake(p) \/ CtxEnds(p) \/ Expire(p) => WireKept
        /\ \A k \in Calls : MarkExclusive(k) \/ RecvValue(k) \/ RecvFails(k) \/
              RecvMarksBad(k) \/ EndCall(k) \/ SendStarts(k) \/ HalfClose(k) \/
              RecvStarts(k) \/ CloseCall(k) => WireKept
        /\ \A k \in Calls : \A m \in Methods[k] : OpenCall(k, m) => WireKept
    BY KeepsWire
  <2>2. /\ DialRead \/ DialFails \/ ServerFails \/ AcceptCall \/ AcceptFirst \/
              ServerEndCall \/ ClientClose \/ ServerClose \/ Cut \/ ServerSendFails \/
              HandlerReturns \/ UNCHANGED vars => BufsKept
        /\ \A s \in Sides : ReadLoopFails(s) \/ ReadLoopExits(s) \/ CloseConn(s) \/
              CloseJoins(s) => BufsKept
        /\ \A p \in Readers : Wake(p) \/ CtxEnds(p) \/ Expire(p) => BufsKept
        /\ \A k \in Calls : MarkExclusive(k) \/ RecvValue(k) \/ RecvFails(k) \/
              RecvMarksBad(k) \/ EndCall(k) \/ SendStarts(k) \/ HalfClose(k) \/
              RecvStarts(k) \/ CloseCall(k) => BufsKept
        /\ \A k \in Calls : \A m \in Methods[k] : OpenCall(k, m) => BufsKept
    BY KeepsBufs
  <2>3. /\ DialRead \/ DialFails \/ ServerFails \/ AcceptCall \/ AcceptFirst \/
              ServerEndCall \/ ClientClose \/ ServerClose \/ Cut \/ ServerSendFails \/
              HandlerReturns \/ UNCHANGED vars => HandsKept
        /\ \A s \in Sides : ReadLoopFails(s) \/ ReadLoopExits(s) \/ CloseConn(s) \/
              CloseJoins(s) => HandsKept
        /\ \A p \in Readers : Wake(p) \/ CtxEnds(p) \/ Expire(p) => HandsKept
        /\ \A k \in Calls : MarkExclusive(k) \/ RecvValue(k) \/ RecvFails(k) \/
              RecvMarksBad(k) \/ EndCall(k) \/ SendStarts(k) \/ HalfClose(k) \/
              RecvStarts(k) \/ CloseCall(k) => HandsKept
        /\ \A k \in Calls : \A m \in Methods[k] : OpenCall(k, m) => HandsKept
    BY KeepsHands
  <2>4. /\ DialRead \/ DialFails \/ ServerFails \/ AcceptCall \/ AcceptFirst \/
              ServerEndCall \/ ClientClose \/ ServerClose \/ Cut \/ ServerSendFails \/
              HandlerReturns \/ UNCHANGED vars => ServiceKept
        /\ \A s \in Sides : ReadLoopFails(s) \/ ReadLoopExits(s) \/ CloseConn(s) \/
              CloseJoins(s) => ServiceKept
        /\ \A p \in Readers : Wake(p) \/ CtxEnds(p) \/ Expire(p) => ServiceKept
        /\ \A k \in Calls : MarkExclusive(k) \/ RecvValue(k) \/ RecvFails(k) \/
              RecvMarksBad(k) \/ EndCall(k) \/ SendStarts(k) \/ HalfClose(k) \/
              RecvStarts(k) \/ CloseCall(k) => ServiceKept
        /\ \A k \in Calls : \A m \in Methods[k] : OpenCall(k, m) => ServiceKept
    BY KeepsService
  <2> QED
    BY <2>1, <2>2, <2>3, <2>4, Stays
<1>2. ASSUME NEW s \in Sides, ReadLoopData(s) PROVE Flowing
  <2> DEFINE l == IF s = "S" THEN "wireS" ELSE "wireC"
             j == IF s = "S" THEN "bufS" ELSE "bufC"
  <2>1. HandsKept /\ ServiceKept
    BY <1>2, KeepsHands, KeepsService
  <2>2. \A x \in Stations \ {j} : Has(x)' => Has(x)
    <3>1. CASE s = "S"
      BY <1>0, <1>2, <2>1, <3>1, LoopTakes, HasOf, HasOfNext, KeptFlow DEF Stations, Shorter,
          Sides
    <3>2. CASE s = "C"
      BY <1>0, <1>2, <2>1, <3>2, LoopTakes, HasOf, HasOfNext, KeptFlow DEF Stations, Shorter,
          Sides
    <3> QED
      BY <3>1, <3>2 DEF Sides
  <2>3. /\ Has(j)' <=> Holds(sess'[s].buf)
        /\ Has(j) <=> Holds(sess[s].buf)
        /\ Has(l)' <=> Holds(wire'[s])
        /\ Has(l) <=> Holds(wire[s])
    BY HasOf, HasOfNext DEF Sides
  <2>4. Has(j)' => Has(j) \/ (Has(l) /\ (One => ~Has(l)'))
    BY <1>2, <2>3, LoopTakes DEF Shorter, Longer, One
  <2>5. One => Singles'
    <3> SUFFICES ASSUME One PROVE Singles'
      OBVIOUS
    <3>1. ~(Has(l) /\ Has(j))
      BY DEF One, Stations, Sides
    <3>2. Single(wire'[s]) /\ Single(sess'[s].buf)
      BY <1>2, <2>3, <3>1, LoopTakes DEF Shorter, Longer, One
    <3>3. \A t \in Sides \ {s} : Single(wire'[t]) /\ Single(sess'[t].buf)
      BY <1>2, LoopTakes DEF One
    <3> QED
      BY <3>2, <3>3, SinglesNext
  <2> QED
    BY <2>2, <2>4, <2>5, Moved DEF Stations
<1>3. ASSUME NEW s \in Sides, ReadLoopPart(s) PROVE Flowing
  <2>1. WireKept /\ HandsKept /\ ServiceKept
    BY <1>3, KeepsWire, KeepsHands, KeepsService
  <2>2. \A t \in Sides : /\ Holds(sess'[t].buf) => Holds(sess[t].buf)
                         /\ Single(sess[t].buf) => Single(sess'[t].buf)
    BY <1>3, LoopStarts DEF Longer
  <2>3. \A x \in Stations : Has(x)' => Has(x)
    BY <1>0, <2>1, <2>2, HasOf, HasOfNext, KeptFlow DEF Stations
  <2>4. One => Singles'
    BY <1>00, <2>1, <2>2, KeptFlow, SinglesNext DEF Singles
  <2> QED
    BY <2>3, <2>4, Moved DEF Stations
<1>4. ASSUME NEW p \in Readers, Look(p) PROVE Flowing
  <2> DEFINE s == SideOf(p)
             l == IF s = "S" THEN "bufS" ELSE "bufC"
             j == IF s = "S" THEN "resS" ELSE "resC"
  <2>1. WireKept /\ ServiceKept /\ s \in Sides /\ (s = "S" <=> p = Srv)
    BY <1>4, KeepsWire, KeepsService DEF SideOf, Sides
  <2>2. /\ Has(l)' <=> Holds(sess'[s].buf)
        /\ Has(l) <=> Holds(sess[s].buf)
    BY <2>1, HasOf, HasOfNext DEF Sides
  <2>3. CASE BufsKept /\ ~InHand(p)'
    <3>1. HandsKept
      BY <1>4, <2>3, ReaderTakes DEF HandsKept
    <3> QED
      BY <2>1, <2>3, <3>1, Stays
  <2>4. CASE /\ Shorter(sess[s].buf, sess'[s].buf, res'[p]) /\ Token(res'[p])
             /\ \A t \in Sides \ {s} : sess'[t].buf = sess[t].buf
    <3>1. \A x \in {"bufS", "bufC"} : Has(x)' => Has(x)
      BY <1>0, <2>4, HasOf, HasOfNext DEF Shorter
    <3>2. \A x \in {"resS", "resC"} \ {j} : Has(x)' => Has(x)
      <4>1. \A q \in Readers \ {p} : InHand(q)' => InHand(q)
        BY <1>4, ReaderTakes
      <4>2. CASE p = Srv
        BY <2>1, <4>1, <4>2, HasOf, HasOfNext
      <4>3. CASE p # Srv
        BY <1>0, <2>1, <4>1, <4>3, HasOf, HasOfNext
      <4> QED
        BY <4>2, <4>3
    <3>3. \A x \in Stations \ {j} : Has(x)' => Has(x)
      BY <2>1, <3>1, <3>2, KeptFlow DEF Stations
    <3>4. Has(l) /\ (One => ~Has(l)')
      BY <2>1, <2>2, <2>4 DEF Shorter, One
    <3>5. One => Singles'
      BY <1>00, <2>1, <2>4, KeptFlow, SinglesNext DEF Shorter, Singles
    <3> QED
      BY <3>3, <3>4, <3>5, Moved DEF Stations
  <2> QED
    BY <1>4, <2>3, <2>4, ReaderTakes
<1>5. ASSUME NEW l \in {"resS", "srv"}, NEW v, Has(l), ~Has(l)', Posted("C", v),
             BufsKept, HandsKept, ServiceKept
      PROVE  Flowing
  <2>1. \A x \in Stations \ {"wireC"} : Has(x)' => Has(x)
    BY <1>0, <1>5, HasOf, HasOfNext, KeptFlow DEF Stations, Posted, Sides
  <2>2. One => Singles'
    <3> SUFFICES ASSUME One PROVE Singles'
      OBVIOUS
    <3>1. ~Holds(wire["C"])
      BY <1>5, HasOf DEF One, Stations
    <3>2. \A s \in Sides : Single(wire'[s])
      BY <1>0, <1>5, <3>1 DEF Posted, Longer, One
    <3> QED
      BY <1>00, <1>5, <3>2, KeptFlow, SinglesNext
  <2> QED
    BY <1>5, <2>1, <2>2, Moved DEF Stations
<1>6. ASSUME ServerHello \/ ServerAuth PROVE Flowing
  <2>1. BufsKept /\ HandsKept /\ ServiceKept
    BY <1>6, KeepsBufs, KeepsHands, KeepsService
  <2>2. CASE WireKept
    BY <2>1, <2>2, Stays
  <2>3. CASE ~WireKept
    BY <1>5, <1>6, <2>1, <2>3, ServerGreets, HasOf, HasOfNext
  <2> QED
    BY <2>2, <2>3
<1>7. ASSUME ServerSend \/ ServerFinish PROVE Flowing
  <2>1. BufsKept /\ HandsKept /\ ServiceKept
    BY <1>7, KeepsBufs, KeepsHands, KeepsService
  <2>2. CASE WireKept
    BY <2>1, <2>2, Stays
  <2>3. CASE ~WireKept
    <3>1. Unanswered /\ ~Unanswered'
      BY <1>7, <2>3, ServerReplies, KeptFits DEF Ours
    <3> QED
      BY <1>5, <1>7, <2>1, <2>3, <3>1, ServerReplies, HasOf, HasOfNext
  <2> QED
    BY <2>2, <2>3
<1>8. ASSUME AcceptOpen PROVE Flowing
  <2>1. WireKept /\ BufsKept /\ HandsKept
    BY <1>8, KeepsWire, KeepsBufs, KeepsHands
  <2>2. CASE ServiceKept
    BY <2>1, <2>2, Stays
  <2>3. CASE ~ServiceKept
    <3>1. Has("resS") /\ ~Has("resS")'
      BY <1>8, <2>3, ServerTakes, HasOf, HasOfNext
    <3>2. \A x \in Stations \ {"srv"} : Has(x)' => Has(x)
      BY <2>1, KeptFlow DEF Stations
    <3>3. One => Singles'
      BY <1>00, <2>1, KeptFlow, SinglesNext
    <3> QED
      BY <3>1, <3>2, <3>3, Moved DEF Stations
  <2> QED
    BY <2>2, <2>3
<1> QED
  BY <1>1, <1>2, <1>3, <1>4, <1>6, <1>7, <1>8

\* A request goes out only when nothing is under way.
LEMMA RequestAlone ==
  ASSUME Quiet, NEW v, Posted("S", v), BufsKept, HandsKept, ServiceKept
  PROVE  One'
<1>1. "S" \in Sides /\ "C" \in Sides
  BY DEF Sides
<1>2. \A x \in Stations \ {"wireS"} : ~Has(x)'
  BY <1>1, HasOf, HasOfNext, KeptFlow DEF Quiet, Stations, Posted
<1>3. \A s \in Sides : ~Holds(wire[s]) /\ ~Holds(sess[s].buf)
  BY HasOf DEF Quiet, Stations, Sides
<1>4. \A s \in Sides : Single(wire[s]) /\ Single(sess[s].buf)
  BY <1>3 DEF Holds, Single
<1>5. \A s \in Sides : Single(wire'[s]) /\ Single(sess'[s].buf)
  BY <1>1, <1>3, <1>4 DEF Posted, Longer, BufsKept
<1> QED
  BY <1>2, <1>5, SinglesNext DEF One, Singles

\* The call waited for goes on waiting until its reply is taken.
LEMMA ExpectsStep ==
  ASSUME Types, CallsOk, Ordered, [Next]_vars, slips' = {},
         sess'["C"].reusable, NEW j \in Calls, Expects(j)
  PROVE  Expects(j)' \/ RecvValue(j)
<1>0. /\ Readers = Calls \cup {Dial, Srv} /\ Dial \notin Calls /\ Srv \notin Calls /\ Dial # Srv
      /\ DOMAIN at = Readers /\ call \in [Calls -> CallType] /\ "C" \in Sides
      /\ sess \in [Sides -> Sess] /\ OrderedAt(j) /\ OwnOk(j) /\ slips' = {} /\ Expects(j)
      /\ sess'["C"].reusable
  BY Numbers DEF Types, CallsOk, Ordered, OrderedAt, Sides
<1>1. /\ DialHello \/ DialAuth \/ DialRead \/ DialFails \/ ServerHello \/ ServerAuth \/
            ServerFails \/ AcceptCall \/ AcceptFirst \/ AcceptOpen \/ ServerFinish \/
            ServerEndCall \/ ClientClose \/ ServerClose \/ Cut \/ ServerSend \/
            ServerSendFails \/ HandlerReturns \/ UNCHANGED vars => Expects(j)' \/
            RecvValue(j)
      /\ \A s \in Sides : ReadLoopData(s) \/ ReadLoopPart(s) \/ ReadLoopFails(s) \/
            ReadLoopExits(s) \/ CloseConn(s) \/ CloseJoins(s) => Expects(j)' \/
            RecvValue(j)
      /\ \A p \in Readers : Look(p) \/ Wake(p) \/ CtxEnds(p) \/ Expire(p) =>
            Expects(j)' \/ RecvValue(j)
  <2>1. /\ DialHello \/ DialAuth \/ DialRead \/ DialFails \/ ServerHello \/ ServerAuth
              \/ ServerFails \/ AcceptCall \/ AcceptFirst \/ AcceptOpen \/ ServerFinish
              \/ ServerEndCall \/ ClientClose \/ ServerClose \/ Cut \/ ServerSend \/
              ServerSendFails \/ HandlerReturns \/ UNCHANGED vars => UNCHANGED <<at[j],
              call>>
        /\ \A s \in Sides : ReadLoopData(s) \/ ReadLoopPart(s) \/ ReadLoopFails(s) \/
              ReadLoopExits(s) \/ CloseConn(s) \/ CloseJoins(s) => UNCHANGED <<at[j],
              call>>
        /\ \A p \in Readers : Look(p) \/ Wake(p) \/ CtxEnds(p) \/ Expire(p) =>
              UNCHANGED <<at[j], call>>
    BY <1>0 DEF ReadLoopData, ReadLoopPart, ReadLoopFails, ReadLoopExits, CloseConn,
        CloseJoins, Look, Wake, CtxEnds, DialHello, DialAuth, DialRead, DialFails,
        ServerHello, ServerAuth, ServerFails, AcceptCall, AcceptFirst, AcceptOpen,
        ServerFinish, ServerEndCall, ClientClose, ServerClose, Cut, Expire, ServerSend,
        ServerSendFails, HandlerReturns, reads, env, Goto, Await, HelloWrites, vars
  <2>2. /\ DialHello \/ DialAuth \/ DialRead \/ DialFails \/ ServerHello \/ ServerAuth
              \/ ServerFails \/ AcceptCall \/ AcceptFirst \/ AcceptOpen \/ ServerFinish
              \/ ServerEndCall \/ ClientClose \/ ServerClose \/ Cut \/ ServerSend \/
              ServerSendFails \/ HandlerReturns \/ UNCHANGED vars => SameOpen
        /\ \A s \in Sides : ReadLoopData(s) \/ ReadLoopPart(s) \/ ReadLoopFails(s) \/
              ReadLoopExits(s) \/ CloseConn(s) \/ CloseJoins(s) => SameOpen
        /\ \A p \in Readers : Look(p) \/ Wake(p) \/ CtxEnds(p) \/ Expire(p) => SameOpen
    BY Onwards
  <2>3. UNCHANGED <<at[j], call>> /\ SameOpen => Expects(j)'
    BY <1>0, SameOwner DEF Expects
  <2> QED
    BY <2>1, <2>2, <2>3
<1>2. ASSUME NEW k \in Calls, MarkExclusive(k) PROVE Expects(j)' \/ RecvValue(j)
  <2> QED
    BY <1>0, <1>2 DEF MarkExclusive
<1>3. ASSUME NEW k \in Calls, SendWrites(k) PROVE Expects(j)' \/ RecvValue(j)
  <2>1. \A i \in Calls : Last(i)' <=> Last(i)
    BY <1>3, Onwards, SameOwner
  <2>2. /\ at' = [at EXCEPT ![k] = "user"] /\ at[k] = "write"
        /\ call' \in {call, [call EXCEPT ![k].sendDone = TRUE]}
    BY <1>3 DEF SendWrites
  <2> QED
    BY <1>0, <2>1, <2>2 DEF Expects, CallType
<1>4. ASSUME NEW k \in Calls, RecvValue(k) PROVE Expects(j)' \/ RecvValue(j)
  <2>1. CASE k = j
    BY <1>4, <2>1
  <2>2. CASE k # j
    BY <1>0, <1>4, <2>2, Onwards, SameOwner DEF RecvValue, Goto, Expects, CallType
  <2> QED
    BY <2>1, <2>2
<1>5. ASSUME NEW k \in Calls, RecvFails(k) PROVE Expects(j)' \/ RecvValue(j)
  BY <1>0, <1>5, Onwards, SameOwner DEF RecvFails, Goto, Returned, Expects, CallType,
      OwnOk, OrderedAt
<1>6. ASSUME NEW k \in Calls, RecvMarksBad(k) PROVE Expects(j)' \/ RecvValue(j)
  <2> QED
    BY <1>0, <1>6 DEF RecvMarksBad
<1>7. ASSUME NEW k \in Calls, EndCall(k) PROVE Expects(j)' \/ RecvValue(j)
  <2>1. call[k].ending = "clean"
    BY <1>0, <1>7, SlotSess
  <2>2. k # j
    BY <1>0, <2>1 DEF Expects, OwnOk, OrderedAt
  <2> QED
    BY <1>0, <1>7, <2>2, Onwards, SameOwner DEF EndCall, reads, Expects, CallType
<1>8. ASSUME NEW k \in Calls, NEW m \in Methods[k], OpenCall(k, m)
          PROVE Expects(j)' \/ RecvValue(j)
  <2>1. ~sess["C"].busy
    BY <1>8 DEF OpenCall, Lendable
  <2> QED
    BY <1>0, <2>1 DEF Expects, Last, OwnOk
<1>9. ASSUME NEW k \in Calls, SendStarts(k) PROVE Expects(j)' \/ RecvValue(j)
  BY <1>0, <1>9, Onwards, SameOwner DEF SendStarts, reads, Expects, CallType, OwnOk,
      OrderedAt
<1>10. ASSUME NEW k \in Calls, HalfClose(k) PROVE Expects(j)' \/ RecvValue(j)
  BY <1>0, <1>10, Onwards, SameOwner DEF HalfClose, reads, Expects, CallType, OwnOk,
      OrderedAt
<1>11. ASSUME NEW k \in Calls, RecvStarts(k) PROVE Expects(j)' \/ RecvValue(j)
  BY <1>0, <1>11, Onwards, SameOwner DEF RecvStarts, Await, Expects, CallType, OwnOk,
      OrderedAt
<1>12. ASSUME NEW k \in Calls, CloseCall(k) PROVE Expects(j)' \/ RecvValue(j)
  BY <1>0, <1>12, Onwards, SameOwner DEF CloseCall, Poison, reads, Expects, CallType,
      OwnOk, OrderedAt
<1> QED
  BY <1>1, <1>2, <1>3, <1>4, <1>5, <1>6, <1>7, <1>8, <1>9, <1>10, <1>11, <1>12 DEF Next,
      Internal, External

\* Only the dial moves the dial.
LEMMA DialStays ==
  ASSUME Types
  PROVE  /\ ServerHello \/ ServerAuth \/ ServerFails \/ AcceptCall \/ AcceptFirst \/
               AcceptOpen \/ ServerFinish \/ ServerEndCall \/ ClientClose \/
               ServerClose \/ Cut \/ ServerSend \/ ServerSendFails \/ HandlerReturns \/
               UNCHANGED vars => UNCHANGED at[Dial]
         /\ \A s \in Sides : ReadLoopData(s) \/ ReadLoopPart(s) \/ ReadLoopFails(s) \/
               ReadLoopExits(s) \/ CloseConn(s) \/ CloseJoins(s) => UNCHANGED at[Dial]
         /\ \A p \in Readers : Look(p) \/ Wake(p) \/ CtxEnds(p) \/ Expire(p) =>
               UNCHANGED at[Dial]
         /\ \A k \in Calls : MarkExclusive(k) \/ SendWrites(k) \/ RecvValue(k) \/
               RecvFails(k) \/ RecvMarksBad(k) \/ EndCall(k) \/ SendStarts(k) \/
               HalfClose(k) \/ RecvStarts(k) \/ CloseCall(k) => UNCHANGED at[Dial]
         /\ \A k \in Calls : \A m \in Methods[k] : OpenCall(k, m) => UNCHANGED at[Dial]
<1>0. /\ DOMAIN at = Readers
      /\ Srv \in Readers /\ Dial \in Readers /\ Srv # Dial /\ Dial \notin Calls
  BY Numbers DEF Types
<1> QED
  BY <1>0 DEF ReadLoopData, ReadLoopPart, ReadLoopFails, ReadLoopExits, CloseConn,
      CloseJoins, Look, Wake, CtxEnds, ServerHello, ServerAuth, ServerFails,
      MarkExclusive, SendWrites, RecvValue, RecvFails, RecvMarksBad, EndCall,
      AcceptCall, AcceptFirst, AcceptOpen, ServerFinish, ServerEndCall, ClientClose,
      ServerClose, Cut, Expire, OpenCall, SendStarts, HalfClose, RecvStarts, CloseCall,
      ServerSend, ServerSendFails, HandlerReturns, reads, env, Goto, Await, vars

\* A reply that is taken was the only value under way.
LEMMA TakenLast ==
  ASSUME Types, Waits, CallsOk, Ordered, One, NEW p \in Readers, p # Srv, InHand(p),
         p = Dial => at[Dial] # "ready",
         WireKept, BufsKept, HandsKept, ServiceKept, ~InHand(p)'
  PROVE  Quiet'
<1>0. Srv \in Readers
  BY Numbers
<1>1. Has("resC") /\ \A x \in Stations \ {"resC"} : ~Has(x)
  BY HasOf DEF One, Stations
<1>2. \A x \in Stations \ {"resC"} : ~Has(x)'
  BY <1>1, KeptFlow DEF Stations
<1>3. \A q \in Readers \ {Srv} : InHand(q) => q = p
  <2> SUFFICES ASSUME NEW q \in Readers \ {Srv}, InHand(q), q # p PROVE FALSE
    OBVIOUS
  <2>1. \A k \in Calls : InHand(k) => Opened(k) /\ ~Inert(k) /\ at[Dial] = "ready"
    BY Numbers DEF InHand, Waiting, Opened, Inert, CallsOk, Turn
  <2>2. at[Dial] = "ready" => ~InHand(Dial)
    BY Numbers DEF InHand, Waiting
  <2>3. p \in Calls /\ q \in Calls
    BY <2>1, <2>2, Numbers
  <2> QED
    BY <2>1, <2>3, WorksLast DEF Opened
<1>4. ~Has("resC")'
  BY <1>3, HasOfNext DEF HandsKept
<1> QED
  BY <1>2, <1>4 DEF Quiet

\* While the session stays reusable: one value at most, and somebody expects
\* it.
LEMMA ExactStep ==
  ASSUME Types, Waits, CallsOk, Ordered, Owned, Exact, [Next]_vars, slips' = {},
         sess["C"].reusable, sess'["C"].reusable
  PROVE  Exact'
<1>0. "S" \in Sides /\ "C" \in Sides /\ Dial \in Readers /\ Dial # Srv /\ DOMAIN at = Readers
  BY Numbers DEF Sides, Types
<1>1. ASSUME DialHello \/ DialAuth PROVE Exact'
  <2>1. CASE at'[Dial] = "fail"
    BY <2>1 DEF Exact
  <2>2. CASE at'[Dial] # "fail"
    <3>1. PICK v \in Values : Posted("S", v)
      BY <1>1, <2>2, DialPosts
    <3>2. at[Dial] \in {"hello", "auth"} /\ at'[Dial] \in {"helloRead", "authRead"}
      BY <1>1, <2>2, DialPosts
    <3>3. Quiet
      BY <3>2 DEF Exact, Expected
    <3>4. BufsKept /\ HandsKept /\ ServiceKept
      BY <1>1, KeepsBufs, KeepsHands, KeepsService
    <3>5. One'
      BY <3>1, <3>3, <3>4, RequestAlone
    <3> QED
      BY <3>2, <3>5 DEF Exact, Expected
  <2> QED
    BY <2>1, <2>2
<1>2. ASSUME NEW k \in Calls, SendWrites(k) PROVE Exact'
  <2>1. Posted("S", Val(call[k].m, k)) /\ call' = [call EXCEPT ![k].sendDone = TRUE]
    BY <1>2, CallPosts
  <2>2. at[k] = "write" /\ at[Dial] = "ready" /\ at'[Dial] = "ready" /\ Last(k)
    BY <1>2, CallPosts, WorksLast, DialStays DEF Inert
  <2>3. Quiet
    <3>1. ~Expects(k)
      BY <2>2 DEF Expects, CallsOk, OwnOk
    <3>2. \A j \in Calls : ~Expects(j)
      BY <2>2, <3>1, Numbers DEF Expects, Last
    <3> QED
      BY <2>2, <3>2 DEF Exact, Expected
  <2>4. BufsKept /\ HandsKept /\ ServiceKept /\ SameOpen
    BY <1>2, KeepsBufs, KeepsHands, KeepsService, Onwards
  <2>5. One'
    BY <2>1, <2>3, <2>4, RequestAlone
  <2>6. Expects(k)'
    <3>1. ~call[k].terminal /\ call[k].ending # "done"
      BY <2>2 DEF Ordered, CallsOk, OwnOk
    <3>2. call'[k].sendDone /\ ~call'[k].terminal /\ call'[k].ending # "done"
      BY <2>1, <3>1 DEF Types, CallType
    <3> QED
      BY <2>2, <2>4, <3>2, SameOwner DEF Expects
  <2> QED
    BY <2>2, <2>5, <2>6 DEF Exact, Expected
<1>3. ASSUME DialRead PROVE Exact'
  <2>1. /\ at[Dial] \in {"helloRead", "authRead"} /\ rd[Dial] = "off"
        /\ at'[Dial] \in {"fail", "auth", "ready"}
        /\ IsError(res[Dial]) => at'[Dial] = "fail"
    BY <1>0, <1>3 DEF DialRead, Returned, Goto
  <2>2. CASE at'[Dial] = "fail"
    BY <2>2 DEF Exact
  <2>3. CASE at'[Dial] # "fail"
    <3>1. InHand(Dial) /\ ~InHand(Dial)'
      BY <1>0, <2>1, <2>3, AnswersOf DEF InHand, Waits, Waiting, Token, Outcome
    <3>2. WireKept /\ BufsKept /\ HandsKept /\ ServiceKept
      BY <1>3, KeepsWire, KeepsBufs, KeepsHands, KeepsService
    <3>3. One
      BY <2>1 DEF Exact
    <3>4. Quiet'
      BY <1>0, <2>1, <3>1, <3>2, <3>3, TakenLast
    <3>5. One'
      BY <3>2, <3>3, Stays DEF Flowing
    <3> QED
      BY <3>4, <3>5 DEF Exact, Expected
  <2> QED
    BY <2>2, <2>3
<1>4. ASSUME DialFails PROVE Exact'
  BY <1>0, <1>4 DEF DialFails, Exact
<1>5. ASSUME Flowing, UNCHANGED at[Dial] PROVE Exact'
  <2>1. CASE at[Dial] \in {"fail", "failed"}
    BY <1>5, <2>1 DEF Exact
  <2>2. CASE at[Dial] \notin {"fail", "failed"}
    <3>1. One' /\ (Quiet => Quiet')
      BY <1>5, <2>2 DEF Exact, Flowing
    <3>2. ASSUME at[Dial] = "ready", ~Quiet' PROVE \E k \in Calls : Expects(k)'
      <4>1. PICK k \in Calls : Expects(k)
        BY <2>2, <3>1, <3>2 DEF Exact, Expected
      <4>2. CASE Expects(k)'
        BY <4>2
      <4>3. CASE RecvValue(k)
        <5>1. /\ InHand(k) /\ ~InHand(k)' /\ k \in Readers /\ k # Srv /\ k # Dial
          BY <1>0, <4>3, AnswersOf, Numbers DEF RecvValue, Returned, Goto, InHand,
              Waits, Waiting, Token, Outcome
        <5>2. WireKept /\ BufsKept /\ HandsKept /\ ServiceKept
          BY <4>3, KeepsWire, KeepsBufs, KeepsHands, KeepsService
        <5>3. One
          BY <2>2 DEF Exact
        <5>4. Quiet'
          BY <5>1, <5>2, <5>3, TakenLast
        <5> QED
          BY <3>2, <5>4
      <4> QED
        BY <4>1, <4>2, <4>3, ExpectsStep
    <3>3. (at[Dial] \in {"hello", "auth"} => Quiet)'
      BY <1>5, <2>2, <3>1 DEF Exact, Expected
    <3>4. (at[Dial] = "ready" /\ ~Quiet => \E k \in Calls : Expects(k))'
      BY <1>5, <3>2
    <3> QED
      BY <3>1, <3>3, <3>4 DEF Exact, Expected
  <2> QED
    BY <2>1, <2>2
<1>6. /\ ServerHello \/ ServerAuth \/ ServerFails \/ AcceptCall \/ AcceptFirst \/
            AcceptOpen \/ ServerFinish \/ ServerEndCall \/ ClientClose \/ ServerClose
            \/ Cut \/ ServerSend \/ ServerSendFails \/ HandlerReturns \/ UNCHANGED vars
            => Exact'
      /\ \A s \in Sides : ReadLoopData(s) \/ ReadLoopPart(s) \/ ReadLoopFails(s) \/
            ReadLoopExits(s) \/ CloseConn(s) \/ CloseJoins(s) => Exact'
      /\ \A p \in Readers : Look(p) \/ Wake(p) \/ CtxEnds(p) \/ Expire(p) => Exact'
      /\ \A k \in Calls : MarkExclusive(k) \/ RecvValue(k) \/ RecvFails(k) \/
            RecvMarksBad(k) \/ EndCall(k) \/ SendStarts(k) \/ HalfClose(k) \/
            RecvStarts(k) \/ CloseCall(k) => Exact'
      /\ \A k \in Calls : \A m \in Methods[k] : OpenCall(k, m) => Exact'
  <2>1. /\ ServerHello \/ ServerAuth \/ ServerFails \/ AcceptCall \/ AcceptFirst \/
              AcceptOpen \/ ServerFinish \/ ServerEndCall \/ ClientClose \/ ServerClose
              \/ Cut \/ ServerSend \/ ServerSendFails \/ HandlerReturns \/ UNCHANGED
              vars => Flowing
        /\ \A s \in Sides : ReadLoopData(s) \/ ReadLoopPart(s) \/ ReadLoopFails(s) \/
              ReadLoopExits(s) \/ CloseConn(s) \/ CloseJoins(s) => Flowing
        /\ \A p \in Readers : Look(p) \/ Wake(p) \/ CtxEnds(p) \/ Expire(p) => Flowing
        /\ \A k \in Calls : MarkExclusive(k) \/ RecvValue(k) \/ RecvFails(k) \/
              RecvMarksBad(k) \/ EndCall(k) \/ SendStarts(k) \/ HalfClose(k) \/
              RecvStarts(k) \/ CloseCall(k) => Flowing
        /\ \A k \in Calls : \A m \in Methods[k] : OpenCall(k, m) => Flowing
    BY Flows
  <2>2. /\ ServerHello \/ ServerAuth \/ ServerFails \/ AcceptCall \/ AcceptFirst \/
              AcceptOpen \/ ServerFinish \/ ServerEndCall \/ ClientClose \/ ServerClose
              \/ Cut \/ ServerSend \/ ServerSendFails \/ HandlerReturns \/ UNCHANGED
              vars => UNCHANGED at[Dial]
        /\ \A s \in Sides : ReadLoopData(s) \/ ReadLoopPart(s) \/ ReadLoopFails(s) \/
              ReadLoopExits(s) \/ CloseConn(s) \/ CloseJoins(s) => UNCHANGED at[Dial]
        /\ \A p \in Readers : Look(p) \/ Wake(p) \/ CtxEnds(p) \/ Expire(p) =>
              UNCHANGED at[Dial]
        /\ \A k \in Calls : MarkExclusive(k) \/ RecvValue(k) \/ RecvFails(k) \/
              RecvMarksBad(k) \/ EndCall(k) \/ SendStarts(k) \/ HalfClose(k) \/
              RecvStarts(k) \/ CloseCall(k) => UNCHANGED at[Dial]
        /\ \A k \in Calls : \A m \in Methods[k] : OpenCall(k, m) => UNCHANGED at[Dial]
    BY DialStays
  <2> QED
    BY <1>5, <2>1, <2>2
<1> QED
  BY <1>1, <1>2, <1>3, <1>4, <1>6 DEF Next, Internal, External

(***************************************************************************)
(* The invariant.                                                          *)

\* The invariant holds initially ...
LEMMA IInvInit == Init => IInv
<1> SUFFICES ASSUME Init PROVE IInv
  OBVIOUS
<1>0. /\ Readers = Calls \cup {Dial, Srv} /\ Dial \notin Calls /\ Srv \notin Calls /\ Dial # Srv
      /\ "S" \in Sides /\ "C" \in Sides
  BY Numbers DEF Sides
<1>1. NewSession \in Sess /\ <<>> \in Input
  BY DEF NewSession, Sess, Input
<1>2. NoCall \in CallType /\ NoSrv \in SrvType
  BY DEF NoCall, CallType, NoSrv, SrvType
<1>3. /\ \A s \in Sides : sess[s] = NewSession /\ wire[s] = <<>>
      /\ \A p \in Readers : /\ at[p] = IF p \in Calls THEN "new" ELSE "hello"
                            /\ rd[p] = IF p = Srv THEN "look" ELSE "off"
      /\ \A k \in Calls : call[k] = NoCall /\ got[k] = {}
      /\ srv = NoSrv /\ slips = {}
  BY DEF Init
<1>4. Types
  <2>1. DOMAIN at = Readers /\ \A p \in Readers : at[p] \in Places(p)
    BY <1>0, <1>3 DEF Init, Places
  <2>2. /\ res \in [Readers -> Answers \cup {None}]
        /\ rd \in [Readers -> {"off", "look", "park"}]
        /\ woken \in [Readers -> BOOLEAN]
    BY DEF Init
  <2>3. sess \in [Sides -> Sess] /\ wire \in [Sides -> Input]
    BY <1>1 DEF Init
  <2>4. call \in [Calls -> CallType] /\ srv \in SrvType /\ got \in [Calls -> SUBSET Answers]
    BY <1>2 DEF Init
  <2> QED
    BY <2>1, <2>2, <2>3, <2>4 DEF Types
<1>5. Serves /\ Waits /\ Told
  BY <1>0, <1>3 DEF Serves, NoSrv, Waits, Waiting, Told, NewSession
<1>6. NoReaderStranded
  BY <1>3 DEF NoReaderStranded
<1>7. CallsOk
  <2>1. ~Streaming(None)
    BY RespAssumption DEF Streaming, Words, Commands
  <2> SUFFICES ASSUME NEW k \in Calls PROVE OwnOk(k) /\ Turn(k)
    BY DEF CallsOk
  <2>2. call[k] = NoCall /\ at[k] = "new" /\ got[k] = {}
    BY <1>0, <1>3
  <2>3. /\ call[k].m = None /\ ~call[k].closed /\ ~call[k].terminal
        /\ call[k].ending = "no"
    BY <2>2 DEF NoCall
  <2> QED
    BY <2>1, <2>2, <2>3 DEF OwnOk, Turn, Opened
<1>8. /\ \A s \in Sides : ~Holds(wire[s]) /\ ~Holds(sess[s].buf)
      /\ \A p \in Readers : ~InHand(p)
      /\ ~Serving
  BY <1>0, <1>3 DEF Holds, NewSession, InHand, Waiting, Serving
<1>9. Quiet
  BY <1>0, <1>8, HasOf DEF Quiet, Stations, Unanswered
<1>10. Singles
  BY <1>8 DEF Holds, Single, Singles
<1>11. Exact
  BY <1>0, <1>3, <1>9, <1>10 DEF Exact, One, Singles, Expected, Quiet
<1>12. Ordered /\ Owned
  BY <1>0, <1>3, <1>8 DEF Ordered, Opened, NoCall, Owned, Holds, Within
<1> QED
  BY <1>4, <1>5, <1>6, <1>7, <1>11, <1>12 DEF IInv, Clean

\* ... its parts are kept one by one ...
LEMMA TypesStep ==
  ASSUME Types, Waits, Serves, CallsOk, [Next]_vars
  PROVE  Types' /\ Waits' /\ Serves'
<1>1. ReadsOk'
  BY ReadsStep
<1>2. srv' \in SrvType /\ Serves'
  BY SrvStep
<1>3. (sess \in [Sides -> Sess])' /\ (wire \in [Sides -> Input])'
  BY SteadyStep, WireStep
<1>4. (call \in [Calls -> CallType])' /\ (got \in [Calls -> SUBSET Answers])'
  BY CallStep, GotStep
<1> QED
  BY <1>1, <1>2, <1>3, <1>4 DEF ReadsOk, Types

\* What has slipped stays so.
LEMMA SlipsStay ==
  ASSUME [Next]_vars, slips # {}
  PROVE  slips' # {}
<1>1. /\ DialHello \/ DialAuth \/ DialRead \/ DialFails \/ ServerHello \/ ServerAuth \/
            ServerFails \/ AcceptCall \/ AcceptFirst \/ AcceptOpen \/ ServerFinish \/
            ServerEndCall \/ ClientClose \/ ServerClose \/ Cut \/ ServerSend \/
            ServerSendFails \/ HandlerReturns \/ UNCHANGED vars => slips' # {}
      /\ \A s \in Sides : ReadLoopData(s) \/ ReadLoopPart(s) \/ ReadLoopFails(s) \/
            ReadLoopExits(s) \/ CloseConn(s) \/ CloseJoins(s) => slips' # {}
      /\ \A p \in Readers : Look(p) \/ Wake(p) \/ CtxEnds(p) \/ Expire(p) => slips' # {}
      /\ \A k \in Calls : MarkExclusive(k) \/ SendWrites(k) \/ RecvValue(k) \/
            RecvFails(k) \/ RecvMarksBad(k) \/ EndCall(k) \/ SendStarts(k) \/
            HalfClose(k) \/ RecvStarts(k) => slips' # {}
      /\ \A k \in Calls : \A m \in Methods[k] : OpenCall(k, m) => slips' # {}
  BY DEF ReadLoopData, ReadLoopPart, ReadLoopFails, ReadLoopExits, CloseConn,
      CloseJoins, Look, Wake, CtxEnds, DialHello, DialAuth, DialRead, DialFails,
      ServerHello, ServerAuth, ServerFails, MarkExclusive, SendWrites, RecvValue,
      RecvFails, RecvMarksBad, EndCall, AcceptCall, AcceptFirst, AcceptOpen,
      ServerFinish, ServerEndCall, ClientClose, ServerClose, Cut, Expire, OpenCall,
      SendStarts, HalfClose, RecvStarts, ServerSend, ServerSendFails, HandlerReturns,
      reads, env, vars
<1>2. \A k \in Calls : CloseCall(k) => slips' # {}
  BY DEF CloseCall
<1> QED
  BY <1>1, <1>2 DEF Next, Internal, External

\* ... behind a slip there is nothing left to show ...
LEMMA CleanStep ==
  ASSUME Types, Waits, Serves, CallsOk, Clean, [Next]_vars
  PROVE  Clean'
<1> SUFFICES ASSUME slips' = {}
             PROVE  Ordered' /\ Owned' /\ (sess'["C"].reusable => Exact')
  BY DEF Clean
<1>1. Ordered /\ Owned /\ (sess["C"].reusable => Exact)
  BY SlipsStay DEF Clean
<1>2. sess'["C"].reusable => sess["C"].reusable
  BY SteadyStep DEF Steady, Sides
<1>3. Ordered'
  <2>1. \A j \in Calls : OrderedAt(j)'
    BY <1>1, OrderedStep
  <2> QED
    BY <2>1 DEF Ordered, OrderedAt
<1>4. Owned'
  BY <1>1, OwnedStep
<1>5. sess'["C"].reusable => Exact'
  BY <1>1, <1>2, ExactStep
<1> QED
  BY <1>3, <1>4, <1>5

\* ... and so the whole is kept.
LEMMA IInvStep == IInv /\ [Next]_vars => IInv'
<1> SUFFICES ASSUME IInv, [Next]_vars PROVE IInv'
  OBVIOUS
<1>1. Types /\ Serves /\ Waits /\ Told /\ NoReaderStranded /\ CallsOk /\ Clean
  BY DEF IInv
<1>2. Types' /\ Waits' /\ Serves'
  BY <1>1, TypesStep
<1>3. Told'
  BY <1>1, ToldStep
<1>4. NoReaderStranded'
  BY <1>1, <1>2, <1>3, StrandedStep
<1>5. CallsOk'
  BY <1>1, CallsStep
<1>6. Clean'
  BY <1>1, CleanStep
<1> QED
  BY <1>2, <1>3, <1>4, <1>5, <1>6 DEF IInv

\* Hence it always holds ...
LEMMA Invariant == Spec => []IInv
BY IInvInit, IInvStep, PTL DEF Spec

\* ... and it implies the property of the runs.
LEMMA IInvClean == IInv => CleanHandover
<1> SUFFICES ASSUME IInv, slips = {} PROVE
      /\ Lendable /\ at[Dial] = "ready" =>
             /\ \A s \in Sides : ~ForCalls(wire[s]) /\ ~ForCalls(sess[s].buf)
             /\ srv.m # None => srv.replySent
      /\ \A k \in Calls : \A v \in got[k] : v.k = k
  BY DEF CleanHandover
<1>1. Types /\ Serves /\ CallsOk /\ Ordered /\ (sess["C"].reusable => Exact)
  BY DEF IInv, Clean
<1>2. \A k \in Calls : \A v \in got[k] : v.k = k
  BY <1>1 DEF Ordered
<1>3. ASSUME Lendable, at[Dial] = "ready"
      PROVE  /\ \A s \in Sides : ~ForCalls(wire[s]) /\ ~ForCalls(sess[s].buf)
             /\ srv.m # None => srv.replySent
  <2>1. Quiet
    BY <1>1, <1>3, FreeIsQuiet DEF Lendable
  <2>2. /\ \A s \in Sides : ~Holds(wire[s]) /\ ~Holds(sess[s].buf)
        /\ ~Unanswered
    BY <2>1, HasOf DEF Quiet, Stations, Sides
  <2>3. ASSUME NEW b \in Input, ~Holds(b) PROVE ~ForCalls(b)
    <3>1. \A i \in 1 .. Len(b) : b[i] \in Values \cup {Junk, Part}
      BY <2>3 DEF Input
    <3>2. \A i \in 1 .. Len(b) : b[i] \in {Junk, Part}
      BY <2>3, <3>1 DEF Holds, Token
    <3> QED
      BY <3>2 DEF ForCalls, Junk, Part
  <2>4. \A s \in Sides : wire[s] \in Input /\ sess[s].buf \in Input
    BY <1>1 DEF Types, Sess
  <2>5. srv.m # None => srv.replySent
    BY <1>1, <2>2 DEF Serves, Unanswered
  <2> QED
    BY <2>2, <2>3, <2>4, <2>5
<1> QED
  BY <1>2, <1>3

(***************************************************************************)
(* The theorems.                                                           *)

\* A session OpenCall would lend carries nothing of an earlier call, and Recv
\* returns to a call only replies to its own command, unless a Close overtook
\* a failing Recv or an error text with a line break left a whole value behind
\* its first line (clientConn.OpenCall, clientCall.Recv and Close, endCall,
\* EncodeError).
THEOREM HandoverIsClean == Spec => []CleanHandover
BY Invariant, IInvClean, PTL

\* No reader waits for a wake-up that cannot come: readLoop, closeSession and
\* the waits under session.mu lose none.
THEOREM NoReaderIsStranded == Spec => []NoReaderStranded
<1>1. IInv => NoReaderStranded
  BY DEF IInv
<1> QED
  BY <1>1, Invariant, PTL

\* As long as a dialled session is reusable at most one value is under way in
\* both directions together, the request or its reply, and only while some
\* call waits for it, unless one of the two slips of CleanHandover has happened:
\* RESP2 needs no identifiers (session.go, call.go; reusable).
OneAtATime ==
  slips = {} /\ sess["C"].reusable /\ at[Dial] = "ready" =>
    One /\ (~Quiet => \E k \in Calls : Expects(k))

THEOREM StrictlySequential == Spec => []OneAtATime
<1>1. IInv => OneAtATime
  BY DEF IInv, Clean, Exact, Expected, OneAtATime
<1> QED
  BY <1>1, Invariant, PTL

\* No step makes a session reusable again, reopens a closed one, or revives a
\* read loop that has stopped (session.go, markBad, closeSession, readLoop).
StaysSpoilt ==
  \A s \in Sides : /\ ~sess[s].reusable => ~sess'[s].reusable
                   /\ sess[s].closed => sess'[s].closed
                   /\ sess[s].loop # "run" => sess'[s].loop # "run"

THEOREM SpoiltForGood == Spec => [][StaysSpoilt]_vars
<1>1. IInv /\ [Next]_vars => [StaysSpoilt]_vars
  BY SteadyStep DEF IInv, Steady, StaysSpoilt
<1> QED
  BY <1>1, Invariant, PTL DEF Spec

=============================================================================
