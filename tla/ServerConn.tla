----------------------------- MODULE ServerConn ------------------------------
(***************************************************************************)
(* One listen surface of the server: the per-connection accept loop        *)
(* (server/conn.go), the per-call handling it starts, the server-wide      *)
(* admission gate (server/admit.go) and the mapping of context causes to   *)
(* statuses (server/statusmap.go).                                         *)
(*                                                                         *)
(* The transport is external: AcceptCall returns a call, a rejected call,  *)
(* io.EOF, the end of its ctx, or a connection-level error; a handler      *)
(* returns nil, an error of its own or a raw context error.                *)
(***************************************************************************)
EXTENDS Naturals, FiniteSets

CONSTANTS
  Conns,                \* inbound connections handed to onConn
  Calls,                \* identities of the calls AcceptCall returns
  None,                 \* owner of a call not accepted yet
  MaxInboundConns,      \* 0: no limit
  MaxConcurrentCalls,   \* capacity of admitGate.slots, 0: unlimited
  Modes,                \* values lb.concurrency = transport.Concurrent may have
  HasAge,               \* MaxInboundConnAge > 0
  HasIdle               \* MaxInboundConnIdle > 0

ASSUME ServerConnAssumption ==
  /\ IsFiniteSet(Conns) /\ IsFiniteSet(Calls)
  /\ None \notin Conns
  /\ MaxInboundConns \in Nat
  /\ MaxConcurrentCalls \in Nat
  /\ Modes \subseteq BOOLEAN
  /\ {HasAge, HasIdle} \subseteq BOOLEAN

VARIABLES
  concurrent,  \* lb.concurrency = transport.Concurrent, fixed for the surface
  active,      \* liveBinding.active
  cpc,         \* where each onConn is
  aged,        \* connections whose age timer has fired (acceptCtx cancelled)
  connCause,   \* cause connCtx was cancelled with, "live" before
  connErr,     \* the connection-level failure onConn met
  reports,     \* NotifyConnError calls for the connection
  slots,       \* tokens in admitGate.slots
  gateClosed,  \* admitGate.closed
  runDone,     \* s.runCtx is done
  kpc,         \* where each call's handleCall is
  owner,       \* the connection a call arrived on
  callCtx,     \* why the call ctx ended, "live" before
  fin,         \* the status the call was finished with
  finishes     \* how many times Finish was called

connVars == <<active, cpc, aged, connCause, connErr, reports>>
gateVars == <<slots, gateClosed, runDone, concurrent>>
callVars == <<kpc, owner, callCtx, fin, finishes>>
vars     == <<connVars, gateVars, callVars>>

(* onConn past its admission and not returned yet. *)
Serving  == {"check", "handshake", "accepting", "handling", "draining"}
CPCs     == {"new", "over", "gone"} \cup Serving
(* handleCall under way. *)
Handling == {"admit", "slot", "recheck", "routing", "running", "finished",
             "released"}
KPCs     == {"none", "closed"} \cup Handling
(* handleCall past tryAdmit: its ctx is derived, its slot (if any) taken. *)
Admitted == {"routing", "running", "finished"}
Causes   == {"live", "expired", "deadline", "canceled"}
Statuses == {"none", "ok", "exhausted", "unimplemented", "handler",
             "unavailable", "deadline", "canceled", "rejected"}

CallsOf(c) == {k \in Calls : owner[k] = c}
InFlight(c) == {k \in CallsOf(c) : kpc[k] \in Handling}

Init ==
  /\ concurrent \in Modes
  /\ active = 0
  /\ cpc = [c \in Conns |-> "new"]
  /\ aged = {}
  /\ connCause = [c \in Conns |-> "live"]
  /\ connErr = [c \in Conns |-> "none"]
  /\ reports = [c \in Conns |-> 0]
  /\ slots = 0
  /\ gateClosed = FALSE
  /\ runDone = FALSE
  /\ kpc = [k \in Calls |-> "none"]
  /\ owner = [k \in Calls |-> None]
  /\ callCtx = [k \in Calls |-> "live"]
  /\ fin = [k \in Calls |-> "none"]
  /\ finishes = [k \in Calls |-> 0]

(***************************************************************************)
(* onConn                                                                  *)
(***************************************************************************)

GoConn(c, from, to) ==
  /\ cpc[c] = from
  /\ cpc' = [cpc EXCEPT ![c] = to]

OverLimit(n) == MaxInboundConns > 0 /\ n > MaxInboundConns

(* The counter goes up first and decides; the connection may be refused. *)
Enter(c) ==
  /\ cpc[c] = "new"
  /\ active' = active + 1
  /\ cpc' = [cpc EXCEPT ![c] = IF OverLimit(active + 1) THEN "over" ELSE "check"]
  /\ UNCHANGED <<aged, connCause, connErr, reports, gateVars, callVars>>

(* onConn returns: the connection is closed and leaves the count. *)
LeaveConn(c, from) ==
  /\ GoConn(c, from, "gone")
  /\ active' = active - 1

Report(c, phase) ==
  /\ connErr' = [connErr EXCEPT ![c] = phase]
  /\ reports' = [reports EXCEPT ![c] = @ + 1]

RefuseConn(c) ==
  /\ LeaveConn(c, "over")
  /\ Report(c, "admit")
  /\ UNCHANGED <<aged, connCause, gateVars, callVars>>

(* A connection that arrives after Run's ctx ended is closed silently. *)
CheckRun(c) ==
  /\ \/ runDone /\ LeaveConn(c, "check")
     \/ ~runDone /\ GoConn(c, "check", "handshake") /\ UNCHANGED active
  /\ UNCHANGED <<aged, connCause, connErr, reports, gateVars, callVars>>

HandshakeOk(c) ==
  /\ GoConn(c, "handshake", "accepting")
  /\ UNCHANGED <<active, aged, connCause, connErr, reports, gateVars, callVars>>

HandshakeFails(c) ==
  /\ LeaveConn(c, "handshake")
  /\ Report(c, "handshake")
  /\ UNCHANGED <<aged, connCause, gateVars, callVars>>

(* The age timer: it only stops the accept loop. *)
AgeTimer(c) ==
  /\ HasAge
  /\ cpc[c] \in Serving \ {"check"}
  /\ c \notin aged
  /\ aged' = aged \cup {c}
  /\ UNCHANGED <<active, cpc, connCause, connErr, reports, gateVars, callVars>>

(* connCancel(cause): the first cause wins, for the connection and for     *)
(* every call whose ctx derives from it.                                   *)
CancelConn(c, cause) ==
  /\ connCause' = [connCause EXCEPT ![c] = IF @ = "live" THEN cause ELSE @]
  /\ callCtx' = [k \in Calls |->
       IF /\ owner[k] = c /\ kpc[k] \in Admitted /\ callCtx[k] = "live"
          /\ connCause[c] = "live"
       THEN cause ELSE callCtx[k]]

(* A Concurrent connection goes on accepting, any other waits for the call. *)
AfterDispatch == IF concurrent THEN "accepting" ELSE "handling"

(* AcceptCall returns a call and it is dispatched. *)
AcceptCall(c) ==
  /\ GoConn(c, "accepting", AfterDispatch)
  /\ \E k \in Calls :
       /\ kpc[k] = "none"
       /\ kpc' = [kpc EXCEPT ![k] = "admit"]
       /\ owner' = [owner EXCEPT ![k] = c]
  /\ UNCHANGED <<active, aged, connCause, connErr, reports, gateVars,
                 callCtx, fin, finishes>>

(* The synchronous handleCall of a Sequential connection has returned. *)
NextCall(c) ==
  /\ InFlight(c) = {}
  /\ GoConn(c, "handling", "accepting")
  /\ UNCHANGED <<active, aged, connCause, connErr, reports, gateVars, callVars>>

(* ErrCallRejected: the status is written, the loop goes on. *)
AcceptRejected(c) ==
  /\ cpc[c] = "accepting"
  /\ \E k \in Calls :
       /\ kpc[k] = "none"
       /\ kpc' = [kpc EXCEPT ![k] = "closed"]
       /\ owner' = [owner EXCEPT ![k] = c]
       /\ fin' = [fin EXCEPT ![k] = "rejected"]
       /\ finishes' = [finishes EXCEPT ![k] = @ + 1]
  /\ UNCHANGED <<connVars, gateVars, callCtx>>

(* io.EOF: in-flight calls are left alone. *)
AcceptEOF(c) ==
  /\ GoConn(c, "accepting", "draining")
  /\ UNCHANGED <<active, aged, connCause, connErr, reports, gateVars, callVars>>

(* The clean exit: an aged connection cancels its calls, any other does not. *)
ExitLoop(c) ==
  /\ GoConn(c, "accepting", "draining")
  /\ IF c \in aged THEN CancelConn(c, "expired") ELSE UNCHANGED <<connCause, callCtx>>

(* AcceptCall is woken by the end of its ctx: the age or the idle timer. *)
AcceptWoken(c) ==
  /\ c \in aged \/ HasIdle
  /\ ExitLoop(c)
  /\ UNCHANGED <<active, aged, connErr, reports, gateVars, kpc, owner, fin, finishes>>

(* A connection-level error.  waitCancel has already run when the loop      *)
(* tests waitCtx.Err(), so this is the clean exit too: neither              *)
(* NotifyConnError nor connCancel(ErrPeerGone) is reached.                  *)
AcceptError(c) ==
  /\ ExitLoop(c)
  /\ connErr' = [connErr EXCEPT ![c] = "accept"]
  /\ UNCHANGED <<active, aged, reports, gateVars, kpc, owner, fin, finishes>>

(* callWG.Wait() has returned. *)
Drained(c) == InFlight(c) = {}

(* The deferred tail of onConn: Wait, Close, connCancel(nil), active - 1. *)
Drain(c) ==
  /\ Drained(c)
  /\ LeaveConn(c, "draining")
  /\ CancelConn(c, "canceled")
  /\ UNCHANGED <<aged, connErr, reports, gateVars, kpc, owner, fin, finishes>>

(***************************************************************************)
(* handleCall and admitGate.tryAdmit                                       *)
(***************************************************************************)

GoCall(k, from, to) ==
  /\ kpc[k] = from
  /\ kpc' = [kpc EXCEPT ![k] = to]

Finish(k, status) ==
  /\ fin' = [fin EXCEPT ![k] = status]
  /\ finishes' = [finishes EXCEPT ![k] = @ + 1]

Unlimited == MaxConcurrentCalls = 0

(* tryAdmit refuses: Finish(ErrCallsExhausted), and only Close is deferred. *)
Refuse(k, from) ==
  /\ GoCall(k, from, "released")
  /\ Finish(k, "exhausted")
  /\ UNCHANGED <<owner, callCtx>>

(* The first look at closed; the lock is dropped after it. *)
Admit(k) ==
  /\ \/ gateClosed /\ Refuse(k, "admit")
     \/ /\ ~gateClosed
        /\ GoCall(k, "admit", IF Unlimited THEN "recheck" ELSE "slot")
        /\ UNCHANGED <<owner, callCtx, fin, finishes>>
  /\ UNCHANGED <<connVars, gateVars>>

SlotFree == slots < MaxConcurrentCalls

(* The non-blocking send on slots. *)
TakeSlot(k) ==
  /\ \/ /\ SlotFree
        /\ GoCall(k, "slot", "recheck")
        /\ slots' = slots + 1
        /\ UNCHANGED <<owner, callCtx, fin, finishes>>
     \/ /\ ~SlotFree
        /\ Refuse(k, "slot")
        /\ UNCHANGED slots
  /\ UNCHANGED <<connVars, gateClosed, runDone, concurrent>>

(* <-g.slots *)
GiveSlot == slots' = IF Unlimited THEN slots ELSE slots - 1

(* Mutation: no second look at closed. *)
RecheckBlind(k) ==
  /\ GoCall(k, "recheck", "routing")
  /\ callCtx' = [callCtx EXCEPT ![k] = connCause[owner[k]]]
  /\ UNCHANGED <<connVars, gateVars, owner, fin, finishes>>

(* Mutation: the slot taken before the gate closed is not given back. *)
RecheckLeaks(k) ==
  /\ \/ /\ gateClosed
        /\ Refuse(k, "recheck")
     \/ /\ ~gateClosed
        /\ GoCall(k, "recheck", "routing")
        /\ callCtx' = [callCtx EXCEPT ![k] = connCause[owner[k]]]
        /\ UNCHANGED <<owner, fin, finishes>>
  /\ UNCHANGED <<connVars, gateVars>>

(* Mutation: the call ctx does not derive from connCtx. *)
RecheckDetached(k) ==
  /\ \/ /\ gateClosed
        /\ Refuse(k, "recheck")
        /\ GiveSlot
     \/ /\ ~gateClosed
        /\ GoCall(k, "recheck", "routing")
        /\ UNCHANGED <<slots, owner, callCtx, fin, finishes>>
  /\ UNCHANGED <<connVars, gateClosed, runDone, concurrent>>

(* The second look at closed: the slot goes back, or the call is admitted  *)
(* and deriveCallCtx takes whatever connCtx is by now.                     *)
Recheck(k) ==
  /\ \/ /\ gateClosed
        /\ Refuse(k, "recheck")
        /\ GiveSlot
     \/ /\ ~gateClosed
        /\ GoCall(k, "recheck", "routing")
        /\ callCtx' = [callCtx EXCEPT ![k] = connCause[owner[k]]]
        /\ UNCHANGED <<slots, owner, fin, finishes>>
  /\ UNCHANGED <<connVars, gateClosed, runDone, concurrent>>

(* Mutation: an unroutable call is dropped without Finish. *)
RouteFailsSilently(k) ==
  /\ GoCall(k, "routing", "finished")
  /\ UNCHANGED <<connVars, gateVars, owner, callCtx, fin, finishes>>

(* lookup misses, or call.Accept fails. *)
RouteFails(k) ==
  /\ GoCall(k, "routing", "finished")
  /\ Finish(k, "unimplemented")
  /\ UNCHANGED <<connVars, gateVars, owner, callCtx>>

RouteOk(k) ==
  /\ GoCall(k, "routing", "running")
  /\ UNCHANGED <<connVars, gateVars, owner, callCtx, fin, finishes>>

(* statusFromContext: what a done ctx becomes on the wire. *)
StatusFromContext(ctx) ==
  CASE ctx = "expired"  -> "unavailable"
    [] ctx = "deadline" -> "deadline"
    [] ctx = "canceled" -> "canceled"
    [] ctx = "live"     -> "ok"

(* finishError: the handler's own error wins; nil, or a raw context error   *)
(* of a ctx that is done, is mapped.                                        *)
FinishError(k, herr) ==
  IF herr = "err" \/ (herr = "ctxerr" /\ callCtx[k] = "live")
  THEN "handler" ELSE StatusFromContext(callCtx[k])

HandlerReturns(k) ==
  /\ GoCall(k, "running", "finished")
  /\ \E herr \in {"nil", "err", "ctxerr"} : Finish(k, FinishError(k, herr))
  /\ UNCHANGED <<connVars, gateVars, owner, callCtx>>

(* The deferred callCancel and release. *)
ReleaseSlot(k) ==
  /\ GoCall(k, "finished", "released")
  /\ GiveSlot
  /\ callCtx' = [callCtx EXCEPT ![k] = IF @ = "live" THEN "canceled" ELSE @]
  /\ UNCHANGED <<connVars, gateClosed, runDone, concurrent, owner, fin, finishes>>

(* The deferred call.Close: handleCall returns. *)
CloseCall(k) ==
  /\ GoCall(k, "released", "closed")
  /\ UNCHANGED <<connVars, gateVars, owner, callCtx, fin, finishes>>

(* The deadline the peer sent passes. *)
DeadlinePasses(k) ==
  /\ kpc[k] \in {"routing", "running"}
  /\ callCtx[k] = "live"
  /\ callCtx' = [callCtx EXCEPT ![k] = "deadline"]
  /\ UNCHANGED <<connVars, gateVars, kpc, owner, fin, finishes>>

(***************************************************************************)
(* The server around the surface                                           *)
(***************************************************************************)

(* admitGate.close, from Shutdown or at the end of Run. *)
GateCloses ==
  /\ ~gateClosed
  /\ gateClosed' = TRUE
  /\ UNCHANGED <<slots, runDone, concurrent, connVars, callVars>>

(* Run's ctx ends. *)
RunEnds ==
  /\ ~runDone
  /\ runDone' = TRUE
  /\ UNCHANGED <<slots, gateClosed, concurrent, connVars, callVars>>

Loop(c) ==
  \/ Enter(c) \/ RefuseConn(c) \/ CheckRun(c) \/ HandshakeOk(c)
  \/ HandshakeFails(c) \/ AcceptCall(c) \/ NextCall(c) \/ AcceptRejected(c)
  \/ AcceptEOF(c) \/ AcceptWoken(c) \/ AcceptError(c) \/ Drain(c)

HandleCall(k) ==
  \/ Admit(k) \/ TakeSlot(k) \/ Recheck(k) \/ RouteFails(k) \/ RouteOk(k)
  \/ HandlerReturns(k) \/ ReleaseSlot(k) \/ CloseCall(k)

Next ==
  \/ \E c \in Conns : Loop(c) \/ AgeTimer(c)
  \/ \E k \in Calls : HandleCall(k) \/ DeadlinePasses(k)
  \/ GateCloses
  \/ RunEnds

Spec == Init /\ [][Next]_vars

(***************************************************************************)
(* Properties                                                              *)
(***************************************************************************)

(* The state has its type. *)
TypeOK ==
  /\ concurrent \in Modes
  /\ active \in 0..Cardinality(Conns)
  /\ cpc \in [Conns -> CPCs]
  /\ aged \subseteq Conns
  /\ connCause \in [Conns -> {"live", "expired", "canceled"}]
  /\ connErr \in [Conns -> {"none", "admit", "handshake", "accept"}]
  /\ reports \in [Conns -> 0..1]
  /\ slots \in 0..MaxConcurrentCalls
  /\ gateClosed \in BOOLEAN
  /\ runDone \in BOOLEAN
  /\ kpc \in [Calls -> KPCs]
  /\ owner \in [Calls -> Conns \cup {None}]
  /\ callCtx \in [Calls -> Causes]
  /\ fin \in [Calls -> Statuses]
  /\ finishes \in [Calls -> 0..1]

(* Admission is exact: lb.active is the number of onConns between their     *)
(* Add(1) and Add(-1), of which at most MaxInboundConns are served, and a   *)
(* token sits in admitGate.slots for exactly the calls that took one and    *)
(* have not run release (or tryAdmit's own give-back), also when the gate   *)
(* closes between the send and the second look at closed.                   *)
AdmissionExact ==
  /\ TypeOK
  /\ active = Cardinality({c \in Conns : cpc[c] \in Serving \cup {"over"}})
  /\ MaxInboundConns > 0 =>
       Cardinality({c \in Conns : cpc[c] \in Serving}) <= MaxInboundConns
  /\ slots = IF Unlimited THEN 0
             ELSE Cardinality({k \in Calls : kpc[k] \in Admitted \cup {"recheck"}})
  /\ slots <= MaxConcurrentCalls

(* A connection is closed, and its ctx cancelled, only after handleCall has *)
(* returned for every call accepted on it (callWG.Wait runs before Close).  *)
NoCallOnGoneConn == \A c \in Conns : cpc[c] = "gone" => InFlight(c) = {}

(* Every call is answered once on every path of handleCall, never twice,    *)
(* and never with Canceled: the plain cancels of connCtx and callCtx are    *)
(* deferred behind Finish, so a handler that sees its ctx end was stopped   *)
(* by the session's age or by its own deadline (statusmap.go).              *)
AnsweredOnce ==
  \A k \in Calls :
    /\ finishes[k] = IF kpc[k] \in {"finished", "released", "closed"} THEN 1 ELSE 0
    /\ fin[k] # "canceled"

(* Once admitGate.close has run nobody is admitted any more: the calls past *)
(* tryAdmit only get fewer, also when one was between its two looks at      *)
(* closed.  Handlers still start behind it, but only those of calls that    *)
(* were admitted before and are being routed (conn.go, handleCall).         *)
NoAdmitAfterClose ==
  [][gateClosed => \A k \in Calls : kpc[k] \notin Admitted => kpc'[k] \notin Admitted]_vars

(* A connection that left its loop because of its age has told every call   *)
(* in flight on it, those still in tryAdmit when it did included: no        *)
(* handler of it runs on a live ctx, which callWG.Wait would wait for.      *)
AgeTold ==
  \A c \in Conns : connCause[c] = "expired" =>
    \A k \in InFlight(c) : kpc[k] \in Admitted => callCtx[k] # "live"

(* The end of a connection: it waits for every call in flight, and for none *)
(* that its age has not told to stop.                                       *)
DrainSound == NoCallOnGoneConn /\ AgeTold

(* Every connection-level error that belongs to no call is reported once    *)
(* (observer.go, NotifyConnError); AcceptCall's connection errors are.      *)
ConnErrorReported ==
  \A c \in Conns : cpc[c] = "gone" /\ connErr[c] # "none" => reports[c] = 1

=============================================================================
