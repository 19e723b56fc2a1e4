------------------------------ MODULE ClientCall ------------------------------
(***************************************************************************)
(* The client composition layer (client/client.go, client/call.go and the  *)
(* open chain of filter/filter.go): admission, the OpenFilter chain, and    *)
(* one CallStream per call with a goroutine in Recv, one in Header, any     *)
(* number in Close, the AfterFunc that closes the Call when the call ctx    *)
(* ends, and the cleanup of a stream that was dropped.                      *)
(*                                                                         *)
(* External: the transport call, which is open until its first Close and    *)
(* whose pending Recv fails once it is closed, and the filters, which       *)
(* behave in any of the ways named in Behaviours.                           *)
(***************************************************************************)
EXTENDS Naturals, Sequences, FiniteSets

CONSTANTS
  Calls,               \* calls of Client.Open and the CallStreams they return
  Readers,             \* calls whose application uses Recv and Header
  Closers,             \* goroutines that may call CallStream.Close
  None,
  MaxConcurrentCalls,  \* 0: unlimited
  Chains               \* the filter chains a client may be configured with

(* pass: next and its result; short: an error without next; nilNil: (nil,   *)
(* nil) without next; own: a stream without next; failAfter, nilAfter,      *)
(* wrap: next, then an error, (nil, nil), or a stream whatever next said;   *)
(* twice: next twice, the second result; rename: next with another method.  *)
Behaviours == {"pass", "short", "nilNil", "own", "failAfter", "nilAfter",
               "wrap", "twice", "rename"}

ASSUME ClientCallAssumption ==
  /\ IsFiniteSet(Calls) /\ Readers \subseteq Calls
  /\ MaxConcurrentCalls \in Nat
  /\ Chains \subseteq Seq(Behaviours)
  /\ None \notin Closers

VARIABLES
  inFlight,   \* Client.inFlight
  opc,        \* where Open, and then the stream it returned, is
  call,       \* the transport call
  ctxDone,    \* callCtx is done
  headers,    \* headersCh is closed
  arrived,    \* a message, EOF or status really came
  closed,     \* CallStream.closed, closedCh and leak.closed
  gate,       \* holder of afterCallGate.mu
  watch,      \* the AfterFunc
  xpc,        \* where each Close of each call is
  rpc, rres,  \* Recv: where it is, what it returned
  hpc, hres   \* Header

streamVars == <<ctxDone, headers, arrived, closed, gate, watch>>
opVars     == <<rpc, rres, hpc, hres>>
vars       == <<inFlight, opc, call, streamVars, xpc, opVars>>

OPCs == {"idle", "admitted", "unwind", "install", "open", "failed",
         "dropped", "reclaimed"}
XPCs == {"idle", "cancel", "lock", "close", "release", "returned"}
Resolved == {"msg", "eof", "status"}

Init ==
  /\ inFlight = 0
  /\ opc = [k \in Calls |-> "idle"]
  /\ call = [k \in Calls |-> "none"]
  /\ ctxDone = [k \in Calls |-> FALSE]
  /\ headers = [k \in Calls |-> FALSE]
  /\ arrived = [k \in Calls |-> FALSE]
  /\ closed = [k \in Calls |-> FALSE]
  /\ gate = [k \in Calls |-> None]
  /\ watch = [k \in Calls |-> "none"]
  /\ xpc = [k \in Calls |-> [x \in Closers |-> "idle"]]
  /\ rpc = [k \in Calls |-> "idle"]
  /\ rres = [k \in Calls |-> "none"]
  /\ hpc = [k \in Calls |-> "idle"]
  /\ hres = [k \in Calls |-> "none"]

(***************************************************************************)
(* The OpenFilter chain                                                    *)
(***************************************************************************)

Outcome(st, err, opened) == [st |-> st, err |-> err, opened |-> opened]

(* One layer of ChainOpen around next's outcome: what filter b returns,     *)
(* with wrappedNext refusing a second call and (nil, nil) without next       *)
(* turned into ErrOpenFilterMisuse.                                          *)
Layer(b, next) ==
  CASE b \in {"pass", "rename"} -> next
    [] b = "short"     -> Outcome(FALSE, "filter", FALSE)
    [] b = "nilNil"    -> Outcome(FALSE, "misuse", FALSE)
    [] b = "own"       -> Outcome(TRUE, "none", FALSE)
    [] b = "failAfter" -> Outcome(FALSE, "filter", next.opened)
    [] b = "nilAfter"  -> Outcome(FALSE, "none", next.opened)
    [] b = "wrap"      -> Outcome(TRUE, "none", next.opened)
    [] b = "twice"     -> Outcome(FALSE, "misuse", next.opened)

(* The terminus refuses another method, then resolves and opens the call.   *)
Terminus(same, ok) ==
  IF same /\ ok THEN Outcome(TRUE, "none", TRUE) ELSE Outcome(FALSE, "open", FALSE)

(* chain[1] is outermost.  ok: resolver.Parse and OpenCall succeed. *)
ChainOpen(chain, ok) ==
  LET same == \A i \in 1..Len(chain) : chain[i] # "rename"
      Run[i \in 1..(Len(chain) + 1)] ==
        IF i = Len(chain) + 1 THEN Terminus(same, ok)
        ELSE Layer(chain[i], Run[i + 1])
  IN  Run[1]

(***************************************************************************)
(* Open                                                                    *)
(***************************************************************************)

GoOpen(k, from, to) ==
  /\ opc[k] = from
  /\ opc' = [opc EXCEPT ![k] = to]

HasRoom == MaxConcurrentCalls = 0 \/ inFlight < MaxConcurrentCalls

(* The caller's ctx is looked at first, then admission. *)
Open(k) ==
  /\ \/ /\ ctxDone[k] \/ ~HasRoom
        /\ GoOpen(k, "idle", "failed")
        /\ UNCHANGED inFlight
     \/ /\ ~ctxDone[k] /\ HasRoom
        /\ GoOpen(k, "idle", "admitted")
        /\ inFlight' = inFlight + 1
  /\ UNCHANGED <<call, streamVars, xpc, opVars>>

(* releaseAdmit, floored at zero. *)
ReleaseAdmit == inFlight' = IF inFlight > 0 THEN inFlight - 1 ELSE inFlight

(* Open keeps the call only for a stream, no error and a call behind it. *)
Opened(o) == o.err = "none" /\ o.opened /\ o.st

(* The chain runs; a call it opened exists from here on. *)
RunChain(k) ==
  \E chain \in Chains, ok \in BOOLEAN :
    LET o == ChainOpen(chain, ok)
    IN  /\ GoOpen(k, "admitted", IF Opened(o) THEN "install" ELSE "unwind")
        /\ call' = [call EXCEPT ![k] = IF o.opened THEN "open" ELSE "none"]
        /\ UNCHANGED <<inFlight, streamVars, xpc, opVars>>

CloseTransportCall(k) == [call EXCEPT ![k] = IF @ = "open" THEN "closed" ELSE @]

(* Mutation: the call a failing chain opened is dropped. *)
UnwindDropsCall(k) ==
  /\ GoOpen(k, "unwind", "failed")
  /\ ctxDone' = [ctxDone EXCEPT ![k] = TRUE]
  /\ ReleaseAdmit
  /\ UNCHANGED <<call, headers, arrived, closed, gate, watch, xpc, opVars>>

(* abandonOpen, then the deferred releaseAdmit. *)
Unwind(k) ==
  /\ GoOpen(k, "unwind", "failed")
  /\ ctxDone' = [ctxDone EXCEPT ![k] = TRUE]
  /\ call' = CloseTransportCall(k)
  /\ ReleaseAdmit
  /\ UNCHANGED <<headers, arrived, closed, gate, watch, xpc, opVars>>

(* Mutation: a ctx that ended while the call was opened goes unnoticed. *)
InstallLate(k) ==
  /\ GoOpen(k, "install", "open")
  /\ watch' = [watch EXCEPT ![k] = "armed"]
  /\ UNCHANGED <<inFlight, call, ctxDone, headers, arrived, closed, gate, xpc, opVars>>

(* AfterFunc and the leak cleanup are installed; a ctx already done starts  *)
(* the AfterFunc at once.                                                   *)
Install(k) ==
  /\ GoOpen(k, "install", "open")
  /\ watch' = [watch EXCEPT ![k] = IF ctxDone[k] THEN "fired" ELSE "armed"]
  /\ UNCHANGED <<inFlight, call, ctxDone, headers, arrived, closed, gate, xpc, opVars>>

(***************************************************************************)
(* The call ctx and its AfterFunc                                          *)
(***************************************************************************)

CtxEnds(k) ==
  /\ ctxDone' = [ctxDone EXCEPT ![k] = TRUE]
  /\ watch' = [watch EXCEPT ![k] = IF @ = "armed" THEN "fired" ELSE @]

(* The caller cancels its ctx, or its deadline passes. *)
CallerCancels(k) ==
  /\ ~ctxDone[k]
  /\ opc[k] # "failed"
  /\ CtxEnds(k)
  /\ UNCHANGED <<inFlight, opc, call, headers, arrived, closed, gate, xpc, opVars>>

(* The AfterFunc closes the call under the gate. *)
WatchCloses(k) ==
  /\ watch[k] = "fired"
  /\ gate[k] = None
  /\ watch' = [watch EXCEPT ![k] = "done"]
  /\ call' = CloseTransportCall(k)
  /\ UNCHANGED <<inFlight, opc, ctxDone, headers, arrived, closed, gate, xpc, opVars>>

(***************************************************************************)
(* Close, and a stream dropped without it                                  *)
(***************************************************************************)

GoClose(k, x, from, to) ==
  /\ xpc[k][x] = from
  /\ xpc' = [xpc EXCEPT ![k][x] = to]

(* Another Close is inside closeOnce.Do, or has been. *)
OnceTaken(k) == \E x \in Closers : xpc[k][x] # "idle"
OnceDone(k)  == \E x \in Closers : xpc[k][x] = "returned"

(* closed, closedCh and leak.closed are set, the cleanup is stopped. *)
CloseStarts(k, x) ==
  /\ opc[k] = "open"
  /\ ~OnceTaken(k)
  /\ GoClose(k, x, "idle", "cancel")
  /\ closed' = [closed EXCEPT ![k] = TRUE]
  /\ UNCHANGED <<inFlight, opc, call, ctxDone, headers, arrived, gate, watch, opVars>>

(* A later Close waits for the first one in closeOnce.Do. *)
CloseAgain(k, x) ==
  /\ opc[k] = "open"
  /\ OnceDone(k)
  /\ GoClose(k, x, "idle", "returned")
  /\ UNCHANGED <<inFlight, opc, call, streamVars, opVars>>

CloseCancels(k, x) ==
  /\ GoClose(k, x, "cancel", "lock")
  /\ CtxEnds(k)
  /\ UNCHANGED <<inFlight, opc, call, headers, arrived, closed, gate, opVars>>

(* gate.mu.Lock(), then stopWatch: too late for an AfterFunc that fired. *)
CloseLocks(k, x) ==
  /\ gate[k] = None
  /\ GoClose(k, x, "lock", "close")
  /\ gate' = [gate EXCEPT ![k] = x]
  /\ watch' = [watch EXCEPT ![k] = IF @ = "armed" THEN "stopped" ELSE @]
  /\ UNCHANGED <<inFlight, opc, call, ctxDone, headers, arrived, closed, opVars>>

CloseClosesCall(k, x) ==
  /\ GoClose(k, x, "close", "release")
  /\ call' = CloseTransportCall(k)
  /\ UNCHANGED <<inFlight, opc, streamVars, opVars>>

(* Mutation: Close forgets the admission. *)
CloseReleasesNothing(k, x) ==
  /\ GoClose(k, x, "release", "returned")
  /\ gate' = [gate EXCEPT ![k] = None]
  /\ UNCHANGED <<inFlight, opc, call, ctxDone, headers, arrived, closed, watch, opVars>>

CloseReleases(k, x) ==
  /\ GoClose(k, x, "release", "returned")
  /\ ReleaseAdmit
  /\ gate' = [gate EXCEPT ![k] = None]
  /\ UNCHANGED <<opc, call, ctxDone, headers, arrived, closed, watch, opVars>>

(* The application drops the stream: no operation on it is under way. *)
Dropped(k) ==
  /\ ~OnceTaken(k)
  /\ rpc[k] = "idle" /\ hpc[k] = "idle"
  /\ GoOpen(k, "open", "dropped")
  /\ UNCHANGED <<inFlight, call, streamVars, xpc, opVars>>

(* The runtime runs the cleanup: the leak is reported, its admission given  *)
(* back, its connection left alone.                                         *)
LeakReclaimed(k) ==
  /\ GoOpen(k, "dropped", "reclaimed")
  /\ ReleaseAdmit
  /\ UNCHANGED <<call, streamVars, xpc, opVars>>

(***************************************************************************)
(* Recv and Header                                                         *)
(***************************************************************************)

(* Mutation: a Recv refused by its ctx wakes Header too. *)
RecvEntersMarking(k) ==
  /\ k \in Readers
  /\ opc[k] = "open" /\ rpc[k] = "idle"
  /\ IF ctxDone[k]
     THEN /\ rres' = [rres EXCEPT ![k] = "ctx"]
          /\ headers' = [headers EXCEPT ![k] = TRUE]
          /\ UNCHANGED rpc
     ELSE rpc' = [rpc EXCEPT ![k] = "recv"] /\ UNCHANGED <<rres, headers>>
  /\ UNCHANGED <<inFlight, opc, call, ctxDone, arrived, closed, gate, watch,
                 xpc, hpc, hres>>

(* A ctx already done is the answer; otherwise the stream is asked. *)
RecvEnters(k) ==
  /\ k \in Readers
  /\ opc[k] = "open" /\ rpc[k] = "idle"
  /\ IF ctxDone[k]
     THEN rres' = [rres EXCEPT ![k] = "ctx"] /\ UNCHANGED rpc
     ELSE rpc' = [rpc EXCEPT ![k] = "recv"] /\ rres' = [rres EXCEPT ![k] = "none"]
  /\ UNCHANGED <<inFlight, opc, call, streamVars, xpc, hpc, hres>>

(* stream.Recv returns: a message, EOF, a status, or a failure; a closed    *)
(* call has nothing but failures, or results it had buffered.               *)
StreamAnswers(k) ==
  /\ rpc[k] = "recv"
  /\ \E r \in Resolved \cup {"fail"} :
       /\ rpc' = [rpc EXCEPT ![k] = r]
       /\ arrived' = [arrived EXCEPT ![k] = @ \/ r \in Resolved]
  /\ UNCHANGED <<inFlight, opc, call, ctxDone, headers, closed, gate, watch,
                 xpc, rres, hpc, hres>>

(* interrupted: only an unresolved failure becomes the ctx error. *)
Interrupted(k, r) == IF r \notin Resolved /\ ctxDone[k] THEN "ctx" ELSE r

(* markHeadersReady for a resolved result, then interrupted. *)
RecvReturns(k) ==
  /\ rpc[k] \in Resolved \cup {"fail"}
  /\ headers' = [headers EXCEPT ![k] = @ \/ rpc[k] \in Resolved]
  /\ rres' = [rres EXCEPT ![k] = Interrupted(k, rpc[k])]
  /\ rpc' = [rpc EXCEPT ![k] = "idle"]
  /\ UNCHANGED <<inFlight, opc, call, ctxDone, arrived, closed, gate, watch,
                 xpc, hpc, hres>>

ReturnHeader(k, r) ==
  /\ hres' = [hres EXCEPT ![k] = r]
  /\ hpc' = [hpc EXCEPT ![k] = "idle"]

(* The first look at closed. *)
HeaderEnters(k) ==
  /\ k \in Readers
  /\ opc[k] = "open" /\ hpc[k] = "idle"
  /\ IF closed[k]
     THEN ReturnHeader(k, "closed")
     ELSE hpc' = [hpc EXCEPT ![k] = "select"] /\ hres' = [hres EXCEPT ![k] = "none"]
  /\ UNCHANGED <<inFlight, opc, call, streamVars, xpc, rpc, rres>>

(* A branch of the select is ready. *)
HeaderReady(k) == headers[k] \/ closed[k] \/ ctxDone[k]

(* What the branch taken returns after its second look at closed. *)
HeaderAnswers(k, branch) ==
  CASE closed[k] -> "closed"
    [] ~closed[k] /\ branch = "headers" -> "md"
    [] ~closed[k] /\ branch = "ctx" -> "ctx"

(* The select: any ready branch may be taken. *)
HeaderSelects(k) ==
  /\ hpc[k] = "select"
  /\ HeaderReady(k)
  /\ \/ headers[k] /\ ReturnHeader(k, HeaderAnswers(k, "headers"))
     \/ closed[k]  /\ ReturnHeader(k, "closed")
     \/ ctxDone[k] /\ ReturnHeader(k, HeaderAnswers(k, "ctx"))
  /\ UNCHANGED <<inFlight, opc, call, streamVars, xpc, rpc, rres>>

OpenStep(k) == Open(k) \/ RunChain(k) \/ Unwind(k) \/ Install(k)

CloseStep(k, x) ==
  \/ CloseCancels(k, x) \/ CloseLocks(k, x) \/ CloseClosesCall(k, x)
  \/ CloseReleases(k, x)

Next ==
  \E k \in Calls :
    \/ OpenStep(k) \/ CallerCancels(k) \/ WatchCloses(k)
    \/ Dropped(k) \/ LeakReclaimed(k)
    \/ RecvEnters(k) \/ StreamAnswers(k) \/ RecvReturns(k)
    \/ HeaderEnters(k) \/ HeaderSelects(k)
    \/ \E x \in Closers : CloseStarts(k, x) \/ CloseAgain(k, x) \/ CloseStep(k, x)

Spec == Init /\ [][Next]_vars

(* Started goroutines run, the AfterFunc runs, and the transport's Recv      *)
(* returns once its call is closed.  Nobody has to call Close, and a Recv    *)
(* of an open call may block for ever.                                       *)
Fairness ==
  \A k \in Calls :
    /\ WF_vars(opc[k] # "idle" /\ OpenStep(k))
    /\ WF_vars(WatchCloses(k))
    /\ WF_vars(LeakReclaimed(k))
    /\ WF_vars(call[k] = "closed" /\ StreamAnswers(k))
    /\ WF_vars(RecvReturns(k))
    /\ WF_vars(HeaderSelects(k))
    /\ WF_vars(\E x \in Closers : CloseStep(k, x))

FairSpec == Spec /\ Fairness

(***************************************************************************)
(* Properties                                                              *)
(***************************************************************************)

(* The state has its type. *)
TypeOK ==
  /\ inFlight \in Nat
  /\ opc \in [Calls -> OPCs]
  /\ call \in [Calls -> {"none", "open", "closed"}]
  /\ ctxDone \in [Calls -> BOOLEAN]
  /\ headers \in [Calls -> BOOLEAN]
  /\ arrived \in [Calls -> BOOLEAN]
  /\ closed \in [Calls -> BOOLEAN]
  /\ gate \in [Calls -> Closers \cup {None}]
  /\ watch \in [Calls -> {"none", "armed", "fired", "stopped", "done"}]
  /\ xpc \in [Calls -> [Closers -> XPCs]]
  /\ rpc \in [Calls -> {"idle", "recv", "fail"} \cup Resolved]
  /\ rres \in [Calls -> {"none", "ctx", "fail"} \cup Resolved]
  /\ hpc \in [Calls -> {"idle", "select"}]
  /\ hres \in [Calls -> {"none", "closed", "md", "ctx"}]

(* The calls that hold an admission: opening, or open and not yet released  *)
(* by the one Close that runs, or dropped and not yet reclaimed.            *)
Admitted == {k \in Calls :
  /\ opc[k] \in {"admitted", "unwind", "install", "open", "dropped"}
  /\ ~OnceDone(k)}

(* Client.inFlight counts exactly the calls that hold an admission, over    *)
(* every failing Open, Close and leaked stream, so none is released twice   *)
(* (the floor at zero would hide it) and none is kept; and there are never  *)
(* more of them than MaxConcurrentCalls.                                    *)
InFlightExact ==
  /\ TypeOK
  /\ inFlight = Cardinality(Admitted)
  /\ MaxConcurrentCalls > 0 => inFlight <= MaxConcurrentCalls

(* However the filters misbehave, an Open that fails leaves no transport    *)
(* call open, and one that succeeds has a call behind its stream.  Once any *)
(* Close has returned, the call is closed and its ctx is done, for the      *)
(* caller that lost the closeOnce race too.                                 *)
OpenNeverLeaks ==
  \A k \in Calls :
    /\ opc[k] = "failed" => call[k] # "open"
    /\ opc[k] = "open" => call[k] # "none"
    /\ OnceDone(k) => call[k] = "closed" /\ ctxDone[k] /\ closed[k]

(* Header and Recv tell the truth while the ctx ends under them.  Header    *)
(* answers with metadata only when a message, the end of the stream or a    *)
(* status has come, never for a call that was only cancelled, and not for a *)
(* stream that is already closed when it answers; a result the stream has   *)
(* produced reaches the caller of Recv although the ctx ends at the same    *)
(* moment.                                                                  *)
CallTruthful ==
  [][\A k \in Calls :
       /\ hpc[k] = "select" /\ hres'[k] = "md" /\ hpc'[k] = "idle" =>
            arrived[k] /\ ~closed[k]
       /\ rpc[k] \in Resolved /\ rpc'[k] = "idle" => rres'[k] = rpc[k]]_vars

(* The end of the call ctx, whoever ended it and however early (the         *)
(* AfterFunc is installed after the call is opened), unblocks a pending     *)
(* Recv and Header and closes the transport call, also of a stream that was *)
(* dropped: the connection goes back to the pool.                           *)
CancelEndsCall ==
  \A k \in Calls :
    (ctxDone[k] /\ opc[k] # "idle") ~>
      (call[k] # "open" /\ rpc[k] # "recv" /\ hpc[k] = "idle")

(* A Close that was called returns, with the AfterFunc contending for the   *)
(* gate, and every dropped stream gives its admission back.                 *)
CloseReturns ==
  \A k \in Calls :
    ((opc[k] = "open" /\ OnceTaken(k)) \/ opc[k] = "dropped") ~>
      (OnceDone(k) \/ opc[k] = "reclaimed")

(* A call ends, by its ctx or by its Close. *)
CallEnds == CancelEndsCall /\ CloseReturns

=============================================================================
