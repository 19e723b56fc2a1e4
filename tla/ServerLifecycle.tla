--------------------------- MODULE ServerLifecycle ---------------------------
(***************************************************************************)
(* The life of a server.Server (server/server.go): Register, Run and       *)
(* Shutdown, called from any number of goroutines, the goroutine Run starts *)
(* for each listen surface, and the closing of the admission gate.          *)
(*                                                                         *)
(* The transport is external: Serve ends when its ctx is done, fails on     *)
(* its own, or returns nil because its owner shut the transport down.       *)
(* Each section of code under s.mu is one action; so is each access to an   *)
(* atomic, a WaitGroup or a context outside it.                             *)
(***************************************************************************)
EXTENDS Naturals, FiniteSets

CONSTANTS
  Runners,      \* calls of Run
  Stoppers,     \* calls of Shutdown
  Services,     \* services that may be registered
  Configured,   \* those with an entry in Options.Services
  Surfaces,     \* the listen surfaces of a Run
  WithCause,    \* Runs whose caller ends their ctx with a cause of its own, not
                \* with context.Canceled (WithCancelCause, or a deadline)
  Nobody

ASSUME ServerLifecycleAssumption ==
  /\ IsFiniteSet(Runners) /\ IsFiniteSet(Surfaces)
  /\ Surfaces # {}
  /\ Configured \subseteq Services
  /\ WithCause \subseteq Runners
  /\ Nobody \notin Runners \cup Surfaces
  /\ Surfaces \cap {"none", "live", "parent", "reason", "shutdown", "start"} = {}

VARIABLES
  routes,      \* the services of s.routes
  running, ran, stopped,
  runOf,       \* the Run whose ctx is s.runCtx / s.runCancel, or Nobody
  serveErr,    \* the surface whose error s.serveErr holds, or Nobody
  admitClosed, \* admitGate.closed
  rpc,         \* where each Run is
  rres,        \* what it returned
  served,      \* its clone of the routes
  parentDone,  \* Runs whose own ctx was cancelled by the caller
  cause,       \* context.Cause of each Run's runCtx
  spc,         \* where the goroutine of each surface is
  servedBy,    \* the Run that launched it
  dpc,         \* where each Shutdown is
  dres,        \* what it returned
  dTarget,     \* the runCancel it read, as the Run it belongs to
  dRunning     \* the value of running it read

mem   == <<routes, running, ran, stopped, runOf, serveErr, admitClosed>>
runs  == <<rpc, rres, served, parentDone, cause>>
surfs == <<spc, servedBy>>
stops == <<dpc, dres, dTarget, dRunning>>
lifeVars  == <<mem, runs, surfs, stops>>

(* Run between its admission and its return. *)
Active == {"starting", "latch", "launch", "waiting", "joining", "closing"}
RPCs   == {"idle", "returned"} \cup Active
SPCs   == {"none", "serving", "failed", "storing", "cancelling", "ended", "done"}
DPCs   == {"idle", "cancel", "waiting", "returned"}

LifeInit ==
  /\ routes = {} /\ running = FALSE /\ ran = FALSE /\ stopped = FALSE
  /\ runOf = Nobody /\ serveErr = Nobody /\ admitClosed = FALSE
  /\ rpc = [r \in Runners |-> "idle"]
  /\ rres = [r \in Runners |-> "none"]
  /\ served = [r \in Runners |-> {}]
  /\ parentDone = {}
  /\ cause = [r \in Runners |-> "none"]
  /\ spc = [b \in Surfaces |-> "none"]
  /\ servedBy = [b \in Surfaces |-> Nobody]
  /\ dpc = [d \in Stoppers |-> "idle"]
  /\ dres = [d \in Stoppers |-> "none"]
  /\ dTarget = [d \in Stoppers |-> Nobody]
  /\ dRunning = [d \in Stoppers |-> FALSE]

Done(r) == cause[r] \notin {"none", "live"}

(* cancel(why) of the runCtx of r: the first cause stays. *)
Cause(r, why) == [cause EXCEPT ![r] = IF @ = "live" THEN why ELSE @]

(* The cause the ctx of the caller ends with, which runCtx inherits. *)
ParentCause(r) == IF r \in WithCause THEN "reason" ELSE "parent"

(* The value of s.wg. *)
Outstanding == {b \in Surfaces : spc[b] \notin {"none", "done"}}

(***************************************************************************)
(* Register and Run                                                        *)
(***************************************************************************)

RegisterOpen == ~ran /\ ~running /\ ~stopped

Register(s) ==
  /\ RegisterOpen
  /\ s \notin routes
  /\ routes' = routes \cup {s}
  /\ UNCHANGED <<running, ran, stopped, runOf, serveErr, admitClosed,
                 runs, surfs, stops>>

ReturnRun(r, from, result) ==
  /\ rpc[r] = from
  /\ rpc' = [rpc EXCEPT ![r] = "returned"]
  /\ rres' = [rres EXCEPT ![r] = result]

GoRun(r, from, to) ==
  /\ rpc[r] = from
  /\ rpc' = [rpc EXCEPT ![r] = to]

RunTaken == ran \/ running

(* The early returns of Run, in the order of its checks. *)
RunRefused(r) ==
  /\ \/ stopped /\ ReturnRun(r, "idle", "closed")
     \/ ~stopped /\ RunTaken /\ ReturnRun(r, "idle", "already")
     \/ /\ ~stopped /\ ~RunTaken
        /\ routes = {} \/ ~(routes \subseteq Configured)
        /\ ReturnRun(r, "idle", "config")
  /\ UNCHANGED <<mem, served, parentDone, cause, surfs, stops>>

MayRun == ~stopped /\ ~RunTaken

(* Run takes the server: running, the clone of the routes, a fresh runCtx   *)
(* (already done when the caller's ctx is).                                 *)
RunStarts(r) ==
  /\ MayRun
  /\ routes # {} /\ routes \subseteq Configured
  /\ GoRun(r, "idle", "starting")
  /\ running' = TRUE
  /\ runOf' = r
  /\ served' = [served EXCEPT ![r] = routes]
  /\ cause' = [cause EXCEPT ![r] = IF r \in parentDone THEN ParentCause(r) ELSE "live"]
  /\ UNCHANGED <<routes, ran, stopped, serveErr, admitClosed, rres, parentDone,
                 surfs, stops>>

(* Every newBinding succeeds. *)
BindOk(r) ==
  /\ GoRun(r, "starting", "latch")
  /\ UNCHANGED <<mem, rres, served, parentDone, cause, surfs, stops>>

(* Mutation: an aborted start stays running. *)
BindFailsKeepsRunning(r) ==
  /\ ReturnRun(r, "starting", "start")
  /\ cause' = Cause(r, "start")
  /\ runOf' = Nobody
  /\ UNCHANGED <<routes, running, ran, stopped, serveErr, admitClosed, served,
                 parentDone, surfs, stops>>

(* A newBinding fails: the start is undone, the server is as it was. *)
BindFails(r) ==
  /\ ReturnRun(r, "starting", "start")
  /\ cause' = Cause(r, "start")
  /\ running' = FALSE
  /\ runOf' = Nobody
  /\ UNCHANGED <<routes, ran, stopped, serveErr, admitClosed, served,
                 parentDone, surfs, stops>>

Latch(r) ==
  /\ GoRun(r, "latch", "launch")
  /\ ran' = TRUE
  /\ UNCHANGED <<routes, running, stopped, runOf, serveErr, admitClosed,
                 rres, served, parentDone, cause, surfs, stops>>

(* wg.Add(1) and the go statement, once for each surface. *)
Launch(r, b) ==
  /\ rpc[r] = "launch"
  /\ spc[b] = "none"
  /\ spc' = [spc EXCEPT ![b] = "serving"]
  /\ servedBy' = [servedBy EXCEPT ![b] = r]
  /\ UNCHANGED <<mem, runs, stops>>

Launched(r) ==
  /\ \A b \in Surfaces : spc[b] # "none"
  /\ GoRun(r, "launch", "waiting")
  /\ UNCHANGED <<mem, rres, served, parentDone, cause, surfs, stops>>

(* <-runCtx.Done() *)
SeesDone(r) ==
  /\ Done(r)
  /\ GoRun(r, "waiting", "joining")
  /\ UNCHANGED <<mem, rres, served, parentDone, cause, surfs, stops>>

(* Mutation: Run does not join the surfaces. *)
JoinsNothing(r) ==
  /\ GoRun(r, "joining", "closing")
  /\ running' = FALSE
  /\ UNCHANGED <<routes, ran, stopped, runOf, serveErr, admitClosed,
                 rres, served, parentDone, cause, surfs, stops>>

(* s.wg.Wait(), then running falls under the lock. *)
Joins(r) ==
  /\ Outstanding = {}
  /\ GoRun(r, "joining", "closing")
  /\ running' = FALSE
  /\ UNCHANGED <<routes, ran, stopped, runOf, serveErr, admitClosed,
                 rres, served, parentDone, cause, surfs, stops>>

(* Mutation: a cause that is not a plain cancel is all Run reports. *)
RunResultNoCtx(r) == IF serveErr # Nobody THEN "serve" ELSE "nil"

(* What Run returns at its end: the first surface's error, else the cause   *)
(* its ctx ended with unless that is a plain cancel or Shutdown's, else     *)
(* ctx.Err().  A cause that is a surface's error is shadowed by serveErr.   *)
RunResult(r) ==
  CASE serveErr # Nobody -> "serve"
    [] serveErr = Nobody /\ cause[r] \notin {"parent", "shutdown"} -> "cause"
    [] serveErr = Nobody /\ cause[r] \in {"parent", "shutdown"} ->
         IF r \in parentDone THEN "ctx" ELSE "nil"

(* The gate closes with the Run, which returns. *)
RunReturns(r) ==
  /\ ReturnRun(r, "closing", RunResult(r))
  /\ admitClosed' = TRUE
  /\ UNCHANGED <<routes, running, ran, stopped, runOf, serveErr,
                 served, parentDone, cause, surfs, stops>>

(***************************************************************************)
(* The goroutine of a surface                                              *)
(***************************************************************************)

GoSurface(b, from, to) ==
  /\ spc[b] = from
  /\ spc' = [spc EXCEPT ![b] = to]
  /\ UNCHANGED servedBy

(* Serve returns an error of its own. *)
ServeFails(b) ==
  /\ GoSurface(b, "serving", "failed")
  /\ UNCHANGED <<mem, runs, stops>>

(* Serve returns because its ctx is done. *)
ServeStops(b) ==
  /\ GoSurface(b, "serving", "ended")
  /\ Done(servedBy[b])
  /\ UNCHANGED <<mem, runs, stops>>

(* Serve returns nil with its ctx live: the owner of the transport called   *)
(* its Shutdown or Close.                                                   *)
OwnerStopsTransport(b) ==
  /\ GoSurface(b, "serving", "ended")
  /\ UNCHANGED <<mem, runs, stops>>

(* err # nil && runCtx.Err() == nil *)
FailureCounts(b) ==
  /\ spc[b] = "failed"
  /\ GoSurface(b, "failed", IF Done(servedBy[b]) THEN "ended" ELSE "storing")
  /\ UNCHANGED <<mem, runs, stops>>

(* serveErr.CompareAndSwap(nil, &err) *)
StoreFailure(b) ==
  /\ GoSurface(b, "storing", "cancelling")
  /\ serveErr' = IF serveErr = Nobody THEN b ELSE serveErr
  /\ UNCHANGED <<routes, running, ran, stopped, runOf, admitClosed, runs, stops>>

(* Mutation: the failure is recorded and the Run goes on. *)
CancelRunSkipped(b) ==
  /\ GoSurface(b, "cancelling", "ended")
  /\ UNCHANGED <<mem, runs, stops>>

(* runCancel(err) *)
CancelRun(b) ==
  /\ GoSurface(b, "cancelling", "ended")
  /\ cause' = Cause(servedBy[b], b)
  /\ UNCHANGED <<mem, rpc, rres, served, parentDone, stops>>

(* wg.Done() *)
SurfaceDone(b) ==
  /\ GoSurface(b, "ended", "done")
  /\ UNCHANGED <<mem, runs, stops>>

(***************************************************************************)
(* Shutdown and the caller's ctx                                           *)
(***************************************************************************)

(* The section under the lock: latch stopped, close the gate, read          *)
(* runCancel and running.                                                   *)
Shutdown(d) ==
  /\ dpc[d] = "idle"
  /\ dpc' = [dpc EXCEPT ![d] = "cancel"]
  /\ stopped' = TRUE
  /\ admitClosed' = TRUE
  /\ dTarget' = [dTarget EXCEPT ![d] = runOf]
  /\ dRunning' = [dRunning EXCEPT ![d] = running]
  /\ UNCHANGED <<routes, running, ran, runOf, serveErr, dres, runs, surfs>>

(* runCancel(ErrServerShutdown); without a Run under way that is all. *)
ShutdownCancels(d) ==
  /\ dpc[d] = "cancel"
  /\ cause' = IF dTarget[d] = Nobody THEN cause ELSE Cause(dTarget[d], "shutdown")
  /\ dpc' = [dpc EXCEPT ![d] = IF dRunning[d] THEN "waiting" ELSE "returned"]
  /\ dres' = [dres EXCEPT ![d] = IF dRunning[d] THEN @ ELSE "nil"]
  /\ UNCHANGED <<mem, rpc, rres, served, parentDone, surfs, dTarget, dRunning>>

ReturnShutdown(d, result) ==
  /\ dpc[d] = "waiting"
  /\ dpc' = [dpc EXCEPT ![d] = "returned"]
  /\ dres' = [dres EXCEPT ![d] = result]
  /\ UNCHANGED <<mem, runs, surfs, dTarget, dRunning>>

(* s.wg.Wait() returned in the helper goroutine. *)
ShutdownJoined(d) == Outstanding = {} /\ ReturnShutdown(d, "nil")

(* The ctx given to Shutdown ended first. *)
ShutdownExpires(d) == ReturnShutdown(d, "ctx")

(* The ctx given to Run ends, possibly before Run is called. *)
ParentCancels(r) ==
  /\ rpc[r] # "returned"
  /\ r \notin parentDone
  /\ parentDone' = parentDone \cup {r}
  /\ cause' = Cause(r, ParentCause(r))
  /\ UNCHANGED <<mem, rpc, rres, served, surfs, stops>>

RunStep(r) ==
  \/ RunStarts(r) \/ RunRefused(r) \/ BindOk(r) \/ BindFails(r) \/ Latch(r)
  \/ (\E b \in Surfaces : Launch(r, b)) \/ Launched(r)
  \/ SeesDone(r) \/ Joins(r) \/ RunReturns(r)

(* What the goroutine of a surface does once Serve has returned. *)
SurfaceStep(b) ==
  FailureCounts(b) \/ StoreFailure(b) \/ CancelRun(b) \/ SurfaceDone(b)

ShutdownStep(d) == ShutdownCancels(d) \/ ShutdownJoined(d)

LifeNext ==
  \/ \E s \in Services : Register(s)
  \/ \E r \in Runners : RunStep(r) \/ ParentCancels(r)
  \/ \E b \in Surfaces : SurfaceStep(b) \/ ServeFails(b) \/ ServeStops(b)
                           \/ OwnerStopsTransport(b)
  \/ \E d \in Stoppers : Shutdown(d) \/ ShutdownStep(d) \/ ShutdownExpires(d)

LifeSpec == LifeInit /\ [][LifeNext]_lifeVars

(* A goroutine that can run does, and Serve honours its ctx.  Nothing makes *)
(* anyone call Run or Shutdown, makes Serve fail or makes a caller cancel.  *)
Fairness ==
  /\ \A r \in Runners : WF_lifeVars(rpc[r] # "idle" /\ RunStep(r))
  /\ \A b \in Surfaces : WF_lifeVars(SurfaceStep(b)) /\ WF_lifeVars(ServeStops(b))
  /\ \A d \in Stoppers : WF_lifeVars(ShutdownStep(d))

LifeFairSpec == LifeSpec /\ Fairness

(***************************************************************************)
(* Properties                                                              *)
(***************************************************************************)

(* The state has its type. *)
LifeTypeOK ==
  /\ routes \subseteq Services
  /\ {running, ran, stopped, admitClosed} \subseteq BOOLEAN
  /\ runOf \in Runners \cup {Nobody}
  /\ serveErr \in Surfaces \cup {Nobody}
  /\ rpc \in [Runners -> RPCs]
  /\ rres \in [Runners -> {"none", "closed", "already", "config", "start",
                           "serve", "cause", "ctx", "nil"}]
  /\ served \in [Runners -> SUBSET Services]
  /\ parentDone \subseteq Runners
  /\ cause \in [Runners -> {"none", "live", "parent", "reason", "shutdown", "start"} \cup Surfaces]
  /\ spc \in [Surfaces -> SPCs]
  /\ servedBy \in [Surfaces -> Runners \cup {Nobody}]
  /\ dpc \in [Stoppers -> DPCs]
  /\ dres \in [Stoppers -> {"none", "nil", "ctx"}]
  /\ dTarget \in [Stoppers -> Runners \cup {Nobody}]
  /\ dRunning \in [Stoppers -> BOOLEAN]

(* At most one Run is past its admission, however many are called at once,  *)
(* none follows one that launched, so surfaces are never served twice, and  *)
(* the routes it serves are the registered ones for as long as it runs: no  *)
(* Register succeeds and is missing from the table in use.  An aborted      *)
(* start leaves the server free: with no Run under way and none that        *)
(* launched, running is false, no ctx is left behind and no surface is up,  *)
(* so the next Run reports its own outcome.                                 *)
OneRun ==
  /\ LifeTypeOK
  /\ Cardinality({r \in Runners : rpc[r] \in Active}) <= 1
  /\ Cardinality({servedBy[b] : b \in {x \in Surfaces : spc[x] # "none"}}) <= 1
  /\ \A r \in Runners : rpc[r] \in Active => served[r] = routes
  /\ (\A r \in Runners : rpc[r] \notin Active) /\ ~ran =>
       ~running /\ runOf = Nobody /\ \A b \in Surfaces : spc[b] = "none"

(* Run returns only after every goroutine it launched is done, and with the *)
(* admission gate closed; an aborted start does not close the gate.         *)
RunJoins ==
  /\ \A b \in Surfaces : spc[b] # "none" /\ rpc[servedBy[b]] = "returned" =>
       /\ \A x \in Surfaces : spc[x] = "done"
       /\ admitClosed
  /\ admitClosed => stopped \/ (ran /\ Outstanding = {})

(* The result of Run: nil means that Shutdown ended it and its caller did   *)
(* not; ctx.Err() that its caller's ctx is done; a cause that the caller's  *)
(* ctx ended with that cause (never that of a surface, a start that failed, *)
(* or Shutdown); and neither is reported when a surface's failure counted.  *)
ResultExplained ==
  \A r \in Runners :
    /\ rres[r] = "nil" => stopped /\ r \notin parentDone
    /\ rres[r] = "ctx" => r \in parentDone
    /\ rres[r] = "cause" => r \in parentDone \cap WithCause /\ cause[r] = "reason"
    /\ rres[r] \in {"nil", "ctx", "cause"} => serveErr = Nobody

(* Shutdown ends whatever Run is under way, one still in its start too, and *)
(* returns itself.                                                          *)
ShutdownEndsRun ==
  \A d \in Stoppers : \A r \in Runners :
    (dpc[d] # "idle" /\ rpc[r] \in Active \cup {"returned"}) ~>
      (dpc[d] = "returned" /\ rpc[r] = "returned")

(* A surface that fails with the ctx live brings the whole Run down.        *)
FailureEndsRun ==
  \A b \in Surfaces : \A r \in Runners :
    (spc[b] = "storing" /\ servedBy[b] = r) ~> rpc[r] = "returned"

(* Run ends, and Shutdown with it, for either reason. *)
RunComesDown == ShutdownEndsRun /\ FailureEndsRun

=============================================================================
