----------------------------- MODULE SessionPool -----------------------------
(***************************************************************************)
(* The client session pool, internal/sessionpool/pool.go.                  *)
(*                                                                         *)
(* Each caller runs Pool.OpenCallReleasing once: the retry loop of         *)
(* OpenCall, the locked and unlocked halves of acquire, the dial, the call *)
(* and, when the call is closed, Release.  p.mu is held across reclaim and *)
(* lend (pc = "lend"), because connections go bad and deadlines pass while *)
(* it is held; every other critical section is one step.                   *)
(*                                                                         *)
(* Time is abstracted to two sets: the connections whose lifetime is over  *)
(* and the idle ones whose idle timeout is over.  A bucket's entries list  *)
(* is the set of tracked connections of that endpoint, lent in any order.  *)
(***************************************************************************)
EXTENDS Integers, FiniteSets

CONSTANTS
  Callers,                  \* goroutines that open one call each
  Endpoints,                \* keys of p.buckets
  Sessions,                 \* identities of the connections DialFunc returns
  None,                     \* no connection, no endpoint, no flight leader
  MaxSessionsPerEndpoint,   \* 0: no limit
  MaxIdleSessions,          \* < 0: no limit
  CapPer,                   \* p.capPer: calls per connection, -1 for multiplexed
  HasIdleTimeout,           \* SessionIdleTimeout > 0
  HasLifetime,              \* MaxSessionLifetime > 0
  HasDialBudget             \* a handshake timeout bounds the dial

ASSUME PoolAssumption ==
  /\ IsFiniteSet(Callers)
  /\ IsFiniteSet(Sessions)
  /\ None \notin Callers \cup Sessions \cup Endpoints
  /\ MaxSessionsPerEndpoint \in Nat
  /\ MaxIdleSessions \in Int
  /\ CapPer \in Int /\ CapPer # 0
  /\ HasIdleTimeout \in BOOLEAN
  /\ HasLifetime \in BOOLEAN
  /\ HasDialBudget \in BOOLEAN

VARIABLES
  closed,       \* p.closed
  tracked,      \* keys of p.bySess, the union of the buckets' entries
  idle,         \* entries with inIdle, the union of the buckets' idle queues
  refcount,     \* entry.refcount
  pendingDial,  \* bucket.pendingDial
  flights,      \* p.flights: the caller leading the endpoint's cold start
  closing,      \* connections Pool.Close has collected and not closed yet
  epOf,         \* the endpoint a connection was dialed for
  conn,         \* the connection itself: not dialed, open or closed
  reusable,     \* connections whose Reusable() is true
  aged,         \* connections past MaxSessionLifetime
  stale,        \* idle connections past SessionIdleTimeout
  pc, target, sess, skip, attempt, res,   \* the callers
  cancelled     \* callers whose ctx is done

poolVars   == <<closed, tracked, idle, refcount, pendingDial, flights, closing>>
connVars   == <<epOf, conn, reusable, aged, stale>>
callerData == <<target, sess, skip, attempt, res, cancelled>>
callerVars == <<pc, callerData>>
vars       == <<poolVars, connVars, callerVars>>

Leasing  == {"opening", "holding", "relRetry", "relFail", "relDone"}
InDial   == {"dialing", "dialed", "dialFailed", "dialPanicked"}
Waiting  == {"waiting", "flightOk", "flightErr"}
PCs      == {"start", "acquire", "lend", "discard", "done"}
              \cup Leasing \cup InDial \cup Waiting
Failures == {"closed", "exhausted", "dialerr", "ctx", "panic", "callerr"}
Results  == {"none", "ok"} \cup Failures

Multiplexed == CapPer < 0

(* p.mu is free: no caller is between reclaim and lend. *)
LockFree == \A c \in Callers : pc[c] # "lend"

Entries(e) == {s \in tracked : epOf[s] = e}
IdleAt(e)  == {s \in idle : epOf[s] = e}
Holders(s) == {c \in Callers : sess[c] = s /\ pc[c] \in Leasing}
Dialers(e) == {c \in Callers : target[c] = e /\ pc[c] \in InDial}

Init ==
  /\ closed = FALSE
  /\ tracked = {}
  /\ idle = {}
  /\ refcount = [s \in Sessions |-> 0]
  /\ pendingDial = [e \in Endpoints |-> 0]
  /\ flights = [e \in Endpoints |-> None]
  /\ closing = {}
  /\ epOf = [s \in Sessions |-> None]
  /\ conn = [s \in Sessions |-> "none"]
  /\ reusable = {}
  /\ aged = {}
  /\ stale = {}
  /\ pc = [c \in Callers |-> "start"]
  /\ target \in [Callers -> Endpoints]
  /\ sess = [c \in Callers |-> None]
  /\ skip = [c \in Callers |-> {}]
  /\ attempt = [c \in Callers |-> 0]
  /\ res = [c \in Callers |-> "none"]
  /\ cancelled = {}

(***************************************************************************)
(* Bookkeeping under p.mu                                                  *)
(***************************************************************************)

(* The connections S stop being usable and their sockets are released. *)
CloseConns(S) ==
  /\ conn' = [s \in Sessions |-> IF s \in S THEN "closed" ELSE conn[s]]
  /\ reusable' = reusable \ S

(* discardLocked for every connection of S. *)
Discard(S) ==
  /\ tracked' = tracked \ S
  /\ idle' = idle \ S
  /\ aged' = aged \ S
  /\ stale' = stale \ S
  /\ CloseConns(S)

(* Mutation: reclaim does not look at the reference count. *)
ReclaimableInUse == {s \in tracked : s \in aged \cup stale \/ s \notin reusable}

(* What reclaimLocked discards: entries nobody holds that are past a       *)
(* deadline or have gone bad (only idle ones can be past the idle timeout). *)
Reclaimable ==
  {s \in tracked : refcount[s] = 0 /\ (s \in aged \cup stale \/ s \notin reusable)}

HasCapacity(s) == CapPer > 0 => refcount[s] < CapPer

(* lendableLocked, for a caller that skips the connections it found busy. *)
Lendable(c, s) ==
  /\ s \in tracked
  /\ epOf[s] = target[c]
  /\ s \notin skip[c]
  /\ s \notin aged
  /\ s \in reusable
  /\ HasCapacity(s)

(* Mutation: dials in progress do not count. *)
AtCapIgnoresDials(e) ==
  MaxSessionsPerEndpoint > 0 /\ Cardinality(Entries(e)) >= MaxSessionsPerEndpoint

AtCap(e) ==
  /\ MaxSessionsPerEndpoint > 0
  /\ Cardinality(Entries(e)) + pendingDial[e] >= MaxSessionsPerEndpoint

(* The locals of OpenCall's retry loop go out of scope. *)
LeaveLoop(c) ==
  /\ skip' = [skip EXCEPT ![c] = {}]
  /\ attempt' = [attempt EXCEPT ![c] = 0]

(* c's Open returns to the application with outcome r. *)
Return(c, r) ==
  /\ pc' = [pc EXCEPT ![c] = "done"]
  /\ res' = [res EXCEPT ![c] = r]
  /\ LeaveLoop(c)

Move(c, from, to) ==
  /\ pc[c] = from
  /\ pc' = [pc EXCEPT ![c] = to]

(***************************************************************************)
(* OpenCall and acquire                                                    *)
(***************************************************************************)

(* OpenCallReleasing enters the retry loop. *)
Open(c) ==
  /\ Move(c, "start", "acquire")
  /\ UNCHANGED <<poolVars, connVars, callerData>>

(* acquire takes p.mu, first or after waiting for a flight: pool closed. *)
FindClosed(c) ==
  /\ pc[c] \in {"acquire", "flightOk"}
  /\ LockFree
  /\ closed
  /\ Return(c, "closed")
  /\ UNCHANGED <<poolVars, connVars, target, sess, cancelled>>

(* acquire takes p.mu and reclaims. *)
Reclaim(c) ==
  /\ LockFree
  /\ ~closed
  /\ Move(c, "acquire", "lend")
  /\ Discard(Reclaimable)
  /\ UNCHANGED <<closed, refcount, pendingDial, flights, closing, epOf, callerData>>

(* p.mu is held: since the reclaim, or taken again after a flight. *)
AtLend(c) ==
  \/ pc[c] = "lend"
  \/ pc[c] = "flightOk" /\ LockFree /\ ~closed

(* tryLendLocked: some lendable connection goes to c. *)
Lend(c) ==
  /\ AtLend(c)
  /\ \E s \in Sessions :
       /\ Lendable(c, s)
       /\ idle' = idle \ {s}
       /\ stale' = stale \ {s}
       /\ refcount' = [refcount EXCEPT ![s] = @ + 1]
       /\ sess' = [sess EXCEPT ![c] = s]
  /\ pc' = [pc EXCEPT ![c] = "opening"]
  /\ UNCHANGED <<closed, tracked, pendingDial, flights, closing, epOf, conn,
                 reusable, aged, target, skip, attempt, res, cancelled>>

NothingToLend(c) == \A s \in Sessions : ~Lendable(c, s)

(* Mutation: callers do not see each other's flights. *)
FlightUnseen(c) == FALSE

(* Multiplexed cold start: another caller is already dialing c's endpoint. *)
FlightUnderWay(c) == Multiplexed /\ flights[target[c]] # None

JoinFlight(c) ==
  /\ NothingToLend(c)
  /\ FlightUnderWay(c)
  /\ Move(c, "lend", "waiting")
  /\ UNCHANGED <<poolVars, connVars, callerData>>

(* Nothing to lend and the endpoint is full.  Only a caller that has just  *)
(* come back from a flight does not look for another one.                  *)
Exhausted(c) ==
  /\ AtLend(c)
  /\ NothingToLend(c)
  /\ pc[c] = "lend" => ~FlightUnderWay(c)
  /\ AtCap(target[c])
  /\ Return(c, "exhausted")
  /\ UNCHANGED <<poolVars, connVars, target, sess, cancelled>>

(* The flight's connection is not lendable but there is room: try again. *)
WaiterRetries(c) ==
  /\ AtLend(c)
  /\ NothingToLend(c)
  /\ ~AtCap(target[c])
  /\ Move(c, "flightOk", "acquire")
  /\ UNCHANGED <<poolVars, connVars, callerData>>

(* Reserve a slot and dial; a multiplexed pool registers the flight. *)
StartDial(c) ==
  /\ NothingToLend(c)
  /\ ~FlightUnderWay(c)
  /\ ~AtCap(target[c])
  /\ Move(c, "lend", "dialing")
  /\ pendingDial' = [pendingDial EXCEPT ![target[c]] = @ + 1]
  /\ flights' = IF Multiplexed THEN [flights EXCEPT ![target[c]] = c] ELSE flights
  /\ UNCHANGED <<closed, tracked, idle, refcount, closing, connVars, callerData>>

(***************************************************************************)
(* The dial, outside p.mu                                                  *)
(***************************************************************************)

(* c's reservation goes and, multiplexed, so does its flight: retireFlight. *)
ReleaseReservation(c) ==
  /\ pendingDial' = [pendingDial EXCEPT ![target[c]] = @ - 1]
  /\ flights' = IF Multiplexed THEN [flights EXCEPT ![target[c]] = None] ELSE flights

(* DialFunc returns a connection that has already handshaken. *)
DialOk(c) ==
  /\ Move(c, "dialing", "dialed")
  /\ \E s \in Sessions :
       /\ conn[s] = "none"
       /\ conn' = [conn EXCEPT ![s] = "open"]
       /\ reusable' = reusable \cup {s}
       /\ epOf' = [epOf EXCEPT ![s] = target[c]]
       /\ sess' = [sess EXCEPT ![c] = s]
  /\ UNCHANGED <<poolVars, aged, stale, target, skip, attempt, res, cancelled>>

(* Mutation: the dial always runs under the caller's own ctx. *)
CtxAlwaysReachesDial(c) == c \in cancelled

(* With a budget, dialNew detaches the dial from the caller's ctx           *)
(* (WithoutCancel); without one the ctx reaches DialFunc.                   *)
CtxReachesDial(c) == ~HasDialBudget /\ c \in cancelled

(* DialFunc fails, on the caller's ctx or for a reason of its own. *)
DialFail(c) ==
  /\ Move(c, "dialing", "dialFailed")
  /\ \E r \in {"dialerr", "ctx"} :
       /\ r = "ctx" => CtxReachesDial(c)
       /\ res' = [res EXCEPT ![c] = r]
  /\ UNCHANGED <<poolVars, connVars, target, sess, skip, attempt, cancelled>>

(* The axis' own dial or handshake code panics. *)
DialPanic(c) ==
  /\ Move(c, "dialing", "dialPanicked")
  /\ res' = [res EXCEPT ![c] = "panic"]
  /\ UNCHANGED <<poolVars, connVars, target, sess, skip, attempt, cancelled>>

(* The callers blocked on c's flight, which close(fl.done) wakes. *)
Followers(c) ==
  {d \in Callers : Multiplexed /\ pc[d] = "waiting" /\ target[d] = target[c]}

(* c goes on to next; its followers learn that the flight succeeded. *)
FlightSucceeds(c, next) ==
  pc' = [d \in Callers |-> IF d = c THEN next
                           ELSE IF d \in Followers(c) THEN "flightOk" ELSE pc[d]]

(* c goes on to next with error r, which fl.err reports to the followers as err. *)
FlightFails(c, next, r, err) ==
  /\ pc' = [d \in Callers |-> IF d = c THEN next
                              ELSE IF d \in Followers(c) THEN "flightErr" ELSE pc[d]]
  /\ res' = [d \in Callers |-> IF d = c THEN r
                               ELSE IF d \in Followers(c) THEN err ELSE res[d]]
  /\ LeaveLoop(c)

(* The connection becomes an entry with one reference before the          *)
(* reservation is given up, so the endpoint is never unaccounted for.      *)
DialPublish(c) ==
  /\ pc[c] = "dialed"
  /\ LockFree
  /\ ~closed
  /\ tracked' = tracked \cup {sess[c]}
  /\ refcount' = [refcount EXCEPT ![sess[c]] = 1]
  /\ ReleaseReservation(c)
  /\ FlightSucceeds(c, "opening")
  /\ UNCHANGED <<closed, idle, closing, connVars,
                 target, sess, skip, attempt, res, cancelled>>

(* Mutation: the late connection is dropped without being closed. *)
DialTooLateDropped(c) ==
  /\ pc[c] = "dialed"
  /\ LockFree
  /\ closed
  /\ ReleaseReservation(c)
  /\ FlightFails(c, "done", "closed", "closed")
  /\ UNCHANGED <<closed, tracked, idle, refcount, closing, connVars,
                 target, sess, cancelled>>

(* The pool was closed during the dial; the caller closes the connection itself. *)
DialTooLate(c) ==
  /\ pc[c] = "dialed"
  /\ LockFree
  /\ closed
  /\ ReleaseReservation(c)
  /\ FlightFails(c, "discard", "closed", "closed")
  /\ UNCHANGED <<closed, tracked, idle, refcount, closing, connVars,
                 target, sess, cancelled>>

CloseLateConn(c) ==
  /\ Move(c, "discard", "done")
  /\ CloseConns({sess[c]})
  /\ UNCHANGED <<poolVars, epOf, aged, stale, callerData>>

(* A failed dial gives the reservation back; on a closed pool the error says so. *)
DialRetire(c) ==
  /\ pc[c] = "dialFailed"
  /\ LockFree
  /\ ReleaseReservation(c)
  /\ LET err == IF closed THEN "closed" ELSE res[c]
     IN  FlightFails(c, "done", err, err)
  /\ UNCHANGED <<closed, tracked, idle, refcount, closing, connVars,
                 target, sess, cancelled>>

(* Mutation: a panicking dial leaves its flight registered. *)
DialRecoverKeepsFlight(c) ==
  /\ pc[c] = "dialPanicked"
  /\ LockFree
  /\ pendingDial' = [pendingDial EXCEPT ![target[c]] = @ - 1]
  /\ Return(c, "panic")
  /\ UNCHANGED <<closed, tracked, idle, refcount, flights, closing, connVars,
                 target, sess, cancelled>>

(* The deferred recover: the flight is retired with an error, the panic goes on. *)
DialRecover(c) ==
  /\ pc[c] = "dialPanicked"
  /\ LockFree
  /\ ReleaseReservation(c)
  /\ FlightFails(c, "done", "panic", "dialerr")
  /\ UNCHANGED <<closed, tracked, idle, refcount, closing, connVars,
                 target, sess, cancelled>>

(***************************************************************************)
(* The callers that waited for a flight; one that succeeded sends them     *)
(* back to the lend above.                                                 *)
(***************************************************************************)

(* The flight failed: its error is the waiter's, without another dial. *)
WaiterFails(c) ==
  /\ pc[c] = "flightErr"
  /\ Return(c, res[c])
  /\ UNCHANGED <<poolVars, connVars, target, sess, cancelled>>

(* The waiter's own ctx ends first (select picks either when both are ready). *)
WaiterCancelled(c) ==
  /\ pc[c] \in Waiting
  /\ c \in cancelled
  /\ Return(c, "ctx")
  /\ UNCHANGED <<poolVars, connVars, target, sess, cancelled>>

(***************************************************************************)
(* The call on the lent connection                                         *)
(***************************************************************************)

(* sess.OpenCall succeeds: the application holds the call. *)
OpenCallOk(c) ==
  /\ Move(c, "opening", "holding")
  /\ res' = [res EXCEPT ![c] = "ok"]
  /\ LeaveLoop(c)
  /\ UNCHANGED <<poolVars, connVars, target, sess, cancelled>>

(* ErrConnBusy: never this connection again in this chain of attempts. *)
OpenCallBusy(c) ==
  /\ Move(c, "opening", "relRetry")
  /\ skip' = [skip EXCEPT ![c] = @ \cup {sess[c]}]
  /\ UNCHANGED <<poolVars, connVars, target, sess, attempt, res, cancelled>>

(* ErrConnSpent, from a one-call connection: OpenCall closes it itself. *)
OpenCallSpent(c) ==
  /\ CapPer = 1
  /\ Move(c, "opening", "relRetry")
  /\ CloseConns({sess[c]})
  /\ UNCHANGED <<poolVars, epOf, aged, stale, callerData>>

(* Mutation: the error path returns without Release. *)
OpenCallErrorLeaks(c) ==
  /\ pc[c] = "opening"
  /\ Return(c, "callerr")
  /\ sess' = [sess EXCEPT ![c] = None]
  /\ UNCHANGED <<poolVars, connVars, target, cancelled>>

OpenCallError(c) ==
  /\ Move(c, "opening", "relFail")
  /\ UNCHANGED <<poolVars, connVars, callerData>>

(* releasingCall.Close: Call.Close returns, Release follows. *)
CloseCall(c) ==
  /\ Move(c, "holding", "relDone")
  /\ UNCHANGED <<poolVars, connVars, callerData>>

IdleRoom(e) == MaxIdleSessions < 0 \/ Cardinality(IdleAt(e)) < MaxIdleSessions

(* returnLocked after the reference is dropped: kept while others hold it,  *)
(* closed when bad, too old or with the idle queue full, idle otherwise.    *)
ReturnConn(s) ==
  LET keep == s \in reusable /\ s \notin aged /\ IdleRoom(epOf[s])
  IN  /\ refcount' = [refcount EXCEPT ![s] = @ - 1]
      /\ \/ refcount[s] > 1 /\ UNCHANGED <<tracked, idle, conn, reusable, aged, stale>>
         \/ refcount[s] = 1 /\ ~keep /\ Discard({s})
         \/ /\ refcount[s] = 1 /\ keep
            /\ idle' = idle \cup {s}
            /\ UNCHANGED <<tracked, conn, reusable, aged, stale>>

(* Mutation: the retry loop runs once more than MaxSessionsPerEndpoint. *)
LastAttemptOffByOne(c) ==
  MaxSessionsPerEndpoint > 0 /\ attempt[c] + 1 > MaxSessionsPerEndpoint

LastAttempt(c) ==
  MaxSessionsPerEndpoint > 0 /\ attempt[c] + 1 >= MaxSessionsPerEndpoint

(* What OpenCall does once the connection is back. *)
AfterRelease(c) ==
  \/ pc[c] = "relDone" /\ Return(c, res[c])
  \/ pc[c] = "relFail" /\ Return(c, "callerr")
  \/ pc[c] = "relRetry" /\ LastAttempt(c) /\ Return(c, "exhausted")
  \/ /\ pc[c] = "relRetry"
     /\ ~LastAttempt(c)
     /\ pc' = [pc EXCEPT ![c] = "acquire"]
     /\ attempt' = [attempt EXCEPT ![c] = IF MaxSessionsPerEndpoint > 0 THEN @ + 1 ELSE @]
     /\ UNCHANGED <<skip, res>>

(* Release: nothing to do when Pool.Close has dropped the entry. *)
Release(c) ==
  /\ pc[c] \in {"relRetry", "relFail", "relDone"}
  /\ LockFree
  /\ \/ sess[c] \in tracked /\ refcount[sess[c]] # 0 /\ ReturnConn(sess[c])
     \/ /\ sess[c] \notin tracked \/ refcount[sess[c]] = 0
        /\ UNCHANGED <<tracked, idle, refcount, conn, reusable, aged, stale>>
  /\ AfterRelease(c)
  /\ sess' = [sess EXCEPT ![c] = None]
  /\ UNCHANGED <<closed, pendingDial, flights, closing, epOf, target, cancelled>>

(***************************************************************************)
(* Pool.Close, the reclaim loop and the environment                        *)
(***************************************************************************)

(* Close marks the pool closed and drops every bucket and entry. *)
PoolClose ==
  /\ LockFree
  /\ ~closed
  /\ closed' = TRUE
  /\ closing' = tracked
  /\ tracked' = {}
  /\ idle' = {}
  /\ aged' = {}
  /\ stale' = {}
  /\ refcount' = [s \in Sessions |-> 0]
  /\ pendingDial' = [e \in Endpoints |-> 0]
  /\ UNCHANGED <<flights, epOf, conn, reusable, callerVars>>

(* Outside p.mu Close closes what it collected, one connection at a time. *)
PoolCloseConn ==
  /\ \E s \in closing :
       /\ closing' = closing \ {s}
       /\ CloseConns({s})
  /\ UNCHANGED <<closed, tracked, idle, refcount, pendingDial, flights,
                 epOf, aged, stale, callerVars>>

(* A tick of reclaimLoop. *)
ReclaimTick ==
  /\ LockFree
  /\ ~closed
  /\ Reclaimable # {}
  /\ Discard(Reclaimable)
  /\ UNCHANGED <<closed, refcount, pendingDial, flights, closing, epOf, callerVars>>

(* A connection breaks, enters an exclusive state, or its peer goes away:   *)
(* Reusable() becomes false, for good.                                      *)
ConnSpoils ==
  /\ \E s \in reusable : reusable' = reusable \ {s}
  /\ UNCHANGED <<poolVars, epOf, conn, aged, stale, callerVars>>

LifetimePasses ==
  /\ HasLifetime
  /\ \E s \in tracked \ aged : aged' = aged \cup {s}
  /\ UNCHANGED <<poolVars, epOf, conn, reusable, stale, callerVars>>

IdleTimePasses ==
  /\ HasIdleTimeout
  /\ \E s \in idle \ stale : stale' = stale \cup {s}
  /\ UNCHANGED <<poolVars, epOf, conn, reusable, aged, callerVars>>

(* The application cancels its ctx while its Open is under way.  Only a     *)
(* dial and a wait for a flight look at it, so it is cancelled there.       *)
Cancel(c) ==
  /\ c \notin cancelled
  /\ pc[c] \in {"dialing"} \cup Waiting
  /\ cancelled' = cancelled \cup {c}
  /\ UNCHANGED <<poolVars, connVars, pc, target, sess, skip, attempt, res>>

Acquire(c) ==
  \/ FindClosed(c) \/ Reclaim(c) \/ Lend(c) \/ JoinFlight(c)
  \/ Exhausted(c) \/ WaiterRetries(c) \/ StartDial(c)

Dial(c) ==
  \/ DialOk(c) \/ DialFail(c) \/ DialPanic(c)
  \/ DialPublish(c) \/ DialTooLate(c) \/ CloseLateConn(c)
  \/ DialRetire(c) \/ DialRecover(c)

UseConn(c) ==
  \/ OpenCallOk(c) \/ OpenCallBusy(c) \/ OpenCallSpent(c) \/ OpenCallError(c)
  \/ Release(c)

CallerStep(c) ==
  Acquire(c) \/ Dial(c) \/ WaiterFails(c) \/ WaiterCancelled(c) \/ UseConn(c)

Next ==
  \/ \E c \in Callers : Open(c) \/ CallerStep(c) \/ CloseCall(c) \/ Cancel(c)
  \/ PoolClose \/ PoolCloseConn \/ ReclaimTick
  \/ ConnSpoils \/ LifetimePasses \/ IdleTimePasses

Spec == Init /\ [][Next]_vars

(* The Go scheduler runs every runnable goroutine and sync.Mutex is        *)
(* starvation free; a dial ends because its budget, the peer or, after     *)
(* Close, stopCh ends it; the reclaim ticker fires every second.  Nothing  *)
(* makes an application open, cancel or close a call, or a connection fail. *)
Fairness ==
  /\ \A c \in Callers : SF_vars(CallerStep(c))
  /\ WF_vars(PoolCloseConn)
  /\ WF_vars(ReclaimTick)

FairSpec == Spec /\ Fairness

-----------------------------------------------------------------------------
(***************************************************************************)
(* Properties                                                              *)
(***************************************************************************)

(* The types of the variables; a chain of attempts stays within the retry  *)
(* bound of OpenCall.                                                      *)
TypeOK ==
  /\ closed \in BOOLEAN
  /\ tracked \in SUBSET Sessions
  /\ idle \in SUBSET Sessions
  /\ refcount \in [Sessions -> Nat]
  /\ pendingDial \in [Endpoints -> Int]
  /\ flights \in [Endpoints -> Callers \cup {None}]
  /\ closing \in SUBSET Sessions
  /\ epOf \in [Sessions -> Endpoints \cup {None}]
  /\ conn \in [Sessions -> {"none", "open", "closed"}]
  /\ reusable \in SUBSET Sessions
  /\ aged \in SUBSET Sessions
  /\ stale \in SUBSET Sessions
  /\ pc \in [Callers -> PCs]
  /\ target \in [Callers -> Endpoints]
  /\ sess \in [Callers -> Sessions \cup {None}]
  /\ skip \in [Callers -> SUBSET Sessions]
  /\ attempt \in [Callers -> Nat]
  /\ MaxSessionsPerEndpoint > 0 => \A c \in Callers : attempt[c] < MaxSessionsPerEndpoint
  /\ res \in [Callers -> Results]
  /\ cancelled \in SUBSET Callers

(* MaxSessionsPerEndpoint bounds the connections really open to an         *)
(* endpoint: pooled, being handed over by a dial, or left to Pool.Close.   *)
OpenConnsBounded ==
  MaxSessionsPerEndpoint > 0 =>
    \A e \in Endpoints :
      Cardinality({s \in Sessions : conn[s] = "open" /\ epOf[s] = e})
        <= MaxSessionsPerEndpoint

(* A connection carries at most capPer calls: a sequential connection is   *)
(* never lent to a second caller before the first one's Release.           *)
LeaseCap ==
  CapPer > 0 => \A s \in Sessions : Cardinality(Holders(s)) <= CapPer

(* While the pool is open, an entry's refcount is exactly the number of    *)
(* callers between their acquire and their Release, and whatever a caller  *)
(* holds is still an entry.                                                *)
RefcountExact ==
  ~closed => \A s \in Sessions :
    /\ s \in tracked => refcount[s] = Cardinality(Holders(s))
    /\ Holders(s) # {} => s \in tracked

(* The leases of a connection are counted exactly and stay within its       *)
(* capacity, over every way a call is opened, retried, refused, released    *)
(* or loses its connection.                                                 *)
LeasesExact == LeaseCap /\ RefcountExact

(* The idle queue holds exactly the entries nobody uses, and no more than  *)
(* MaxIdleSessions of them: an unused entry outside the queue would count  *)
(* against the endpoint's limit and never be reclaimed.                    *)
IdleExact ==
  /\ idle = {s \in tracked : Holders(s) = {}}
  /\ MaxIdleSessions >= 0 =>
       \A e \in Endpoints : Cardinality(IdleAt(e)) <= MaxIdleSessions

(* Every open connection is in the hands of somebody who will close it:    *)
(* the pool, Pool.Close, or the caller whose dial has just returned it.    *)
NoOrphanConn ==
  \A s \in Sessions :
    conn[s] = "open" =>
      \/ s \in tracked
      \/ s \in closing
      \/ \E c \in Callers : sess[c] = s /\ pc[c] \in {"dialed", "discard"}

(* The connections are accounted for: within the endpoint's limit, queued   *)
(* for reclaim when nobody uses them, and owned until they are closed.      *)
ConnsAccounted == OpenConnsBounded /\ IdleExact /\ NoOrphanConn

(* A caller waits only on a flight whose leader is still dialing that      *)
(* endpoint, even after a failed or panicking dial, or Pool.Close.         *)
FlightHasLeader ==
  \A c \in Callers :
    pc[c] = "waiting" =>
      \E l \in Callers : /\ flights[target[c]] = l
                         /\ target[l] = target[c]
                         /\ pc[l] \in InDial

(* A multiplexed pool dials an endpoint at most once at a time. *)
SingleFlight ==
  Multiplexed => \A e \in Endpoints : Cardinality(Dialers(e)) <= 1

(* The shared cold start: one dial per endpoint at a time, and whoever      *)
(* waits for it waits for a leader that will resolve its flight.            *)
FlightSound == FlightHasLeader /\ SingleFlight

(* With a dial budget, an Open ends with a ctx error only if its own ctx   *)
(* ended: joining another caller's flight does not import its cancellation. *)
OwnCancelOnly ==
  HasDialBudget => \A c \in Callers : res[c] = "ctx" => c \in cancelled

(* Until Pool.Close, a connection is closed only by the caller that gives  *)
(* it up in that very step: nobody's call loses its connection to reclaim, *)
(* to a deadline or to another caller's Release.                           *)
NoCloseUnderCall ==
  [][\A s \in Sessions :
       conn[s] = "open" /\ conn'[s] = "closed" /\ ~closed =>
         \A c \in Holders(s) : pc'[c] # pc[c]]_vars

(* Acquire never waits for another caller's Release: every Open returns,   *)
(* with a call or an error.                                                *)
OpenReturns ==
  \A c \in Callers : pc[c] = "acquire" ~> pc[c] \in {"holding", "done"}

(* After Pool.Close no connection stays open, not even one whose dial      *)
(* finishes later.                                                         *)
CloseReleasesAll ==
  closed ~> \A s \in Sessions : conn[s] # "open"

=============================================================================
