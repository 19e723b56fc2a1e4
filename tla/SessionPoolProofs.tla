-------------------------- MODULE SessionPoolProofs --------------------------
(***************************************************************************)
(* Theorems about SessionPool for every number of callers, endpoints and    *)
(* connections and every limit: type correctness, the exactness of the      *)
(* reference counts with the per-connection lease cap, the single flight of *)
(* a multiplexed cold start, whose cancellation an Open may report, the     *)
(* accounting of the open connections, and that none is closed under a call. *)
(***************************************************************************)
EXTENDS SessionPool, FiniteSetTheorems, TLAPS

(* A caller past a dial or a lend, which has a connection in hand. *)
HasConn == Leasing \cup {"dialed", "discard"}

(* A caller that has a connection in hand has one: without it TypeOK is     *)
(* not inductive, because DialPublish adds sess[c] to the entries.          *)
InHand == \A c \in Callers : pc[c] \in HasConn => sess[c] \in Sessions

TypeInv == TypeOK /\ InHand

(* Whoever is between reclaim and lend holds p.mu, so the pool is open. *)
LendOpen == \A c \in Callers : pc[c] = "lend" => ~closed

(* What is pooled or in hand has been dialed. *)
InHandDialed ==
  /\ \A s \in tracked : conn[s] # "none"
  /\ \A c \in Callers : pc[c] \in HasConn => conn[sess[c]] # "none"

(* A connection whose dial has just returned is known to its caller alone. *)
DialedFresh ==
  \A c \in Callers : pc[c] = "dialed" =>
    /\ sess[c] \notin tracked
    /\ \A d \in Callers \ {c} : pc[d] \in HasConn => sess[d] # sess[c]

(* The reference counts are those of RefcountExact. *)
CountsExact ==
  ~closed =>
    /\ \A s \in tracked : refcount[s] = Cardinality(Holders(s))
    /\ \A c \in Callers : pc[c] \in Leasing => sess[c] \in tracked

(* The inductive strengthening of RefcountExact and LeaseCap. *)
LeaseInv ==
  /\ TypeInv
  /\ LendOpen
  /\ InHandDialed
  /\ DialedFresh
  /\ CountsExact
  /\ LeaseCap

(* The flight of an endpoint is registered exactly while its leader dials,  *)
(* and nobody waits for one that is not registered.                         *)
FlightRegistered ==
  /\ \A e \in Endpoints : flights[e] # None =>
       Multiplexed /\ target[flights[e]] = e /\ pc[flights[e]] \in InDial
  /\ Multiplexed => \A c \in Callers : pc[c] \in InDial => flights[target[c]] = c
  /\ \A c \in Callers : pc[c] = "waiting" => Multiplexed /\ flights[target[c]] # None

(* With a dial budget a flight never fails with a ctx error. *)
BudgetKept ==
  HasDialBudget => \A c \in Callers :
    /\ pc[c] = "dialFailed" => res[c] # "ctx"
    /\ res[c] = "ctx" => c \in cancelled

(***************************************************************************)
(* Types                                                                   *)
(***************************************************************************)

LEMMA TypeInit == Init => TypeInv
<1>1. None \notin Callers /\ None \notin Sessions /\ MaxSessionsPerEndpoint \in Nat
  BY PoolAssumption
<1> SUFFICES ASSUME Init PROVE TypeInv
  OBVIOUS
<1> USE <1>1 DEF Init
<1>2. closed \in BOOLEAN /\ \A c \in Callers : attempt[c] = 0
  OBVIOUS
<1>3. refcount \in [Sessions -> Nat] /\ pendingDial \in [Endpoints -> Int]
  OBVIOUS
<1>4. /\ pc \in [Callers -> PCs]
      /\ res \in [Callers -> Results]
      /\ attempt \in [Callers -> Nat]
      /\ skip \in [Callers -> SUBSET Sessions]
  BY DEF PCs, Results
<1> QED
  BY <1>2, <1>3, <1>4 DEF TypeInv, TypeOK, InHand, HasConn, Leasing

(* Every step of the pool, of a caller and of the environment preserves the *)
(* types, the bound on the retry loop of OpenCall included.                  *)
LEMMA TypeStep == TypeInv /\ [Next]_vars => TypeInv'
<1> SUFFICES ASSUME TypeInv, [Next]_vars PROVE TypeInv'
  OBVIOUS
<1>0. MaxSessionsPerEndpoint \in Nat
  BY PoolAssumption
<1> USE <1>0 DEF TypeInv, TypeOK, InHand, HasConn, PCs, Leasing, InDial, Waiting, Results, Failures,
                 poolVars, connVars, callerData, callerVars
<1>1. ASSUME NEW c \in Callers, Open(c) PROVE TypeInv'
  BY <1>1 DEF Open, Move
<1>2. ASSUME NEW c \in Callers, FindClosed(c) PROVE TypeInv'
  BY <1>2 DEF FindClosed, Return, LeaveLoop
<1>3. ASSUME NEW c \in Callers, Reclaim(c) PROVE TypeInv'
  BY <1>3 DEF Reclaim, Move, Discard, CloseConns
<1>4. ASSUME NEW c \in Callers, Lend(c) PROVE TypeInv'
  BY <1>4 DEF Lend
<1>5. ASSUME NEW c \in Callers, JoinFlight(c) PROVE TypeInv'
  BY <1>5 DEF JoinFlight, Move
<1>6. ASSUME NEW c \in Callers, Exhausted(c) PROVE TypeInv'
  BY <1>6 DEF Exhausted, Return, LeaveLoop
<1>7. ASSUME NEW c \in Callers, WaiterRetries(c) PROVE TypeInv'
  BY <1>7 DEF WaiterRetries, Move
<1>8. ASSUME NEW c \in Callers, StartDial(c) PROVE TypeInv'
  BY <1>8 DEF StartDial, Move
<1>9. ASSUME NEW c \in Callers, DialOk(c) PROVE TypeInv'
  BY <1>9 DEF DialOk, Move
<1>10. ASSUME NEW c \in Callers, DialFail(c) PROVE TypeInv'
  BY <1>10 DEF DialFail, Move
<1>11. ASSUME NEW c \in Callers, DialPanic(c) PROVE TypeInv'
  BY <1>11 DEF DialPanic, Move
<1>12. ASSUME NEW c \in Callers, DialPublish(c) PROVE TypeInv'
  BY <1>12 DEF DialPublish, ReleaseReservation, FlightSucceeds
<1>13. ASSUME NEW c \in Callers, DialTooLate(c) PROVE TypeInv'
  BY <1>13 DEF DialTooLate, ReleaseReservation, FlightFails, LeaveLoop
<1>14. ASSUME NEW c \in Callers, CloseLateConn(c) PROVE TypeInv'
  BY <1>14 DEF CloseLateConn, Move, CloseConns
<1>15. ASSUME NEW c \in Callers, DialRetire(c) PROVE TypeInv'
  BY <1>15 DEF DialRetire, ReleaseReservation, FlightFails, LeaveLoop
<1>16. ASSUME NEW c \in Callers, DialRecover(c) PROVE TypeInv'
  BY <1>16 DEF DialRecover, ReleaseReservation, FlightFails, LeaveLoop
<1>17. ASSUME NEW c \in Callers, WaiterFails(c) PROVE TypeInv'
  BY <1>17 DEF WaiterFails, Return, LeaveLoop
<1>18. ASSUME NEW c \in Callers, WaiterCancelled(c) PROVE TypeInv'
  BY <1>18 DEF WaiterCancelled, Return, LeaveLoop
<1>19. ASSUME NEW c \in Callers, OpenCallOk(c) PROVE TypeInv'
  BY <1>19 DEF OpenCallOk, Move, LeaveLoop
<1>20. ASSUME NEW c \in Callers, OpenCallBusy(c) PROVE TypeInv'
  BY <1>20 DEF OpenCallBusy, Move
<1>21. ASSUME NEW c \in Callers, OpenCallSpent(c) PROVE TypeInv'
  BY <1>21 DEF OpenCallSpent, Move, CloseConns
<1>22. ASSUME NEW c \in Callers, OpenCallError(c) PROVE TypeInv'
  BY <1>22 DEF OpenCallError, Move
<1>23. ASSUME NEW c \in Callers, Release(c) PROVE TypeInv'
  BY <1>23 DEF Release, ReturnConn, Discard, CloseConns, AfterRelease, LastAttempt, Return, LeaveLoop
<1>24. ASSUME NEW c \in Callers, CloseCall(c) PROVE TypeInv'
  BY <1>24 DEF CloseCall, Move
<1>25. ASSUME NEW c \in Callers, Cancel(c) PROVE TypeInv'
  BY <1>25 DEF Cancel
<1>26. CASE PoolClose
  BY <1>26 DEF PoolClose
<1>27. CASE PoolCloseConn
  BY <1>27 DEF PoolCloseConn, CloseConns
<1>28. CASE ReclaimTick
  BY <1>28 DEF ReclaimTick, Discard, CloseConns
<1>29. CASE ConnSpoils
  BY <1>29 DEF ConnSpoils
<1>30. CASE LifetimePasses
  BY <1>30 DEF LifetimePasses
<1>31. CASE IdleTimePasses
  BY <1>31 DEF IdleTimePasses
<1>32. CASE UNCHANGED vars
  BY <1>32 DEF vars
<1> QED
  BY <1>1, <1>2, <1>3, <1>4, <1>5, <1>6, <1>7, <1>8, <1>9, <1>10, <1>11, <1>12, <1>13, <1>14, <1>15, <1>16, <1>17, <1>18, <1>19, <1>20, <1>21, <1>22, <1>23, <1>24, <1>25, <1>26, <1>27, <1>28, <1>29, <1>30, <1>31, <1>32 DEF Next, CallerStep, Acquire, Dial, UseConn

(* Type correctness of the pool, with OpenCall's retry loop bounded by      *)
(* MaxSessionsPerEndpoint (pool.go, OpenCall).                              *)
THEOREM TypeCorrect == Spec => []TypeOK
<1>1. TypeInv => TypeOK
  BY DEF TypeInv
<1> QED
  BY <1>1, TypeInit, TypeStep, PTL DEF Spec

(***************************************************************************)
(* Flights                                                                 *)
(***************************************************************************)

LEMMA FlightInit == Init => FlightRegistered
BY PoolAssumption DEF Init, FlightRegistered, InDial

LEMMA FlightStep == TypeInv /\ FlightRegistered /\ [Next]_vars => FlightRegistered'
<1> SUFFICES ASSUME TypeInv, FlightRegistered, [Next]_vars PROVE FlightRegistered'
  OBVIOUS
<1>0. None \notin Callers
  BY PoolAssumption
<1> USE <1>0 DEF TypeInv, TypeOK, FlightRegistered, InDial, Waiting, Leasing, PCs,
                 poolVars, connVars, callerData, callerVars
<1>1. ASSUME NEW c \in Callers, Open(c) PROVE FlightRegistered'
  BY <1>1 DEF Open, Move
<1>2. ASSUME NEW c \in Callers, FindClosed(c) PROVE FlightRegistered'
  BY <1>2 DEF FindClosed, Return, LeaveLoop
<1>3. ASSUME NEW c \in Callers, Reclaim(c) PROVE FlightRegistered'
  BY <1>3 DEF Reclaim, Move, Discard, CloseConns
<1>4. ASSUME NEW c \in Callers, Lend(c) PROVE FlightRegistered'
  BY <1>4 DEF Lend, AtLend
<1>5. ASSUME NEW c \in Callers, JoinFlight(c) PROVE FlightRegistered'
  BY <1>5 DEF JoinFlight, Move, FlightUnderWay
<1>6. ASSUME NEW c \in Callers, Exhausted(c) PROVE FlightRegistered'
  BY <1>6 DEF Exhausted, AtLend, Return, LeaveLoop
<1>7. ASSUME NEW c \in Callers, WaiterRetries(c) PROVE FlightRegistered'
  BY <1>7 DEF WaiterRetries, Move
<1>8. ASSUME NEW c \in Callers, StartDial(c) PROVE FlightRegistered'
  BY <1>8 DEF StartDial, Move, FlightUnderWay
<1>9. ASSUME NEW c \in Callers, DialOk(c) PROVE FlightRegistered'
  BY <1>9 DEF DialOk, Move
<1>10. ASSUME NEW c \in Callers, DialFail(c) PROVE FlightRegistered'
  BY <1>10 DEF DialFail, Move
<1>11. ASSUME NEW c \in Callers, DialPanic(c) PROVE FlightRegistered'
  BY <1>11 DEF DialPanic, Move
<1>12. ASSUME NEW c \in Callers, DialPublish(c) PROVE FlightRegistered'
  BY <1>12 DEF DialPublish, ReleaseReservation, FlightSucceeds, Followers
<1>13. ASSUME NEW c \in Callers, DialTooLate(c) PROVE FlightRegistered'
  BY <1>13 DEF DialTooLate, ReleaseReservation, FlightFails, LeaveLoop, Followers
<1>14. ASSUME NEW c \in Callers, CloseLateConn(c) PROVE FlightRegistered'
  BY <1>14 DEF CloseLateConn, Move, CloseConns
<1>15. ASSUME NEW c \in Callers, DialRetire(c) PROVE FlightRegistered'
  BY <1>15 DEF DialRetire, ReleaseReservation, FlightFails, LeaveLoop, Followers
<1>16. ASSUME NEW c \in Callers, DialRecover(c) PROVE FlightRegistered'
  BY <1>16 DEF DialRecover, ReleaseReservation, FlightFails, LeaveLoop, Followers
<1>17. ASSUME NEW c \in Callers, WaiterFails(c) PROVE FlightRegistered'
  BY <1>17 DEF WaiterFails, Return, LeaveLoop
<1>18. ASSUME NEW c \in Callers, WaiterCancelled(c) PROVE FlightRegistered'
  BY <1>18 DEF WaiterCancelled, Return, LeaveLoop
<1>19. ASSUME NEW c \in Callers, OpenCallOk(c) PROVE FlightRegistered'
  BY <1>19 DEF OpenCallOk, Move, LeaveLoop
<1>20. ASSUME NEW c \in Callers, OpenCallBusy(c) PROVE FlightRegistered'
  BY <1>20 DEF OpenCallBusy, Move
<1>21. ASSUME NEW c \in Callers, OpenCallSpent(c) PROVE FlightRegistered'
  BY <1>21 DEF OpenCallSpent, Move, CloseConns
<1>22. ASSUME NEW c \in Callers, OpenCallError(c) PROVE FlightRegistered'
  BY <1>22 DEF OpenCallError, Move
<1>23. ASSUME NEW c \in Callers, Release(c) PROVE FlightRegistered'
  BY <1>23 DEF Release, ReturnConn, Discard, CloseConns, AfterRelease, LastAttempt, Return, LeaveLoop
<1>24. ASSUME NEW c \in Callers, CloseCall(c) PROVE FlightRegistered'
  BY <1>24 DEF CloseCall, Move
<1>25. ASSUME NEW c \in Callers, Cancel(c) PROVE FlightRegistered'
  BY <1>25 DEF Cancel
<1>26. CASE PoolClose
  BY <1>26 DEF PoolClose
<1>27. CASE PoolCloseConn
  BY <1>27 DEF PoolCloseConn, CloseConns
<1>28. CASE ReclaimTick
  BY <1>28 DEF ReclaimTick, Discard, CloseConns
<1>29. CASE ConnSpoils
  BY <1>29 DEF ConnSpoils
<1>30. CASE LifetimePasses
  BY <1>30 DEF LifetimePasses
<1>31. CASE IdleTimePasses
  BY <1>31 DEF IdleTimePasses
<1>32. CASE UNCHANGED vars
  BY <1>32 DEF vars
<1> QED
  BY <1>1, <1>2, <1>3, <1>4, <1>5, <1>6, <1>7, <1>8, <1>9, <1>10, <1>11,
     <1>12, <1>13, <1>14, <1>15, <1>16, <1>17, <1>18, <1>19, <1>20, <1>21,
     <1>22, <1>23, <1>24, <1>25, <1>26, <1>27, <1>28, <1>29, <1>30, <1>31,
     <1>32
  DEF Next, CallerStep, Acquire, Dial, UseConn

(* Nobody waits for a flight without a leader that is still dialing for it, *)
(* after a failed, panicking or late dial too (pool.go, retireFlight).      *)
THEOREM WaitersHaveLeader == Spec => []FlightHasLeader
<1>1. TypeInv /\ FlightRegistered => FlightHasLeader
  BY DEF TypeInv, TypeOK, FlightRegistered, FlightHasLeader
<1> QED
  BY <1>1, TypeInit, TypeStep, FlightInit, FlightStep, PTL DEF Spec

(* A multiplexed pool never has two dials of one endpoint under way         *)
(* (pool.go, the flights map).                                              *)
THEOREM DialsAreSingle == Spec => []SingleFlight
<1>1. ASSUME TypeInv, FlightRegistered, Multiplexed, NEW e \in Endpoints
      PROVE  Cardinality(Dialers(e)) <= 1
  <2>1. Dialers(e) \subseteq {flights[e]}
    BY <1>1 DEF FlightRegistered, Dialers
  <2>2. IsFiniteSet({flights[e]}) /\ Cardinality({flights[e]}) = 1
    BY FS_Singleton
  <2>3. Cardinality(Dialers(e)) <= Cardinality({flights[e]})
    BY <2>1, <2>2, FS_Subset
  <2> QED
    BY <2>2, <2>3
<1>2. TypeInv /\ FlightRegistered => SingleFlight
  BY <1>1 DEF SingleFlight
<1> QED
  BY <1>2, TypeInit, TypeStep, FlightInit, FlightStep, PTL DEF Spec

(* The shared cold start of a multiplexed pool (pool.go, the flights map and *)
(* retireFlight): a single dial, and a leader behind every waiter.           *)
THEOREM FlightsAreSound == Spec => []FlightSound
<1>1. FlightHasLeader /\ SingleFlight => FlightSound
  BY DEF FlightSound
<1> QED
  BY <1>1, WaitersHaveLeader, DialsAreSingle, PTL

(***************************************************************************)
(* Cancellation                                                            *)
(***************************************************************************)

LEMMA CancelInit == Init => BudgetKept
BY DEF Init, BudgetKept

LEMMA CancelKept == TypeInv /\ BudgetKept /\ [Next]_vars => BudgetKept'
<1> SUFFICES ASSUME TypeInv, BudgetKept, [Next]_vars PROVE BudgetKept'
  OBVIOUS
<1> USE DEF TypeInv, TypeOK, BudgetKept, InDial, Waiting, Leasing, PCs,
            poolVars, connVars, callerData, callerVars
<1>1. ASSUME NEW c \in Callers, Open(c) PROVE BudgetKept'
  BY <1>1 DEF Open, Move
<1>2. ASSUME NEW c \in Callers, FindClosed(c) PROVE BudgetKept'
  BY <1>2 DEF FindClosed, Return, LeaveLoop
<1>3. ASSUME NEW c \in Callers, Reclaim(c) PROVE BudgetKept'
  BY <1>3 DEF Reclaim, Move, Discard, CloseConns
<1>4. ASSUME NEW c \in Callers, Lend(c) PROVE BudgetKept'
  BY <1>4 DEF Lend
<1>5. ASSUME NEW c \in Callers, JoinFlight(c) PROVE BudgetKept'
  BY <1>5 DEF JoinFlight, Move
<1>6. ASSUME NEW c \in Callers, Exhausted(c) PROVE BudgetKept'
  BY <1>6 DEF Exhausted, Return, LeaveLoop
<1>7. ASSUME NEW c \in Callers, WaiterRetries(c) PROVE BudgetKept'
  BY <1>7 DEF WaiterRetries, Move
<1>8. ASSUME NEW c \in Callers, StartDial(c) PROVE BudgetKept'
  BY <1>8 DEF StartDial, Move
<1>9. ASSUME NEW c \in Callers, DialOk(c) PROVE BudgetKept'
  BY <1>9 DEF DialOk, Move
<1>10. ASSUME NEW c \in Callers, DialFail(c) PROVE BudgetKept'
  BY <1>10 DEF DialFail, Move, CtxReachesDial
<1>11. ASSUME NEW c \in Callers, DialPanic(c) PROVE BudgetKept'
  BY <1>11 DEF DialPanic, Move
<1>12. ASSUME NEW c \in Callers, DialPublish(c) PROVE BudgetKept'
  BY <1>12 DEF DialPublish, ReleaseReservation, FlightSucceeds, Followers
<1>13. ASSUME NEW c \in Callers, DialTooLate(c) PROVE BudgetKept'
  BY <1>13 DEF DialTooLate, ReleaseReservation, FlightFails, LeaveLoop, Followers
<1>14. ASSUME NEW c \in Callers, CloseLateConn(c) PROVE BudgetKept'
  BY <1>14 DEF CloseLateConn, Move, CloseConns
<1>15. ASSUME NEW c \in Callers, DialRetire(c) PROVE BudgetKept'
  BY <1>15 DEF DialRetire, ReleaseReservation, FlightFails, LeaveLoop, Followers
<1>16. ASSUME NEW c \in Callers, DialRecover(c) PROVE BudgetKept'
  BY <1>16 DEF DialRecover, ReleaseReservation, FlightFails, LeaveLoop, Followers
<1>17. ASSUME NEW c \in Callers, WaiterFails(c) PROVE BudgetKept'
  BY <1>17 DEF WaiterFails, Return, LeaveLoop
<1>18. ASSUME NEW c \in Callers, WaiterCancelled(c) PROVE BudgetKept'
  BY <1>18 DEF WaiterCancelled, Return, LeaveLoop
<1>19. ASSUME NEW c \in Callers, OpenCallOk(c) PROVE BudgetKept'
  BY <1>19 DEF OpenCallOk, Move, LeaveLoop
<1>20. ASSUME NEW c \in Callers, OpenCallBusy(c) PROVE BudgetKept'
  BY <1>20 DEF OpenCallBusy, Move
<1>21. ASSUME NEW c \in Callers, OpenCallSpent(c) PROVE BudgetKept'
  BY <1>21 DEF OpenCallSpent, Move, CloseConns
<1>22. ASSUME NEW c \in Callers, OpenCallError(c) PROVE BudgetKept'
  BY <1>22 DEF OpenCallError, Move
<1>23. ASSUME NEW c \in Callers, Release(c) PROVE BudgetKept'
  BY <1>23 DEF Release, ReturnConn, Discard, CloseConns, AfterRelease, LastAttempt, Return, LeaveLoop
<1>24. ASSUME NEW c \in Callers, CloseCall(c) PROVE BudgetKept'
  BY <1>24 DEF CloseCall, Move
<1>25. ASSUME NEW c \in Callers, Cancel(c) PROVE BudgetKept'
  BY <1>25 DEF Cancel
<1>26. CASE PoolClose
  BY <1>26 DEF PoolClose
<1>27. CASE PoolCloseConn
  BY <1>27 DEF PoolCloseConn, CloseConns
<1>28. CASE ReclaimTick
  BY <1>28 DEF ReclaimTick, Discard, CloseConns
<1>29. CASE ConnSpoils
  BY <1>29 DEF ConnSpoils
<1>30. CASE LifetimePasses
  BY <1>30 DEF LifetimePasses
<1>31. CASE IdleTimePasses
  BY <1>31 DEF IdleTimePasses
<1>32. CASE UNCHANGED vars
  BY <1>32 DEF vars
<1> QED
  BY <1>1, <1>2, <1>3, <1>4, <1>5, <1>6, <1>7, <1>8, <1>9, <1>10, <1>11,
     <1>12, <1>13, <1>14, <1>15, <1>16, <1>17, <1>18, <1>19, <1>20, <1>21,
     <1>22, <1>23, <1>24, <1>25, <1>26, <1>27, <1>28, <1>29, <1>30, <1>31,
     <1>32
  DEF Next, CallerStep, Acquire, Dial, UseConn

(* With a dial budget, only the ctx an Open was given can end it with a ctx *)
(* error: a flight's waiters never inherit the leader's cancellation        *)
(* (pool.go, dialNew's WithoutCancel).                                      *)
THEOREM CancelIsOwn == Spec => []OwnCancelOnly
<1>1. BudgetKept => OwnCancelOnly
  BY DEF BudgetKept, OwnCancelOnly
<1> QED
  BY <1>1, TypeInit, TypeStep, CancelInit, CancelKept, PTL DEF Spec

(***************************************************************************)
(* Leases                                                                  *)
(***************************************************************************)

LEMMA LendOpenStep == TypeInv /\ LendOpen /\ [Next]_vars => LendOpen'
<1> SUFFICES ASSUME TypeInv, LendOpen, [Next]_vars PROVE LendOpen'
  OBVIOUS
<1> USE DEF TypeInv, TypeOK, LendOpen, PCs, poolVars, connVars, callerData, callerVars
<1>1. ASSUME NEW c \in Callers, Open(c) PROVE LendOpen'
  BY <1>1 DEF Open, Move
<1>2. ASSUME NEW c \in Callers, FindClosed(c) PROVE LendOpen'
  BY <1>2 DEF FindClosed, Return, LeaveLoop
<1>3. ASSUME NEW c \in Callers, Reclaim(c) PROVE LendOpen'
  BY <1>3 DEF Reclaim, Move, Discard, CloseConns
<1>4. ASSUME NEW c \in Callers, Lend(c) PROVE LendOpen'
  BY <1>4 DEF Lend
<1>5. ASSUME NEW c \in Callers, JoinFlight(c) PROVE LendOpen'
  BY <1>5 DEF JoinFlight, Move
<1>6. ASSUME NEW c \in Callers, Exhausted(c) PROVE LendOpen'
  BY <1>6 DEF Exhausted, Return, LeaveLoop
<1>7. ASSUME NEW c \in Callers, WaiterRetries(c) PROVE LendOpen'
  BY <1>7 DEF WaiterRetries, Move
<1>8. ASSUME NEW c \in Callers, StartDial(c) PROVE LendOpen'
  BY <1>8 DEF StartDial, Move
<1>9. ASSUME NEW c \in Callers, DialOk(c) PROVE LendOpen'
  BY <1>9 DEF DialOk, Move
<1>10. ASSUME NEW c \in Callers, DialFail(c) PROVE LendOpen'
  BY <1>10 DEF DialFail, Move
<1>11. ASSUME NEW c \in Callers, DialPanic(c) PROVE LendOpen'
  BY <1>11 DEF DialPanic, Move
<1>12. ASSUME NEW c \in Callers, DialPublish(c) PROVE LendOpen'
  BY <1>12 DEF DialPublish, ReleaseReservation, FlightSucceeds, Followers
<1>13. ASSUME NEW c \in Callers, DialTooLate(c) PROVE LendOpen'
  BY <1>13 DEF DialTooLate, ReleaseReservation, FlightFails, LeaveLoop, Followers
<1>14. ASSUME NEW c \in Callers, CloseLateConn(c) PROVE LendOpen'
  BY <1>14 DEF CloseLateConn, Move, CloseConns
<1>15. ASSUME NEW c \in Callers, DialRetire(c) PROVE LendOpen'
  BY <1>15 DEF DialRetire, ReleaseReservation, FlightFails, LeaveLoop, Followers
<1>16. ASSUME NEW c \in Callers, DialRecover(c) PROVE LendOpen'
  BY <1>16 DEF DialRecover, ReleaseReservation, FlightFails, LeaveLoop, Followers
<1>17. ASSUME NEW c \in Callers, WaiterFails(c) PROVE LendOpen'
  BY <1>17 DEF WaiterFails, Return, LeaveLoop
<1>18. ASSUME NEW c \in Callers, WaiterCancelled(c) PROVE LendOpen'
  BY <1>18 DEF WaiterCancelled, Return, LeaveLoop
<1>19. ASSUME NEW c \in Callers, OpenCallOk(c) PROVE LendOpen'
  BY <1>19 DEF OpenCallOk, Move, LeaveLoop
<1>20. ASSUME NEW c \in Callers, OpenCallBusy(c) PROVE LendOpen'
  BY <1>20 DEF OpenCallBusy, Move
<1>21. ASSUME NEW c \in Callers, OpenCallSpent(c) PROVE LendOpen'
  BY <1>21 DEF OpenCallSpent, Move, CloseConns
<1>22. ASSUME NEW c \in Callers, OpenCallError(c) PROVE LendOpen'
  BY <1>22 DEF OpenCallError, Move
<1>23. ASSUME NEW c \in Callers, Release(c) PROVE LendOpen'
  BY <1>23 DEF Release, ReturnConn, Discard, CloseConns, AfterRelease, LastAttempt, Return, LeaveLoop
<1>24. ASSUME NEW c \in Callers, CloseCall(c) PROVE LendOpen'
  BY <1>24 DEF CloseCall, Move
<1>25. ASSUME NEW c \in Callers, Cancel(c) PROVE LendOpen'
  BY <1>25 DEF Cancel
<1>26. CASE PoolClose
  BY <1>26 DEF PoolClose, LockFree
<1>27. CASE PoolCloseConn
  BY <1>27 DEF PoolCloseConn, CloseConns
<1>28. CASE ReclaimTick
  BY <1>28 DEF ReclaimTick, Discard, CloseConns
<1>29. CASE ConnSpoils
  BY <1>29 DEF ConnSpoils
<1>30. CASE LifetimePasses
  BY <1>30 DEF LifetimePasses
<1>31. CASE IdleTimePasses
  BY <1>31 DEF IdleTimePasses
<1>32. CASE UNCHANGED vars
  BY <1>32 DEF vars
<1> QED
  BY <1>1, <1>2, <1>3, <1>4, <1>5, <1>6, <1>7, <1>8, <1>9, <1>10, <1>11,
     <1>12, <1>13, <1>14, <1>15, <1>16, <1>17, <1>18, <1>19, <1>20, <1>21,
     <1>22, <1>23, <1>24, <1>25, <1>26, <1>27, <1>28, <1>29, <1>30, <1>31,
     <1>32
  DEF Next, CallerStep, Acquire, Dial, UseConn

LEMMA InHandStep ==
  TypeInv /\ InHandDialed /\ DialedFresh /\ [Next]_vars => (InHandDialed /\ DialedFresh)'
<1> SUFFICES ASSUME TypeInv, InHandDialed, DialedFresh, [Next]_vars
             PROVE  (InHandDialed /\ DialedFresh)'
  OBVIOUS
<1>0. None \notin Sessions
  BY PoolAssumption
<1> USE <1>0 DEF TypeInv, TypeOK, InHand, InHandDialed, DialedFresh, HasConn, Leasing,
                 PCs, InDial, Waiting, poolVars, connVars, callerData, callerVars
<1>1. ASSUME NEW c \in Callers, Open(c) PROVE (InHandDialed /\ DialedFresh)'
  BY <1>1 DEF Open, Move
<1>2. ASSUME NEW c \in Callers, FindClosed(c) PROVE (InHandDialed /\ DialedFresh)'
  BY <1>2 DEF FindClosed, Return, LeaveLoop
<1>3. ASSUME NEW c \in Callers, Reclaim(c) PROVE (InHandDialed /\ DialedFresh)'
  BY <1>3 DEF Reclaim, Move, Discard, CloseConns
<1>4. ASSUME NEW c \in Callers, Lend(c) PROVE (InHandDialed /\ DialedFresh)'
  BY <1>4 DEF Lend, AtLend, Lendable
<1>5. ASSUME NEW c \in Callers, JoinFlight(c) PROVE (InHandDialed /\ DialedFresh)'
  BY <1>5 DEF JoinFlight, Move
<1>6. ASSUME NEW c \in Callers, Exhausted(c) PROVE (InHandDialed /\ DialedFresh)'
  BY <1>6 DEF Exhausted, Return, LeaveLoop, AtLend
<1>7. ASSUME NEW c \in Callers, WaiterRetries(c) PROVE (InHandDialed /\ DialedFresh)'
  BY <1>7 DEF WaiterRetries, Move, AtLend
<1>8. ASSUME NEW c \in Callers, StartDial(c) PROVE (InHandDialed /\ DialedFresh)'
  BY <1>8 DEF StartDial, Move
<1>9. ASSUME NEW c \in Callers, DialOk(c) PROVE (InHandDialed /\ DialedFresh)'
  BY <1>9 DEF DialOk, Move
<1>10. ASSUME NEW c \in Callers, DialFail(c) PROVE (InHandDialed /\ DialedFresh)'
  BY <1>10 DEF DialFail, Move
<1>11. ASSUME NEW c \in Callers, DialPanic(c) PROVE (InHandDialed /\ DialedFresh)'
  BY <1>11 DEF DialPanic, Move
<1>12. ASSUME NEW c \in Callers, DialPublish(c) PROVE (InHandDialed /\ DialedFresh)'
  BY <1>12 DEF DialPublish, ReleaseReservation, FlightSucceeds, Followers
<1>13. ASSUME NEW c \in Callers, DialTooLate(c) PROVE (InHandDialed /\ DialedFresh)'
  BY <1>13 DEF DialTooLate, ReleaseReservation, FlightFails, LeaveLoop, Followers
<1>14. ASSUME NEW c \in Callers, CloseLateConn(c) PROVE (InHandDialed /\ DialedFresh)'
  BY <1>14 DEF CloseLateConn, Move, CloseConns
<1>15. ASSUME NEW c \in Callers, DialRetire(c) PROVE (InHandDialed /\ DialedFresh)'
  BY <1>15 DEF DialRetire, ReleaseReservation, FlightFails, LeaveLoop, Followers
<1>16. ASSUME NEW c \in Callers, DialRecover(c) PROVE (InHandDialed /\ DialedFresh)'
  BY <1>16 DEF DialRecover, ReleaseReservation, FlightFails, LeaveLoop, Followers
<1>17. ASSUME NEW c \in Callers, WaiterFails(c) PROVE (InHandDialed /\ DialedFresh)'
  BY <1>17 DEF WaiterFails, Return, LeaveLoop
<1>18. ASSUME NEW c \in Callers, WaiterCancelled(c) PROVE (InHandDialed /\ DialedFresh)'
  BY <1>18 DEF WaiterCancelled, Return, LeaveLoop
<1>19. ASSUME NEW c \in Callers, OpenCallOk(c) PROVE (InHandDialed /\ DialedFresh)'
  BY <1>19 DEF OpenCallOk, Move, LeaveLoop
<1>20. ASSUME NEW c \in Callers, OpenCallBusy(c) PROVE (InHandDialed /\ DialedFresh)'
  BY <1>20 DEF OpenCallBusy, Move
<1>21. ASSUME NEW c \in Callers, OpenCallSpent(c) PROVE (InHandDialed /\ DialedFresh)'
  BY <1>21 DEF OpenCallSpent, Move, CloseConns
<1>22. ASSUME NEW c \in Callers, OpenCallError(c) PROVE (InHandDialed /\ DialedFresh)'
  BY <1>22 DEF OpenCallError, Move
<1>23. ASSUME NEW c \in Callers, Release(c) PROVE (InHandDialed /\ DialedFresh)'
  BY <1>23 DEF Release, ReturnConn, Discard, CloseConns, AfterRelease, LastAttempt, Return, LeaveLoop
<1>24. ASSUME NEW c \in Callers, CloseCall(c) PROVE (InHandDialed /\ DialedFresh)'
  BY <1>24 DEF CloseCall, Move
<1>25. ASSUME NEW c \in Callers, Cancel(c) PROVE (InHandDialed /\ DialedFresh)'
  BY <1>25 DEF Cancel
<1>26. CASE PoolClose
  BY <1>26 DEF PoolClose
<1>27. CASE PoolCloseConn
  BY <1>27 DEF PoolCloseConn, CloseConns
<1>28. CASE ReclaimTick
  BY <1>28 DEF ReclaimTick, Discard, CloseConns
<1>29. CASE ConnSpoils
  BY <1>29 DEF ConnSpoils
<1>30. CASE LifetimePasses
  BY <1>30 DEF LifetimePasses
<1>31. CASE IdleTimePasses
  BY <1>31 DEF IdleTimePasses
<1>32. CASE UNCHANGED vars
  BY <1>32 DEF vars
<1> QED
  BY <1>1, <1>2, <1>3, <1>4, <1>5, <1>6, <1>7, <1>8, <1>9, <1>10, <1>11,
     <1>12, <1>13, <1>14, <1>15, <1>16, <1>17, <1>18, <1>19, <1>20, <1>21,
     <1>22, <1>23, <1>24, <1>25, <1>26, <1>27, <1>28, <1>29, <1>30, <1>31,
     <1>32
  DEF Next, CallerStep, Acquire, Dial, UseConn

(* No caller takes or gives up a connection in this step. *)
SameLeases ==
  \A c \in Callers : /\ pc'[c] \in Leasing <=> pc[c] \in Leasing
                     /\ pc[c] \in Leasing => sess'[c] = sess[c]

LEMMA HoldersFinite == \A s \in Sessions : IsFiniteSet(Holders(s))
BY PoolAssumption, FS_Subset DEF Holders

LEMMA HoldersSame == SameLeases => \A s \in Sessions : Holders(s)' = Holders(s)
BY DEF SameLeases, Holders

(* An entry with refcount 0 has no holder, one with refcount 1 has only the *)
(* caller known to hold it.                                                 *)
LEMMA CountMeansHolders ==
  ASSUME TypeInv, CountsExact, ~closed, NEW s \in tracked
  PROVE  /\ refcount[s] = 0 => Holders(s) = {}
         /\ \A c \in Holders(s) : refcount[s] = 1 => Holders(s) = {c}
<1>1. s \in Sessions /\ IsFiniteSet(Holders(s)) /\ refcount[s] = Cardinality(Holders(s))
  BY HoldersFinite DEF TypeInv, TypeOK, CountsExact
<1>2. refcount[s] = 0 => Holders(s) = {}
  BY <1>1, FS_EmptySet
<1>3. ASSUME NEW c \in Holders(s), refcount[s] = 1 PROVE Holders(s) = {c}
  <2>1. /\ IsFiniteSet(Holders(s) \ {c})
        /\ Cardinality(Holders(s) \ {c}) = Cardinality(Holders(s)) - 1
    BY <1>1, FS_RemoveElement
  <2>2. Holders(s) \ {c} = {}
    BY <1>1, <1>3, <2>1, FS_EmptySet
  <2> QED
    BY <2>2
<1> QED
  BY <1>2, <1>3

(* A step that leaves the leases and the counts alone. *)
LEMMA QuietStep ==
  ASSUME CountsExact, LeaseCap, SameLeases, TypeInv,
         closed' \/ (~closed /\ tracked' = tracked /\ refcount' = refcount)
  PROVE  (CountsExact /\ LeaseCap)'
<1>1. \A s \in Sessions : Holders(s)' = Holders(s)
  BY HoldersSame
<1>2. LeaseCap'
  BY <1>1 DEF LeaseCap
<1>3. CountsExact'
  BY <1>1 DEF CountsExact, SameLeases, TypeInv, TypeOK
<1> QED
  BY <1>2, <1>3

(* Reclaim discards no connection anybody holds. *)
LEMMA ReclaimStep ==
  ASSUME CountsExact, LeaseCap, SameLeases, TypeInv,
         ~closed, Discard(Reclaimable), refcount' = refcount, closed' = closed
  PROVE  (CountsExact /\ LeaseCap)'
<1>1. \A s \in Sessions : Holders(s)' = Holders(s)
  BY HoldersSame
<1>2. LeaseCap'
  BY <1>1 DEF LeaseCap
<1>3. tracked' = tracked \ Reclaimable /\ tracked \subseteq Sessions
  BY DEF Discard, TypeInv, TypeOK
<1>4. ASSUME NEW c \in Callers, pc'[c] \in Leasing PROVE sess'[c] \in tracked'
  <2>1. pc[c] \in Leasing /\ sess'[c] = sess[c] /\ sess[c] \in tracked
    BY <1>4 DEF SameLeases, CountsExact
  <2>2. c \in Holders(sess[c])
    BY <2>1 DEF Holders
  <2>3. refcount[sess[c]] # 0
    BY <2>1, <2>2, CountMeansHolders
  <2> QED
    BY <1>3, <2>1, <2>3 DEF Reclaimable
<1>5. \A s \in tracked' : refcount'[s] = Cardinality(Holders(s)')
  BY <1>1, <1>3 DEF CountsExact
<1> QED
  BY <1>2, <1>4, <1>5 DEF CountsExact

LEMMA LendStep ==
  ASSUME TypeInv, LendOpen, CountsExact, LeaseCap, NEW c \in Callers, Lend(c)
  PROVE  (CountsExact /\ LeaseCap)'
<1>1. ~closed /\ closed' = closed /\ tracked' = tracked /\ tracked \subseteq Sessions
  BY DEF Lend, AtLend, LendOpen, TypeInv, TypeOK
<1>2. PICK s \in Sessions : /\ Lendable(c, s)
                            /\ refcount' = [refcount EXCEPT ![s] = @ + 1]
                            /\ sess' = [sess EXCEPT ![c] = s]
  BY DEF Lend
<1>3. pc[c] \notin Leasing /\ pc' = [pc EXCEPT ![c] = "opening"]
  BY DEF Lend, AtLend, Leasing
<1>4. s \in tracked /\ HasCapacity(s)
  BY <1>2 DEF Lendable
<1>5. /\ Holders(s)' = Holders(s) \cup {c}
      /\ c \notin Holders(s)
      /\ \A x \in Sessions \ {s} : Holders(x)' = Holders(x)
  BY <1>2, <1>3 DEF Holders, TypeInv, TypeOK, Leasing
<1>6. refcount[s] = Cardinality(Holders(s)) /\ IsFiniteSet(Holders(s))
  BY <1>1, <1>4, HoldersFinite DEF CountsExact
<1>7. Cardinality(Holders(s)') = refcount[s] + 1
  BY <1>5, <1>6, FS_AddElement
<1>8. LeaseCap'
  <2> SUFFICES ASSUME CapPer > 0, NEW x \in Sessions PROVE Cardinality(Holders(x)') <= CapPer
    BY DEF LeaseCap
  <2>1. CASE x = s
    BY <1>4, <1>7, <2>1, PoolAssumption DEF HasCapacity, TypeInv, TypeOK
  <2>2. CASE x # s
    BY <1>5, <2>2 DEF LeaseCap
  <2> QED
    BY <2>1, <2>2
<1>9. \A x \in tracked' : refcount'[x] = Cardinality(Holders(x)')
  BY <1>1, <1>2, <1>5, <1>7 DEF CountsExact, TypeInv, TypeOK
<1>10. \A d \in Callers : pc'[d] \in Leasing => sess'[d] \in tracked'
  BY <1>1, <1>2, <1>3, <1>4 DEF CountsExact, TypeInv, TypeOK
<1> QED
  BY <1>8, <1>9, <1>10 DEF CountsExact

LEMMA PublishStep ==
  ASSUME TypeInv, DialedFresh, CountsExact, LeaseCap, NEW c \in Callers, DialPublish(c)
  PROVE  (CountsExact /\ LeaseCap)'
<1>0. PICK s \in Sessions : s = sess[c]
  BY DEF DialPublish, TypeInv, TypeOK, InHand, HasConn, Leasing
<1>1. /\ ~closed /\ closed' = closed /\ sess' = sess /\ pc[c] = "dialed"
      /\ tracked' = tracked \cup {s} /\ tracked \subseteq Sessions
      /\ s \in Sessions /\ s \notin tracked
      /\ refcount' = [refcount EXCEPT ![s] = 1]
  BY <1>0 DEF DialPublish, DialedFresh, TypeInv, TypeOK, InHand, HasConn, Leasing
<1>2. /\ pc'[c] = "opening"
      /\ \A d \in Callers \ {c} : pc'[d] \in Leasing <=> pc[d] \in Leasing
  BY DEF DialPublish, FlightSucceeds, Followers, Leasing
<1>3. \A d \in Callers \ {c} : pc[d] \in Leasing => sess[d] # s
  BY <1>0, <1>1 DEF DialedFresh, HasConn
<1>4. Holders(s)' = {c} /\ \A x \in Sessions \ {s} : Holders(x)' = Holders(x)
  BY <1>0, <1>1, <1>2, <1>3 DEF Holders, Leasing
<1>5. Cardinality(Holders(s)') = 1
  BY <1>4, FS_Singleton
<1>6. LeaseCap'
  BY <1>4, <1>5, PoolAssumption DEF LeaseCap
<1>7. \A x \in tracked' : refcount'[x] = Cardinality(Holders(x)')
  BY <1>1, <1>4, <1>5 DEF CountsExact, TypeInv, TypeOK
<1>8. \A d \in Callers : pc'[d] \in Leasing => sess'[d] \in tracked'
  BY <1>0, <1>1, <1>2 DEF CountsExact
<1> QED
  BY <1>6, <1>7, <1>8 DEF CountsExact

LEMMA ReleaseStep ==
  ASSUME TypeInv, CountsExact, LeaseCap, NEW c \in Callers, Release(c)
  PROVE  (CountsExact /\ LeaseCap)'
<1>0. PICK s \in Sessions : s = sess[c]
  BY DEF Release, TypeInv, TypeOK, InHand, HasConn, Leasing
<1>1. /\ s \in Sessions /\ c \in Holders(s) /\ pc[c] \in Leasing
      /\ closed' = closed /\ tracked \subseteq Sessions
  BY <1>0 DEF Release, Holders, Leasing, TypeInv, TypeOK, InHand, HasConn
<1>2. /\ pc'[c] \notin Leasing
      /\ \A d \in Callers \ {c} : pc'[d] = pc[d] /\ sess'[d] = sess[d]
  BY DEF Release, AfterRelease, Return, Leasing, TypeInv, TypeOK
<1>3. /\ Holders(s)' = Holders(s) \ {c}
      /\ \A x \in Sessions \ {s} : Holders(x)' = Holders(x)
  BY <1>0, <1>1, <1>2 DEF Holders
<1>4. /\ IsFiniteSet(Holders(s)) /\ IsFiniteSet(Holders(s)')
      /\ Cardinality(Holders(s)) \in Nat
      /\ Cardinality(Holders(s)') = Cardinality(Holders(s)) - 1
  BY <1>1, <1>3, HoldersFinite, FS_RemoveElement, FS_CardinalityType
<1>5. LeaseCap'
  BY <1>3, <1>4, PoolAssumption DEF LeaseCap
<1>6. ASSUME ~closed PROVE CountsExact'
  <2>1. s \in tracked /\ refcount[s] = Cardinality(Holders(s)) /\ refcount[s] # 0
    BY <1>0, <1>1, <1>6, CountMeansHolders DEF CountsExact
  <2>2. ReturnConn(s)
    BY <1>0, <2>1 DEF Release
  <2>3. /\ refcount' = [refcount EXCEPT ![s] = @ - 1]
        /\ tracked' \subseteq tracked
        /\ tracked \ {s} \subseteq tracked'
        /\ refcount[s] # 1 => tracked' = tracked
    BY <2>2 DEF ReturnConn, Discard
  <2>4. \A x \in tracked' : refcount'[x] = Cardinality(Holders(x)')
    BY <1>1, <1>3, <1>4, <1>6, <2>1, <2>3 DEF CountsExact, TypeInv, TypeOK
  <2>5. ASSUME NEW d \in Callers, pc'[d] \in Leasing PROVE sess'[d] \in tracked'
    <3>1. d # c /\ pc[d] \in Leasing /\ sess'[d] = sess[d] /\ sess[d] \in tracked
      BY <1>2, <1>6, <2>5 DEF CountsExact
    <3>2. CASE sess[d] # s
      BY <2>3, <3>1, <3>2
    <3>3. CASE sess[d] = s
      <4>1. d \in Holders(s)
        BY <3>1, <3>3 DEF Holders
      <4>2. refcount[s] # 1
        BY <1>1, <1>6, <2>1, <3>1, <4>1, CountMeansHolders
      <4> QED
        BY <2>3, <3>1, <4>2
    <3> QED
      BY <3>2, <3>3
  <2> QED
    BY <2>4, <2>5 DEF CountsExact
<1> QED
  BY <1>1, <1>5, <1>6 DEF CountsExact

LEMMA LeaseStep == LeaseInv /\ [Next]_vars => (CountsExact /\ LeaseCap)'
<1> SUFFICES ASSUME LeaseInv, [Next]_vars PROVE (CountsExact /\ LeaseCap)'
  OBVIOUS
<1> USE DEF LeaseInv
<1> DEFINE Quiet == /\ SameLeases
                    /\ closed' \/ (~closed /\ tracked' = tracked /\ refcount' = refcount)
<1>0. Quiet => (CountsExact /\ LeaseCap)'
  BY QuietStep
<1>1. ASSUME NEW c \in Callers, Open(c) PROVE (CountsExact /\ LeaseCap)'
  BY <1>0, <1>1
  DEF Open, Move, TypeInv, TypeOK, SameLeases, Leasing, Waiting, poolVars, connVars,
         callerData, callerVars
<1>2. ASSUME NEW c \in Callers, FindClosed(c) PROVE (CountsExact /\ LeaseCap)'
  BY <1>0, <1>2
  DEF FindClosed, Return, LeaveLoop, TypeInv, TypeOK, SameLeases, Leasing, Waiting, poolVars, connVars,
         callerData, callerVars
<1>3. ASSUME NEW c \in Callers, Reclaim(c) PROVE (CountsExact /\ LeaseCap)'
  <2>1. SameLeases /\ ~closed /\ Discard(Reclaimable) /\ refcount' = refcount /\ closed' = closed
    BY <1>3 DEF Reclaim, Move, TypeInv, TypeOK, SameLeases, Leasing, Waiting, poolVars, connVars,
         callerData, callerVars
  <2> QED
    BY <2>1, ReclaimStep
<1>4. ASSUME NEW c \in Callers, Lend(c) PROVE (CountsExact /\ LeaseCap)'
  BY <1>4, LendStep
<1>5. ASSUME NEW c \in Callers, JoinFlight(c) PROVE (CountsExact /\ LeaseCap)'
  BY <1>0, <1>5
  DEF JoinFlight, Move, TypeInv, TypeOK, SameLeases, Leasing, Waiting, poolVars, connVars,
         callerData, callerVars
<1>6. ASSUME NEW c \in Callers, Exhausted(c) PROVE (CountsExact /\ LeaseCap)'
  BY <1>0, <1>6
  DEF Exhausted, Return, LeaveLoop, AtLend, TypeInv, TypeOK, SameLeases, Leasing, Waiting, poolVars, connVars,
         callerData, callerVars
<1>7. ASSUME NEW c \in Callers, WaiterRetries(c) PROVE (CountsExact /\ LeaseCap)'
  BY <1>0, <1>7
  DEF WaiterRetries, Move, AtLend, TypeInv, TypeOK, SameLeases, Leasing, Waiting, poolVars, connVars,
         callerData, callerVars
<1>8. ASSUME NEW c \in Callers, StartDial(c) PROVE (CountsExact /\ LeaseCap)'
  BY <1>0, <1>8
  DEF StartDial, Move, TypeInv, TypeOK, SameLeases, Leasing, Waiting, poolVars, connVars,
         callerData, callerVars
<1>9. ASSUME NEW c \in Callers, DialOk(c) PROVE (CountsExact /\ LeaseCap)'
  BY <1>0, <1>9
  DEF DialOk, Move, TypeInv, TypeOK, SameLeases, Leasing, Waiting, poolVars, connVars,
         callerData, callerVars
<1>10. ASSUME NEW c \in Callers, DialFail(c) PROVE (CountsExact /\ LeaseCap)'
  BY <1>0, <1>10
  DEF DialFail, Move, TypeInv, TypeOK, SameLeases, Leasing, Waiting, poolVars, connVars,
         callerData, callerVars
<1>11. ASSUME NEW c \in Callers, DialPanic(c) PROVE (CountsExact /\ LeaseCap)'
  BY <1>0, <1>11
  DEF DialPanic, Move, TypeInv, TypeOK, SameLeases, Leasing, Waiting, poolVars, connVars,
         callerData, callerVars
<1>12. ASSUME NEW c \in Callers, DialPublish(c) PROVE (CountsExact /\ LeaseCap)'
  BY <1>12, PublishStep
<1>13. ASSUME NEW c \in Callers, DialTooLate(c) PROVE (CountsExact /\ LeaseCap)'
  BY <1>0, <1>13
  DEF DialTooLate, ReleaseReservation, FlightFails, LeaveLoop, Followers, TypeInv, TypeOK, SameLeases, Leasing, Waiting, poolVars, connVars,
         callerData, callerVars
<1>14. ASSUME NEW c \in Callers, CloseLateConn(c) PROVE (CountsExact /\ LeaseCap)'
  BY <1>0, <1>14
  DEF CloseLateConn, Move, CloseConns, TypeInv, TypeOK, SameLeases, Leasing, Waiting, poolVars, connVars,
         callerData, callerVars
<1>15. ASSUME NEW c \in Callers, DialRetire(c) PROVE (CountsExact /\ LeaseCap)'
  BY <1>0, <1>15
  DEF DialRetire, ReleaseReservation, FlightFails, LeaveLoop, Followers, TypeInv, TypeOK, SameLeases, Leasing, Waiting, poolVars, connVars,
         callerData, callerVars
<1>16. ASSUME NEW c \in Callers, DialRecover(c) PROVE (CountsExact /\ LeaseCap)'
  BY <1>0, <1>16
  DEF DialRecover, ReleaseReservation, FlightFails, LeaveLoop, Followers, TypeInv, TypeOK, SameLeases, Leasing, Waiting, poolVars, connVars,
         callerData, callerVars
<1>17. ASSUME NEW c \in Callers, WaiterFails(c) PROVE (CountsExact /\ LeaseCap)'
  BY <1>0, <1>17
  DEF WaiterFails, Return, LeaveLoop, TypeInv, TypeOK, SameLeases, Leasing, Waiting, poolVars, connVars,
         callerData, callerVars
<1>18. ASSUME NEW c \in Callers, WaiterCancelled(c) PROVE (CountsExact /\ LeaseCap)'
  BY <1>0, <1>18
  DEF WaiterCancelled, Return, LeaveLoop, TypeInv, TypeOK, SameLeases, Leasing, Waiting, poolVars, connVars,
         callerData, callerVars
<1>19. ASSUME NEW c \in Callers, OpenCallOk(c) PROVE (CountsExact /\ LeaseCap)'
  BY <1>0, <1>19
  DEF OpenCallOk, Move, LeaveLoop, TypeInv, TypeOK, SameLeases, Leasing, Waiting, poolVars, connVars,
         callerData, callerVars
<1>20. ASSUME NEW c \in Callers, OpenCallBusy(c) PROVE (CountsExact /\ LeaseCap)'
  BY <1>0, <1>20
  DEF OpenCallBusy, Move, TypeInv, TypeOK, SameLeases, Leasing, Waiting, poolVars, connVars,
         callerData, callerVars
<1>21. ASSUME NEW c \in Callers, OpenCallSpent(c) PROVE (CountsExact /\ LeaseCap)'
  BY <1>0, <1>21
  DEF OpenCallSpent, Move, CloseConns, TypeInv, TypeOK, SameLeases, Leasing, Waiting, poolVars, connVars,
         callerData, callerVars
<1>22. ASSUME NEW c \in Callers, OpenCallError(c) PROVE (CountsExact /\ LeaseCap)'
  BY <1>0, <1>22
  DEF OpenCallError, Move, TypeInv, TypeOK, SameLeases, Leasing, Waiting, poolVars, connVars,
         callerData, callerVars
<1>23. ASSUME NEW c \in Callers, Release(c) PROVE (CountsExact /\ LeaseCap)'
  BY <1>23, ReleaseStep
<1>24. ASSUME NEW c \in Callers, CloseCall(c) PROVE (CountsExact /\ LeaseCap)'
  BY <1>0, <1>24
  DEF CloseCall, Move, TypeInv, TypeOK, SameLeases, Leasing, Waiting, poolVars, connVars,
         callerData, callerVars
<1>25. ASSUME NEW c \in Callers, Cancel(c) PROVE (CountsExact /\ LeaseCap)'
  BY <1>0, <1>25
  DEF Cancel, TypeInv, TypeOK, SameLeases, Leasing, Waiting, poolVars, connVars,
         callerData, callerVars
<1>26. CASE PoolClose
  BY <1>0, <1>26
  DEF PoolClose, TypeInv, TypeOK, SameLeases, Leasing, Waiting, poolVars, connVars,
         callerData, callerVars
<1>27. CASE PoolCloseConn
  BY <1>0, <1>27
  DEF PoolCloseConn, CloseConns, TypeInv, TypeOK, SameLeases, Leasing, Waiting, poolVars, connVars,
         callerData, callerVars
<1>28. CASE ReclaimTick
  <2>1. SameLeases /\ ~closed /\ Discard(Reclaimable) /\ refcount' = refcount /\ closed' = closed
    BY <1>28 DEF ReclaimTick, TypeInv, TypeOK, SameLeases, Leasing, Waiting, poolVars, connVars,
         callerData, callerVars
  <2> QED
    BY <2>1, ReclaimStep
<1>29. CASE ConnSpoils
  BY <1>0, <1>29
  DEF ConnSpoils, TypeInv, TypeOK, SameLeases, Leasing, Waiting, poolVars, connVars,
         callerData, callerVars
<1>30. CASE LifetimePasses
  BY <1>0, <1>30
  DEF LifetimePasses, TypeInv, TypeOK, SameLeases, Leasing, Waiting, poolVars, connVars,
         callerData, callerVars
<1>31. CASE IdleTimePasses
  BY <1>0, <1>31
  DEF IdleTimePasses, TypeInv, TypeOK, SameLeases, Leasing, Waiting, poolVars, connVars,
         callerData, callerVars
<1>32. CASE UNCHANGED vars
  BY <1>0, <1>32
  DEF vars, TypeInv, TypeOK, SameLeases, Leasing, Waiting, poolVars, connVars,
         callerData, callerVars
<1> QED
  BY <1>1, <1>2, <1>3, <1>4, <1>5, <1>6, <1>7, <1>8, <1>9, <1>10, <1>11,
     <1>12, <1>13, <1>14, <1>15, <1>16, <1>17, <1>18, <1>19, <1>20, <1>21,
     <1>22, <1>23, <1>24, <1>25, <1>26, <1>27, <1>28, <1>29, <1>30, <1>31,
     <1>32
  DEF Next, CallerStep, Acquire, Dial, UseConn

LEMMA LeaseInit == Init => LeaseInv
<1> SUFFICES ASSUME Init PROVE LeaseInv
  OBVIOUS
<1>1. LendOpen /\ InHandDialed /\ DialedFresh /\ CountsExact
  BY DEF Init, LendOpen, InHandDialed, DialedFresh, CountsExact, HasConn, Leasing
<1>2. \A s \in Sessions : Holders(s) = {}
  BY DEF Init, Holders, Leasing
<1>3. LeaseCap
  BY <1>2, FS_EmptySet, PoolAssumption DEF LeaseCap
<1> QED
  BY <1>1, <1>3, TypeInit DEF LeaseInv

LEMMA LeaseInvariant == Spec => []LeaseInv
<1>1. LeaseInv /\ [Next]_vars => LeaseInv'
  BY TypeStep, LendOpenStep, InHandStep, LeaseStep DEF LeaseInv
<1> QED
  BY <1>1, LeaseInit, PTL DEF Spec

(* No connection carries more than capPer calls, before and after           *)
(* Pool.Close (pool.go, lendableLocked).                                    *)
THEOREM LeasesCapped == Spec => []LeaseCap
<1>1. LeaseInv => LeaseCap
  BY DEF LeaseInv
<1> QED
  BY <1>1, LeaseInvariant, PTL

(* While the pool is open the reference count of every entry is the number  *)
(* of callers holding it and no held connection has been dropped            *)
(* (pool.go, tryLendLocked, Release, reclaimLocked).                        *)
THEOREM CountsAreExact == Spec => []RefcountExact
<1>1. LeaseInv => RefcountExact
  BY DEF LeaseInv, CountsExact, RefcountExact, Holders
<1> QED
  BY <1>1, LeaseInvariant, PTL

(* The leases of every connection are exact and within its capacity         *)
(* (pool.go, lendableLocked, tryLendLocked, Release, reclaimLocked).        *)
THEOREM LeasesAreExact == Spec => []LeasesExact
<1>1. LeaseCap /\ RefcountExact => LeasesExact
  BY DEF LeasesExact
<1> QED
  BY <1>1, LeasesCapped, CountsAreExact, PTL

(***************************************************************************)
(* The connections are accounted for                                       *)
(***************************************************************************)

(* Pool.Close takes every entry, and only a caller whose dial came back     *)
(* after it closes a connection by itself.                                  *)
CloseShape ==
  /\ closed => tracked = {}
  /\ ~closed => closing = {} /\ \A c \in Callers : pc[c] # "discard"

(* A dialed connection belongs to the endpoint its caller dialed. *)
DialShape ==
  /\ \A s \in closing : conn[s] # "none"
  /\ \A c \in Callers : pc[c] \in {"dialed", "discard"} => epOf[sess[c]] = target[c]

(* The callers that may have a connection to e nobody has registered yet, and *)
(* the connections to e the pool or its Close still has.                     *)
Reserving(e) == {c \in Callers : target[c] = e /\ pc[c] \in InDial \cup {"discard"}}
Owned(e)     == {s \in tracked \cup closing : epOf[s] = e}

(* A reservation for each dial under way. *)
PendingExact ==
  ~closed => \A e \in Endpoints : pendingDial[e] = Cardinality(Reserving(e))

(* Connections and dials together stay within the limit, after Pool.Close too. *)
RoomKept ==
  MaxSessionsPerEndpoint > 0 =>
    \A e \in Endpoints :
      Cardinality(Owned(e)) + Cardinality(Reserving(e)) <= MaxSessionsPerEndpoint

BooksInv ==
  /\ LeaseInv
  /\ CloseShape /\ DialShape /\ NoOrphanConn
  /\ IdleExact
  /\ PendingExact /\ RoomKept

LEMMA BooksInit == Init => BooksInv
<1> SUFFICES ASSUME Init PROVE BooksInv
  OBVIOUS
<1>1. CloseShape /\ DialShape /\ NoOrphanConn
  BY DEF Init, CloseShape, DialShape, NoOrphanConn
<1>2. \A e \in Endpoints : IdleAt(e) = {} /\ Owned(e) = {} /\ Reserving(e) = {}
  BY DEF Init, IdleAt, Owned, Reserving, InDial
<1>3. Cardinality({}) = 0
  BY FS_EmptySet
<1>4. IdleExact
  BY <1>2, <1>3, PoolAssumption DEF IdleExact, Init
<1>5. PendingExact
  BY <1>2, <1>3 DEF PendingExact, Init
<1>6. RoomKept
  BY <1>2, <1>3, PoolAssumption DEF RoomKept
<1> QED
  BY <1>1, <1>4, <1>5, <1>6, LeaseInit DEF BooksInv

(* Whatever opens, closes or changes hands stays with somebody. *)
LEMMA OwnerStep ==
  ASSUME BooksInv, [Next]_vars
  PROVE  (CloseShape /\ DialShape /\ NoOrphanConn)'
<1>0. None \notin Sessions
  BY PoolAssumption
<1> DEFINE Goal == CloseShape /\ DialShape /\ NoOrphanConn
<1> SUFFICES Goal'
  OBVIOUS
<1> USE <1>0 DEF BooksInv, LeaseInv, TypeInv, TypeOK, LendOpen, InHand, InHandDialed, HasConn,
                 CloseShape, DialShape, NoOrphanConn, Leasing, InDial, Waiting, PCs, poolVars,
                 connVars, callerData, callerVars
<1>1. ASSUME NEW c \in Callers, Open(c) PROVE Goal'
  BY <1>1 DEF Open, Move
<1>2. ASSUME NEW c \in Callers, FindClosed(c) PROVE Goal'
  BY <1>2 DEF FindClosed, Return, LeaveLoop
<1>3. ASSUME NEW c \in Callers, Reclaim(c) PROVE Goal'
  BY <1>3 DEF Reclaim, Move, Discard, CloseConns
<1>4. ASSUME NEW c \in Callers, Lend(c) PROVE Goal'
  BY <1>4 DEF Lend, AtLend, Lendable
<1>5. ASSUME NEW c \in Callers, JoinFlight(c) PROVE Goal'
  BY <1>5 DEF JoinFlight, Move
<1>6. ASSUME NEW c \in Callers, Exhausted(c) PROVE Goal'
  BY <1>6 DEF Exhausted, Return, LeaveLoop, AtLend
<1>7. ASSUME NEW c \in Callers, WaiterRetries(c) PROVE Goal'
  BY <1>7 DEF WaiterRetries, Move, AtLend
<1>8. ASSUME NEW c \in Callers, StartDial(c) PROVE Goal'
  BY <1>8 DEF StartDial, Move
<1>9. ASSUME NEW c \in Callers, DialOk(c) PROVE Goal'
  BY <1>9 DEF DialOk, Move
<1>10. ASSUME NEW c \in Callers, DialFail(c) PROVE Goal'
  BY <1>10 DEF DialFail, Move
<1>11. ASSUME NEW c \in Callers, DialPanic(c) PROVE Goal'
  BY <1>11 DEF DialPanic, Move
<1>12. ASSUME NEW c \in Callers, DialPublish(c) PROVE Goal'
  BY <1>12 DEF DialPublish, ReleaseReservation, FlightSucceeds, Followers
<1>13. ASSUME NEW c \in Callers, DialTooLate(c) PROVE Goal'
  BY <1>13 DEF DialTooLate, ReleaseReservation, FlightFails, LeaveLoop, Followers
<1>14. ASSUME NEW c \in Callers, CloseLateConn(c) PROVE Goal'
  BY <1>14 DEF CloseLateConn, Move, CloseConns
<1>15. ASSUME NEW c \in Callers, DialRetire(c) PROVE Goal'
  BY <1>15 DEF DialRetire, ReleaseReservation, FlightFails, LeaveLoop, Followers
<1>16. ASSUME NEW c \in Callers, DialRecover(c) PROVE Goal'
  BY <1>16 DEF DialRecover, ReleaseReservation, FlightFails, LeaveLoop, Followers
<1>17. ASSUME NEW c \in Callers, WaiterFails(c) PROVE Goal'
  BY <1>17 DEF WaiterFails, Return, LeaveLoop
<1>18. ASSUME NEW c \in Callers, WaiterCancelled(c) PROVE Goal'
  BY <1>18 DEF WaiterCancelled, Return, LeaveLoop
<1>19. ASSUME NEW c \in Callers, OpenCallOk(c) PROVE Goal'
  BY <1>19 DEF OpenCallOk, Move, LeaveLoop
<1>20. ASSUME NEW c \in Callers, OpenCallBusy(c) PROVE Goal'
  BY <1>20 DEF OpenCallBusy, Move
<1>21. ASSUME NEW c \in Callers, OpenCallSpent(c) PROVE Goal'
  BY <1>21 DEF OpenCallSpent, Move, CloseConns
<1>22. ASSUME NEW c \in Callers, OpenCallError(c) PROVE Goal'
  BY <1>22 DEF OpenCallError, Move
<1>23. ASSUME NEW c \in Callers, Release(c) PROVE Goal'
  BY <1>23 DEF Release, ReturnConn, Discard, CloseConns, AfterRelease, LastAttempt,
      Return, LeaveLoop
<1>24. ASSUME NEW c \in Callers, CloseCall(c) PROVE Goal'
  BY <1>24 DEF CloseCall, Move
<1>25. ASSUME NEW c \in Callers, Cancel(c) PROVE Goal'
  BY <1>25 DEF Cancel
<1>26. CASE PoolClose
  BY <1>26 DEF PoolClose
<1>27. CASE PoolCloseConn
  BY <1>27 DEF PoolCloseConn, CloseConns
<1>28. CASE ReclaimTick
  BY <1>28 DEF ReclaimTick, Discard, CloseConns
<1>29. CASE ConnSpoils
  BY <1>29 DEF ConnSpoils
<1>30. CASE LifetimePasses
  BY <1>30 DEF LifetimePasses
<1>31. CASE IdleTimePasses
  BY <1>31 DEF IdleTimePasses
<1>32. CASE UNCHANGED vars
  BY <1>32 DEF vars
<1> QED
  BY <1>1, <1>2, <1>3, <1>4, <1>5, <1>6, <1>7, <1>8, <1>9, <1>10, <1>11, <1>12, <1>13,
      <1>14, <1>15, <1>16, <1>17, <1>18, <1>19, <1>20, <1>21, <1>22, <1>23, <1>24,
      <1>25, <1>26, <1>27, <1>28, <1>29, <1>30, <1>31, <1>32 DEF Next, CallerStep,
      Acquire, Dial, UseConn

(* A step that takes no lease, and drops entries at most. *)
LEMMA IdleQuiet ==
  ASSUME TypeInv, IdleExact, SameLeases, tracked' \subseteq tracked,
         idle' = idle \cap tracked', \A s \in tracked : epOf'[s] = epOf[s]
  PROVE  IdleExact'
<1>0. tracked \subseteq Sessions /\ idle \subseteq tracked /\ IsFiniteSet(idle)
  BY PoolAssumption, FS_Subset DEF TypeInv, TypeOK, IdleExact
<1>1. \A s \in Sessions : Holders(s)' = Holders(s)
  BY HoldersSame
<1>2. idle' = {s \in tracked' : Holders(s)' = {}}
  BY <1>0, <1>1 DEF IdleExact
<1>3. ASSUME MaxIdleSessions >= 0, NEW e \in Endpoints
      PROVE  Cardinality(IdleAt(e)') <= MaxIdleSessions
  <2>1. IdleAt(e)' \subseteq IdleAt(e) /\ IsFiniteSet(IdleAt(e))
    BY <1>0, FS_Subset DEF IdleAt
  <2>2. /\ Cardinality(IdleAt(e)') <= Cardinality(IdleAt(e))
        /\ Cardinality(IdleAt(e)) \in Nat /\ Cardinality(IdleAt(e)') \in Nat
    BY <2>1, FS_Subset, FS_CardinalityType
  <2> QED
    BY <1>3, <2>2, PoolAssumption DEF IdleExact
<1> QED
  BY <1>2, <1>3 DEF IdleExact

LEMMA IdleLend ==
  ASSUME BooksInv, NEW c \in Callers, Lend(c)
  PROVE  IdleExact'
<1> USE DEF BooksInv, LeaseInv, TypeInv, TypeOK
<1>1. PICK s \in Sessions : /\ Lendable(c, s) /\ idle' = idle \ {s}
                            /\ sess' = [sess EXCEPT ![c] = s]
  BY DEF Lend
<1>2. /\ pc[c] \notin Leasing /\ pc' = [pc EXCEPT ![c] = "opening"]
      /\ tracked' = tracked /\ epOf' = epOf
  BY DEF Lend, AtLend, Leasing
<1>3. /\ c \in Holders(s)'
      /\ \A x \in Sessions \ {s} : Holders(x)' = Holders(x)
  BY <1>1, <1>2 DEF Holders, Leasing
<1>4. idle' = {x \in tracked' : Holders(x)' = {}}
  BY <1>1, <1>2, <1>3 DEF IdleExact
<1>5. ASSUME MaxIdleSessions >= 0, NEW e \in Endpoints
      PROVE  Cardinality(IdleAt(e)') <= MaxIdleSessions
  <2>1. IdleAt(e)' \subseteq IdleAt(e) /\ IsFiniteSet(IdleAt(e))
    BY <1>1, <1>2, PoolAssumption, FS_Subset DEF IdleAt
  <2>2. /\ Cardinality(IdleAt(e)') <= Cardinality(IdleAt(e))
        /\ Cardinality(IdleAt(e)) \in Nat /\ Cardinality(IdleAt(e)') \in Nat
    BY <2>1, FS_Subset, FS_CardinalityType
  <2> QED
    BY <1>5, <2>2, PoolAssumption DEF IdleExact
<1> QED
  BY <1>4, <1>5 DEF IdleExact

LEMMA IdlePublish ==
  ASSUME BooksInv, NEW c \in Callers, DialPublish(c)
  PROVE  IdleExact'
<1> USE DEF BooksInv, LeaseInv, TypeInv, TypeOK
<1>0. PICK s \in Sessions : s = sess[c]
  BY DEF DialPublish, InHand, HasConn
<1>1. /\ tracked' = tracked \cup {s} /\ s \notin tracked
      /\ idle' = idle /\ epOf' = epOf /\ sess' = sess
  BY <1>0 DEF DialPublish, DialedFresh, connVars
<1>2. /\ pc[c] = "dialed" /\ pc'[c] = "opening"
      /\ \A d \in Callers \ {c} : pc'[d] \in Leasing <=> pc[d] \in Leasing
  BY DEF DialPublish, FlightSucceeds, Followers, Leasing
<1>3. /\ c \in Holders(s)'
      /\ \A x \in Sessions \ {s} : Holders(x)' = Holders(x)
  BY <1>0, <1>1, <1>2 DEF Holders, Leasing
<1>4. idle' = {x \in tracked' : Holders(x)' = {}}
  BY <1>1, <1>3 DEF IdleExact
<1>5. \A e \in Endpoints : IdleAt(e)' = IdleAt(e)
  BY <1>1 DEF IdleAt
<1> QED
  BY <1>4, <1>5 DEF IdleExact

(* returnLocked queues what nobody holds any more if there is room. *)
LEMMA IdleRelease ==
  ASSUME BooksInv, NEW c \in Callers, Release(c)
  PROVE  IdleExact'
<1> USE DEF BooksInv, LeaseInv, TypeInv, TypeOK
<1>0. PICK s \in Sessions : s = sess[c]
  BY DEF Release, InHand, HasConn, Leasing
<1>1. /\ pc[c] \in Leasing /\ pc'[c] \notin Leasing /\ c \in Holders(s) /\ epOf' = epOf
      /\ \A d \in Callers \ {c} : pc'[d] = pc[d] /\ sess'[d] = sess[d]
  BY <1>0 DEF Release, AfterRelease, Return, Leasing, Holders
<1>2. /\ Holders(s)' = Holders(s) \ {c}
      /\ \A x \in Sessions \ {s} : Holders(x)' = Holders(x)
  BY <1>0, <1>1 DEF Holders
<1>3. tracked \subseteq Sessions /\ IsFiniteSet(idle)
  BY PoolAssumption, FS_Subset
<1>4. CASE s \notin tracked \/ refcount[s] = 0
  <2>1. tracked' = tracked /\ idle' = idle
    BY <1>0, <1>4 DEF Release
  <2>2. closed
    BY <1>0, <1>1, <1>4, CountMeansHolders DEF CountsExact
  <2>3. tracked = {} /\ idle = {}
    BY <2>2 DEF CloseShape, IdleExact
  <2>4. \A e \in Endpoints : IdleAt(e)' = IdleAt(e)
    BY <1>1, <2>1 DEF IdleAt
  <2> QED
    BY <2>1, <2>3, <2>4 DEF IdleExact
<1>5. CASE s \in tracked /\ refcount[s] # 0
  <2>1. ~closed /\ ReturnConn(s)
    BY <1>0, <1>5 DEF Release, CloseShape
  <2>2. CASE refcount[s] > 1
    <3>1. tracked' = tracked /\ idle' = idle
      BY <2>1, <2>2 DEF ReturnConn
    <3>2. Holders(s)' # {} /\ Holders(s) # {}
      <4>1. Cardinality({c}) = 1
        BY FS_Singleton
      <4>2. refcount[s] = Cardinality(Holders(s))
        BY <1>5, <2>1 DEF CountsExact
      <4>3. Holders(s) # {c}
        BY ONLY <2>2, <4>1, <4>2
      <4> QED
        BY <1>1, <1>2, <4>3
    <3>3. \A e \in Endpoints : IdleAt(e)' = IdleAt(e)
      BY <1>1, <3>1 DEF IdleAt
    <3>4. idle' = {x \in tracked' : Holders(x)' = {}}
      BY <1>2, <1>3, <3>1, <3>2 DEF IdleExact
    <3> QED
      BY <3>3, <3>4 DEF IdleExact
  <2>3. CASE refcount[s] = 1
    <3>1. Holders(s)' = {}
      BY <1>1, <1>2, <1>5, <2>1, <2>3, CountMeansHolders
    <3>2. CASE tracked' = tracked \ {s} /\ idle' = idle \ {s}
      <4>1. idle' = {x \in tracked' : Holders(x)' = {}}
        BY <1>2, <1>3, <3>2 DEF IdleExact
      <4>2. ASSUME MaxIdleSessions >= 0, NEW e \in Endpoints
            PROVE  Cardinality(IdleAt(e)') <= MaxIdleSessions
        <5>1. IdleAt(e)' \subseteq IdleAt(e) /\ IsFiniteSet(IdleAt(e))
          BY <1>1, <1>3, <3>2, FS_Subset DEF IdleAt
        <5>2. /\ Cardinality(IdleAt(e)') <= Cardinality(IdleAt(e))
              /\ Cardinality(IdleAt(e)) \in Nat /\ Cardinality(IdleAt(e)') \in Nat
          BY <5>1, FS_Subset, FS_CardinalityType
        <5> QED
          BY <4>2, <5>2, PoolAssumption DEF IdleExact
      <4> QED
        BY <4>1, <4>2 DEF IdleExact
    <3>3. CASE /\ tracked' = tracked /\ idle' = idle \cup {s} /\ IdleRoom(epOf[s])
      <4>1. idle' = {x \in tracked' : Holders(x)' = {}}
        BY <1>2, <1>3, <1>5, <3>1, <3>3 DEF IdleExact
      <4>2. ASSUME MaxIdleSessions >= 0, NEW e \in Endpoints
            PROVE  Cardinality(IdleAt(e)') <= MaxIdleSessions
        <5>1. IsFiniteSet(IdleAt(e)) /\ Cardinality(IdleAt(e)) \in Nat
          BY <1>3, FS_Subset, FS_CardinalityType DEF IdleAt
        <5>2. CASE e # epOf[s]
          <6>1. IdleAt(e)' = IdleAt(e)
            BY <1>1, <3>3, <5>2 DEF IdleAt
          <6> QED
            BY <4>2, <6>1 DEF IdleExact
        <5>3. CASE e = epOf[s]
          <6>1. IdleAt(e)' = IdleAt(e) \cup {s}
            BY <1>1, <3>3, <5>3 DEF IdleAt
          <6>2. Cardinality(IdleAt(e)') \in {Cardinality(IdleAt(e)), Cardinality(IdleAt(e)) + 1}
            BY <5>1, <6>1, FS_AddElement
          <6>3. Cardinality(IdleAt(e)) < MaxIdleSessions
            BY <3>3, <4>2, <5>3, PoolAssumption DEF IdleRoom
          <6> QED
            BY <5>1, <6>2, <6>3, PoolAssumption
        <5> QED
          BY <5>2, <5>3
      <4> QED
        BY <4>1, <4>2 DEF IdleExact
    <3> QED
      BY <2>1, <2>3, <3>2, <3>3 DEF ReturnConn, Discard
  <2> QED
    BY <1>5, <2>2, <2>3
<1> QED
  BY <1>4, <1>5

LEMMA IdleStep ==
  ASSUME BooksInv, [Next]_vars
  PROVE  IdleExact'
<1> DEFINE Quiet == /\ SameLeases /\ tracked' \subseteq tracked /\ idle' = idle \cap tracked'
                    /\ \A s \in tracked : epOf'[s] = epOf[s]
<1>0. Quiet => IdleExact'
  BY IdleQuiet DEF BooksInv, LeaseInv
<1>a. idle \subseteq tracked /\ tracked \subseteq Sessions /\ \A s \in tracked : conn[s] # "none"
  BY DEF BooksInv, LeaseInv, IdleExact, TypeInv, TypeOK, InHandDialed
<1>b. TypeOK
  BY DEF BooksInv, LeaseInv, TypeInv
<1> USE <1>0, <1>a, <1>b DEF TypeOK, SameLeases, Leasing, InDial, Waiting, poolVars, connVars,
            callerData, callerVars
<1>1. ASSUME NEW c \in Callers, Open(c) PROVE IdleExact'
  BY <1>1 DEF Open, Move
<1>2. ASSUME NEW c \in Callers, FindClosed(c) PROVE IdleExact'
  BY <1>2 DEF FindClosed, Return, LeaveLoop
<1>3. ASSUME NEW c \in Callers, Reclaim(c) PROVE IdleExact'
  BY <1>3 DEF Reclaim, Move, Discard, CloseConns
<1>4. ASSUME NEW c \in Callers, Lend(c) PROVE IdleExact'
  BY ONLY <1>4, IdleLend, BooksInv
<1>5. ASSUME NEW c \in Callers, JoinFlight(c) PROVE IdleExact'
  BY <1>5 DEF JoinFlight, Move
<1>6. ASSUME NEW c \in Callers, Exhausted(c) PROVE IdleExact'
  BY <1>6 DEF Exhausted, Return, LeaveLoop, AtLend
<1>7. ASSUME NEW c \in Callers, WaiterRetries(c) PROVE IdleExact'
  BY <1>7 DEF WaiterRetries, Move, AtLend
<1>8. ASSUME NEW c \in Callers, StartDial(c) PROVE IdleExact'
  BY <1>8 DEF StartDial, Move
<1>9. ASSUME NEW c \in Callers, DialOk(c) PROVE IdleExact'
  BY <1>9 DEF DialOk, Move
<1>10. ASSUME NEW c \in Callers, DialFail(c) PROVE IdleExact'
  BY <1>10 DEF DialFail, Move
<1>11. ASSUME NEW c \in Callers, DialPanic(c) PROVE IdleExact'
  BY <1>11 DEF DialPanic, Move
<1>12. ASSUME NEW c \in Callers, DialPublish(c) PROVE IdleExact'
  BY ONLY <1>12, IdlePublish, BooksInv
<1>13. ASSUME NEW c \in Callers, DialTooLate(c) PROVE IdleExact'
  BY <1>13 DEF DialTooLate, ReleaseReservation, FlightFails, LeaveLoop, Followers
<1>14. ASSUME NEW c \in Callers, CloseLateConn(c) PROVE IdleExact'
  BY <1>14 DEF CloseLateConn, Move, CloseConns
<1>15. ASSUME NEW c \in Callers, DialRetire(c) PROVE IdleExact'
  BY <1>15 DEF DialRetire, ReleaseReservation, FlightFails, LeaveLoop, Followers
<1>16. ASSUME NEW c \in Callers, DialRecover(c) PROVE IdleExact'
  BY <1>16 DEF DialRecover, ReleaseReservation, FlightFails, LeaveLoop, Followers
<1>17. ASSUME NEW c \in Callers, WaiterFails(c) PROVE IdleExact'
  BY <1>17 DEF WaiterFails, Return, LeaveLoop
<1>18. ASSUME NEW c \in Callers, WaiterCancelled(c) PROVE IdleExact'
  BY <1>18 DEF WaiterCancelled, Return, LeaveLoop
<1>19. ASSUME NEW c \in Callers, OpenCallOk(c) PROVE IdleExact'
  BY <1>19 DEF OpenCallOk, Move, LeaveLoop
<1>20. ASSUME NEW c \in Callers, OpenCallBusy(c) PROVE IdleExact'
  BY <1>20 DEF OpenCallBusy, Move
<1>21. ASSUME NEW c \in Callers, OpenCallSpent(c) PROVE IdleExact'
  BY <1>21 DEF OpenCallSpent, Move, CloseConns
<1>22. ASSUME NEW c \in Callers, OpenCallError(c) PROVE IdleExact'
  BY <1>22 DEF OpenCallError, Move
<1>23. ASSUME NEW c \in Callers, Release(c) PROVE IdleExact'
  BY ONLY <1>23, IdleRelease, BooksInv
<1>24. ASSUME NEW c \in Callers, CloseCall(c) PROVE IdleExact'
  BY <1>24 DEF CloseCall, Move
<1>25. ASSUME NEW c \in Callers, Cancel(c) PROVE IdleExact'
  BY <1>25 DEF Cancel
<1>26. CASE PoolClose
  BY <1>26 DEF PoolClose
<1>27. CASE PoolCloseConn
  BY <1>27 DEF PoolCloseConn, CloseConns
<1>28. CASE ReclaimTick
  BY <1>28 DEF ReclaimTick, Discard, CloseConns
<1>29. CASE ConnSpoils
  BY <1>29 DEF ConnSpoils
<1>30. CASE LifetimePasses
  BY <1>30 DEF LifetimePasses
<1>31. CASE IdleTimePasses
  BY <1>31 DEF IdleTimePasses
<1>32. CASE UNCHANGED vars
  BY <1>32 DEF vars
<1> QED
  BY <1>1, <1>2, <1>3, <1>4, <1>5, <1>6, <1>7, <1>8, <1>9, <1>10, <1>11, <1>12, <1>13,
      <1>14, <1>15, <1>16, <1>17, <1>18, <1>19, <1>20, <1>21, <1>22, <1>23, <1>24,
      <1>25, <1>26, <1>27, <1>28, <1>29, <1>30, <1>31, <1>32 DEF Next, CallerStep,
      Acquire, Dial, UseConn

LEMMA Finite ==
  ASSUME TypeInv, NEW e \in Endpoints
  PROVE  /\ IsFiniteSet(Owned(e)) /\ Cardinality(Owned(e)) \in Nat
         /\ IsFiniteSet(Reserving(e)) /\ Cardinality(Reserving(e)) \in Nat
<1>1. Owned(e) \subseteq Sessions /\ Reserving(e) \subseteq Callers
  BY DEF Owned, Reserving, TypeInv, TypeOK
<1> QED
  BY <1>1, PoolAssumption, FS_Subset, FS_CardinalityType

(* A step that takes no connection and starts no dial. *)
LEMMA RoomQuiet ==
  ASSUME TypeInv, RoomKept, target' = target,
         tracked' \cup closing' \subseteq tracked \cup closing,
         \A s \in tracked \cup closing : epOf'[s] = epOf[s],
         \A c \in Callers : pc'[c] \in InDial \cup {"discard"} => pc[c] \in InDial \cup {"discard"}
  PROVE  RoomKept'
<1> SUFFICES ASSUME MaxSessionsPerEndpoint > 0, NEW e \in Endpoints
             PROVE  Cardinality(Owned(e)') + Cardinality(Reserving(e)') <= MaxSessionsPerEndpoint
  BY DEF RoomKept
<1>1. Owned(e)' \subseteq Owned(e) /\ Reserving(e)' \subseteq Reserving(e)
  BY DEF Owned, Reserving
<1>2. /\ Cardinality(Owned(e)') \in Nat /\ Cardinality(Owned(e)') <= Cardinality(Owned(e))
      /\ Cardinality(Reserving(e)') \in Nat
      /\ Cardinality(Reserving(e)') <= Cardinality(Reserving(e))
  BY <1>1, Finite, FS_Subset, FS_CardinalityType
<1>3. Cardinality(Owned(e)) + Cardinality(Reserving(e)) <= MaxSessionsPerEndpoint
  BY DEF RoomKept
<1> QED
  BY ONLY <1>2, <1>3, Finite, TypeInv, PoolAssumption, e \in Endpoints

LEMMA PendingQuiet ==
  ASSUME PendingExact,
         closed' \/ /\ ~closed /\ pendingDial' = pendingDial /\ target' = target
                    /\ \A c \in Callers : pc'[c] \in InDial \cup {"discard"}
                                            <=> pc[c] \in InDial \cup {"discard"}
  PROVE  PendingExact'
<1> SUFFICES ASSUME ~closed', NEW e \in Endpoints
             PROVE  pendingDial'[e] = Cardinality(Reserving(e)')
  BY DEF PendingExact
<1>1. Reserving(e)' = Reserving(e)
  BY DEF Reserving
<1> QED
  BY <1>1 DEF PendingExact

(* The slot is reserved in the critical section that has looked for it. *)
LEMMA ReserveStep ==
  ASSUME BooksInv, NEW c \in Callers, StartDial(c)
  PROVE  (PendingExact /\ RoomKept)'
<1> USE DEF BooksInv, LeaseInv, TypeInv, TypeOK
<1>0. PICK t \in Endpoints : t = target[c]
  OBVIOUS
<1>1. /\ ~closed /\ closed' = closed /\ closing = {} /\ target' = target /\ epOf' = epOf
      /\ tracked' = tracked /\ closing' = closing
      /\ pc[c] = "lend" /\ pc' = [pc EXCEPT ![c] = "dialing"]
      /\ pendingDial' = [pendingDial EXCEPT ![t] = @ + 1] /\ ~AtCap(t)
  BY <1>0 DEF StartDial, Move, LendOpen, CloseShape, connVars, callerData
<1>2. /\ \A e \in Endpoints : Owned(e)' = Owned(e) /\ Owned(e) = Entries(e)
      /\ \A e \in Endpoints \ {t} : Reserving(e)' = Reserving(e)
      /\ Reserving(t)' = Reserving(t) \cup {c} /\ c \notin Reserving(t)
  BY <1>0, <1>1 DEF Owned, Entries, Reserving, InDial
<1>3. Cardinality(Reserving(t)') = Cardinality(Reserving(t)) + 1
  <2>1. IsFiniteSet(Reserving(t))
    BY Finite
  <2> QED
    BY ONLY <1>2, <2>1, FS_AddElement
<1>4. \A e \in Endpoints : pendingDial[e] = Cardinality(Reserving(e))
  BY <1>1 DEF PendingExact
<1>5. PendingExact'
  BY <1>1, <1>2, <1>3, <1>4 DEF PendingExact
<1>6. ASSUME MaxSessionsPerEndpoint > 0
      PROVE  Cardinality(Owned(t)) + Cardinality(Reserving(t)) < MaxSessionsPerEndpoint
  BY <1>1, <1>2, <1>4, <1>6, Finite, PoolAssumption DEF AtCap
<1>7. ASSUME MaxSessionsPerEndpoint > 0, NEW e \in Endpoints
      PROVE  Cardinality(Owned(e)') + Cardinality(Reserving(e)') <= MaxSessionsPerEndpoint
  <2>1. CASE e = t
    <3>1. Cardinality(Owned(t)) \in Nat /\ Cardinality(Reserving(t)) \in Nat
      BY Finite
    <3>2. Owned(t)' = Owned(t)
      BY <1>2
    <3> QED
      BY ONLY <1>3, <1>6, <1>7, <2>1, <3>1, <3>2, PoolAssumption
  <2>2. CASE e # t
    BY <1>2, <1>7, <2>2 DEF RoomKept
  <2> QED
    BY <2>1, <2>2
<1>8. RoomKept'
  BY <1>7 DEF RoomKept
<1> QED
  BY <1>5, <1>8

(* A dial that ends gives back one reservation, its own. *)
LEMMA UnreserveStep ==
  ASSUME BooksInv, NEW c \in Callers, pc[c] \in InDial, ReleaseReservation(c), target' = target,
         pc'[c] \notin InDial \cup {"discard"},
         \A d \in Callers \ {c} : pc'[d] \in InDial \cup {"discard"}
                                    <=> pc[d] \in InDial \cup {"discard"}
  PROVE  ~closed => \A e \in Endpoints : pendingDial'[e] = Cardinality(Reserving(e)')
<1> USE DEF BooksInv, LeaseInv, TypeInv, TypeOK
<1>0. PICK t \in Endpoints : t = target[c]
  OBVIOUS
<1>1. pendingDial' = [pendingDial EXCEPT ![t] = @ - 1]
  BY <1>0 DEF ReleaseReservation
<1>2. /\ \A e \in Endpoints \ {t} : Reserving(e)' = Reserving(e)
      /\ Reserving(t)' = Reserving(t) \ {c} /\ c \in Reserving(t)
  BY <1>0 DEF Reserving
<1>3. IsFiniteSet(Reserving(t)) /\ Cardinality(Reserving(t)) \in Nat
  BY Finite
<1>4. Cardinality(Reserving(t)') = Cardinality(Reserving(t)) - 1
  BY ONLY <1>2, <1>3, FS_RemoveElement
<1> QED
  BY <1>1, <1>2, <1>3, <1>4 DEF PendingExact

(* The connection is counted as an entry in the step that gives its         *)
(* reservation back.                                                        *)
LEMMA PublishRoom ==
  ASSUME BooksInv, NEW c \in Callers, DialPublish(c)
  PROVE  (PendingExact /\ RoomKept)'
<1> USE DEF BooksInv, LeaseInv, TypeInv, TypeOK
<1>0. PICK s \in Sessions, t \in Endpoints : s = sess[c] /\ t = target[c] /\ epOf[s] = t
  BY DEF DialPublish, InHand, HasConn, DialShape
<1>1. /\ ~closed /\ closing = {} /\ closing' = closing /\ epOf' = epOf /\ target' = target
      /\ tracked' = tracked \cup {s} /\ pc[c] = "dialed" /\ pc'[c] = "opening"
      /\ ReleaseReservation(c)
      /\ \A d \in Callers \ {c} : pc'[d] \in InDial \cup {"discard"}
                                    <=> pc[d] \in InDial \cup {"discard"}
  BY <1>0 DEF DialPublish, FlightSucceeds, Followers, CloseShape, connVars, InDial
<1>2. PendingExact'
  BY <1>1, UnreserveStep DEF PendingExact, InDial
<1>3. /\ \A e \in Endpoints \ {t} : Owned(e)' = Owned(e) /\ Reserving(e)' = Reserving(e)
      /\ Owned(t)' = Owned(t) \cup {s}
      /\ Reserving(t)' = Reserving(t) \ {c} /\ c \in Reserving(t)
  BY <1>0, <1>1 DEF Owned, Reserving, InDial
<1>4. /\ Cardinality(Reserving(t)') = Cardinality(Reserving(t)) - 1
      /\ Cardinality(Owned(t)') \in {Cardinality(Owned(t)), Cardinality(Owned(t)) + 1}
  <2>1. /\ IsFiniteSet(Reserving(t)) /\ Cardinality(Reserving(t)) \in Nat
        /\ IsFiniteSet(Owned(t)) /\ Cardinality(Owned(t)) \in Nat
    BY Finite
  <2>2. Cardinality(Reserving(t)') = Cardinality(Reserving(t)) - 1
    BY ONLY <1>3, <2>1, FS_RemoveElement
  <2>3. Cardinality(Owned(t)') \in {Cardinality(Owned(t)), Cardinality(Owned(t)) + 1}
    BY ONLY <1>3, <2>1, FS_AddElement
  <2> QED
    BY <2>2, <2>3
<1>5. ASSUME MaxSessionsPerEndpoint > 0, NEW e \in Endpoints
      PROVE  Cardinality(Owned(e)') + Cardinality(Reserving(e)') <= MaxSessionsPerEndpoint
  <2>1. Cardinality(Owned(e)) + Cardinality(Reserving(e)) <= MaxSessionsPerEndpoint
    BY <1>5 DEF RoomKept
  <2>2. CASE e = t
    <3>1. Cardinality(Owned(t)) \in Nat /\ Cardinality(Reserving(t)) \in Nat
      BY Finite
    <3> QED
      BY ONLY <1>4, <2>1, <2>2, <3>1, PoolAssumption
  <2>3. CASE e # t
    BY <1>3, <2>1, <2>3
  <2> QED
    BY <2>2, <2>3
<1>6. RoomKept'
  BY <1>5 DEF RoomKept
<1> QED
  BY <1>2, <1>6

LEMMA RoomStep ==
  ASSUME BooksInv, [Next]_vars
  PROVE  (PendingExact /\ RoomKept)'
<1> DEFINE Goal == PendingExact /\ RoomKept
           Res(c) == pc[c] \in InDial \cup {"discard"}
           Held == /\ target' = target
                   /\ tracked' \cup closing' \subseteq tracked \cup closing
                   /\ \A s \in tracked \cup closing : epOf'[s] = epOf[s]
           Quiet == /\ \A c \in Callers : Res(c)' => Res(c)
                    /\ \/ closed'
                       \/ /\ ~closed /\ pendingDial' = pendingDial
                          /\ \A c \in Callers : Res(c)' <=> Res(c)
           Ends(c) == /\ pc[c] \in InDial /\ ReleaseReservation(c) /\ closed' = closed
                      /\ ~Res(c)' /\ \A d \in Callers \ {c} : Res(d)' <=> Res(d)
<1>0. Held /\ Quiet => Goal'
  BY PendingQuiet, RoomQuiet DEF BooksInv, LeaseInv
<1>a. ASSUME NEW c \in Callers, Held, Ends(c) PROVE Goal'
  <2>1. PendingExact'
    BY <1>a, UnreserveStep DEF PendingExact
  <2>2. RoomKept'
    BY <1>a, RoomQuiet DEF BooksInv, LeaseInv
  <2> QED
    BY <2>1, <2>2
<1>b. TypeOK /\ \A s \in tracked \cup closing : conn[s] # "none"
  BY DEF BooksInv, LeaseInv, TypeInv, InHandDialed, DialShape
<1>c. /\ ~closed => \A c \in Callers : pc[c] # "discard"
      /\ closed => \A c \in Callers : pc[c] # "lend"
  BY DEF BooksInv, LeaseInv, CloseShape, LendOpen
<1> SUFFICES Goal'
  OBVIOUS
<1> USE <1>0, <1>b, <1>c DEF TypeOK, Leasing, InDial, Waiting, poolVars, connVars,
            callerData, callerVars
<1> HIDE DEF Goal
<1>1. ASSUME NEW c \in Callers, Open(c) PROVE Goal'
  BY <1>1 DEF Open, Move
<1>2. ASSUME NEW c \in Callers, FindClosed(c) PROVE Goal'
  BY <1>2 DEF FindClosed, Return, LeaveLoop
<1>3. ASSUME NEW c \in Callers, Reclaim(c) PROVE Goal'
  BY <1>3 DEF Reclaim, Move, Discard, CloseConns
<1>4. ASSUME NEW c \in Callers, Lend(c) PROVE Goal'
  BY <1>4 DEF Lend, AtLend, Lendable
<1>5. ASSUME NEW c \in Callers, JoinFlight(c) PROVE Goal'
  BY <1>5 DEF JoinFlight, Move
<1>6. ASSUME NEW c \in Callers, Exhausted(c) PROVE Goal'
  BY <1>6 DEF Exhausted, Return, LeaveLoop, AtLend
<1>7. ASSUME NEW c \in Callers, WaiterRetries(c) PROVE Goal'
  BY <1>7 DEF WaiterRetries, Move, AtLend
<1>8. ASSUME NEW c \in Callers, StartDial(c) PROVE Goal'
  BY ONLY <1>8, ReserveStep, BooksInv DEF Goal
<1>9. ASSUME NEW c \in Callers, DialOk(c) PROVE Goal'
  BY <1>9 DEF DialOk, Move
<1>10. ASSUME NEW c \in Callers, DialFail(c) PROVE Goal'
  BY <1>10 DEF DialFail, Move
<1>11. ASSUME NEW c \in Callers, DialPanic(c) PROVE Goal'
  BY <1>11 DEF DialPanic, Move
<1>12. ASSUME NEW c \in Callers, DialPublish(c) PROVE Goal'
  BY ONLY <1>12, PublishRoom, BooksInv DEF Goal
<1>13. ASSUME NEW c \in Callers, DialTooLate(c) PROVE Goal'
  BY <1>13 DEF DialTooLate, ReleaseReservation, FlightFails, LeaveLoop, Followers
<1>14. ASSUME NEW c \in Callers, CloseLateConn(c) PROVE Goal'
  BY <1>14 DEF CloseLateConn, Move, CloseConns
<1>15. ASSUME NEW c \in Callers, DialRetire(c) PROVE Goal'
  BY <1>15, <1>a DEF DialRetire, FlightFails, LeaveLoop, Followers
<1>16. ASSUME NEW c \in Callers, DialRecover(c) PROVE Goal'
  BY <1>16, <1>a DEF DialRecover, FlightFails, LeaveLoop, Followers
<1>17. ASSUME NEW c \in Callers, WaiterFails(c) PROVE Goal'
  BY <1>17 DEF WaiterFails, Return, LeaveLoop
<1>18. ASSUME NEW c \in Callers, WaiterCancelled(c) PROVE Goal'
  BY <1>18 DEF WaiterCancelled, Return, LeaveLoop
<1>19. ASSUME NEW c \in Callers, OpenCallOk(c) PROVE Goal'
  BY <1>19 DEF OpenCallOk, Move, LeaveLoop
<1>20. ASSUME NEW c \in Callers, OpenCallBusy(c) PROVE Goal'
  BY <1>20 DEF OpenCallBusy, Move
<1>21. ASSUME NEW c \in Callers, OpenCallSpent(c) PROVE Goal'
  BY <1>21 DEF OpenCallSpent, Move, CloseConns
<1>22. ASSUME NEW c \in Callers, OpenCallError(c) PROVE Goal'
  BY <1>22 DEF OpenCallError, Move
<1>23. ASSUME NEW c \in Callers, Release(c) PROVE Goal'
  BY <1>23 DEF Release, ReturnConn, Discard, CloseConns, AfterRelease, LastAttempt,
      Return, LeaveLoop
<1>24. ASSUME NEW c \in Callers, CloseCall(c) PROVE Goal'
  BY <1>24 DEF CloseCall, Move
<1>25. ASSUME NEW c \in Callers, Cancel(c) PROVE Goal'
  BY <1>25 DEF Cancel
<1>26. CASE PoolClose
  BY <1>26 DEF PoolClose
<1>27. CASE PoolCloseConn
  BY <1>27 DEF PoolCloseConn, CloseConns
<1>28. CASE ReclaimTick
  BY <1>28 DEF ReclaimTick, Discard, CloseConns
<1>29. CASE ConnSpoils
  BY <1>29 DEF ConnSpoils
<1>30. CASE LifetimePasses
  BY <1>30 DEF LifetimePasses
<1>31. CASE IdleTimePasses
  BY <1>31 DEF IdleTimePasses
<1>32. CASE UNCHANGED vars
  BY <1>32 DEF vars
<1> QED
  BY <1>1, <1>2, <1>3, <1>4, <1>5, <1>6, <1>7, <1>8, <1>9, <1>10, <1>11, <1>12, <1>13,
      <1>14, <1>15, <1>16, <1>17, <1>18, <1>19, <1>20, <1>21, <1>22, <1>23, <1>24,
      <1>25, <1>26, <1>27, <1>28, <1>29, <1>30, <1>31, <1>32 DEF Next, CallerStep,
      Acquire, Dial, UseConn

LEMMA BooksInvariant == Spec => []BooksInv
<1>1. BooksInv /\ [Next]_vars => BooksInv'
  <2> SUFFICES ASSUME BooksInv, [Next]_vars PROVE BooksInv'
    OBVIOUS
  <2>1. LeaseInv'
    BY TypeStep, LendOpenStep, InHandStep, LeaseStep DEF BooksInv, LeaseInv
  <2> QED
    BY <2>1, OwnerStep, IdleStep, RoomStep DEF BooksInv
<1> QED
  BY <1>1, BooksInit, PTL DEF Spec

(* What is open to e is owned, or in the hands of one of e's dialers. *)
LEMMA OpenIsRoom ==
  ASSUME BooksInv, NEW e \in Endpoints
  PROVE  Cardinality({s \in Sessions : conn[s] = "open" /\ epOf[s] = e})
           <= Cardinality(Owned(e)) + Cardinality(Reserving(e))
<1> DEFINE OpenTo == {s \in Sessions : conn[s] = "open" /\ epOf[s] = e}
           Late == {sess[c] : c \in Reserving(e)}
<1>0. /\ IsFiniteSet(Owned(e)) /\ Cardinality(Owned(e)) \in Nat
      /\ IsFiniteSet(Reserving(e)) /\ Cardinality(Reserving(e)) \in Nat
  BY Finite DEF BooksInv, LeaseInv
<1>1. OpenTo \subseteq Owned(e) \cup Late
  BY DEF BooksInv, NoOrphanConn, DialShape, Owned, Reserving, InDial
<1>2. /\ IsFiniteSet(Late) /\ Cardinality(Late) \in Nat
      /\ Cardinality(Late) <= Cardinality(Reserving(e))
  <2> DEFINE f == [c \in Reserving(e) |-> sess[c]]
  <2>1. f \in Surjection(Reserving(e), Late)
    BY DEF Surjection
  <2> HIDE DEF f, Late
  <2> QED
    BY <1>0, <2>1, FS_Surjection, FS_CardinalityType
<1>3. /\ IsFiniteSet(Owned(e) \cup Late) /\ Cardinality(Owned(e) \cup Late) \in Nat
      /\ Cardinality(Owned(e) \cup Late) <= Cardinality(Owned(e)) + Cardinality(Late)
  <2>1. /\ IsFiniteSet(Owned(e) \cap Late) /\ Cardinality(Owned(e) \cap Late) \in Nat
    BY <1>0, FS_Intersection, FS_CardinalityType
  <2>2. /\ IsFiniteSet(Owned(e) \cup Late)
        /\ Cardinality(Owned(e) \cup Late)
             = Cardinality(Owned(e)) + Cardinality(Late) - Cardinality(Owned(e) \cap Late)
    BY ONLY <1>0, <1>2, FS_Union
  <2> QED
    BY ONLY <1>0, <1>2, <2>1, <2>2, FS_CardinalityType
<1>4. Cardinality(OpenTo) \in Nat /\ Cardinality(OpenTo) <= Cardinality(Owned(e) \cup Late)
  BY <1>1, <1>3, FS_Subset, FS_CardinalityType
<1> QED
  BY ONLY <1>0, <1>2, <1>3, <1>4

(* The connections of the pool, over dials that fail, panic or come back    *)
(* after Pool.Close: the open ones never exceed MaxSessionsPerEndpoint, the *)
(* idle queue is exactly what nobody uses and within MaxIdleSessions, and   *)
(* each open connection has an owner that closes it (pool.go, acquire,      *)
(* dialNew, returnLocked, reclaimLocked, Close).                            *)
THEOREM ConnsAreAccounted == Spec => []ConnsAccounted
<1>1. BooksInv => ConnsAccounted
  <2> SUFFICES ASSUME BooksInv PROVE ConnsAccounted
    OBVIOUS
  <2>1. ASSUME MaxSessionsPerEndpoint > 0, NEW e \in Endpoints
        PROVE  Cardinality({s \in Sessions : conn[s] = "open" /\ epOf[s] = e})
                 <= MaxSessionsPerEndpoint
    <3>1. /\ Cardinality(Owned(e)) \in Nat /\ Cardinality(Reserving(e)) \in Nat
      BY Finite DEF BooksInv, LeaseInv
    <3>2. Cardinality(Owned(e)) + Cardinality(Reserving(e)) <= MaxSessionsPerEndpoint
      BY <2>1 DEF BooksInv, RoomKept
    <3>3. Cardinality({s \in Sessions : conn[s] = "open" /\ epOf[s] = e}) \in Nat
      BY PoolAssumption, FS_Subset, FS_CardinalityType
    <3>4. Cardinality({s \in Sessions : conn[s] = "open" /\ epOf[s] = e})
            <= Cardinality(Owned(e)) + Cardinality(Reserving(e))
      BY OpenIsRoom
    <3> QED
      BY <3>1, <3>2, <3>3, <3>4, PoolAssumption
  <2> QED
    BY <2>1 DEF BooksInv, ConnsAccounted, OpenConnsBounded
<1> QED
  BY <1>1, BooksInvariant, PTL

(* Reclaim, deadlines and the Release of others never close a connection    *)
(* under a call; one that OpenCall finds spent is closed by its only holder *)
(* (pool.go, reclaimLocked, returnLocked, OpenCall).                        *)
THEOREM NoCallLosesConn == Spec => NoCloseUnderCall
<1> DEFINE Kept == \A s \in Sessions :
                     conn[s] = "open" /\ conn'[s] = "closed" /\ ~closed =>
                       \A c \in Holders(s) : pc'[c] # pc[c]
<1>1. ASSUME BooksInv, [Next]_vars PROVE Kept
  <2> SUFFICES ASSUME NEW s \in Sessions, conn[s] = "open", conn'[s] = "closed", ~closed,
                      NEW d \in Holders(s)
               PROVE  pc'[d] # pc[d]
    OBVIOUS
  <2>0. /\ d \in Callers /\ sess[d] = s /\ pc[d] \in Leasing /\ TypeInv /\ CountsExact
        /\ s \in tracked /\ closing = {} /\ \A c \in Callers : pc[c] # "discard"
    BY <1>1 DEF Holders, BooksInv, LeaseInv, CountsExact, CloseShape
  <2>1. s \notin Reclaimable
    BY <2>0, CountMeansHolders DEF Reclaimable
  <2>2. conn' # conn
    OBVIOUS
  <2>3. ~\E c \in Callers : Reclaim(c)
    BY <2>1 DEF Reclaim, Discard, CloseConns
  <2>4. ~ReclaimTick
    BY <2>1 DEF ReclaimTick, Discard, CloseConns
  <2>5. ~PoolCloseConn
    BY <2>0 DEF PoolCloseConn
  <2>6. ~\E c \in Callers : CloseLateConn(c)
    BY <2>0 DEF CloseLateConn, Move
  <2>7. ~\E c \in Callers : DialOk(c)
    BY <2>0 DEF DialOk, TypeInv, TypeOK
  <2>8. ASSUME NEW c \in Callers, OpenCallSpent(c) PROVE pc'[d] # pc[d]
    <3>1. sess[c] = s /\ pc[c] = "opening" /\ pc' = [pc EXCEPT ![c] = "relRetry"] /\ CapPer = 1
      BY <2>8 DEF OpenCallSpent, Move, CloseConns
    <3>2. c \in Holders(s)
      BY <3>1 DEF Holders, Leasing
    <3>3. Holders(s) = {c}
      <4>1. Cardinality(Holders(s)) <= 1 /\ IsFiniteSet(Holders(s))
        BY <1>1, <3>1, HoldersFinite DEF BooksInv, LeaseInv, LeaseCap
      <4>2. refcount[s] = Cardinality(Holders(s)) /\ Cardinality(Holders(s)) \in Nat
        BY <2>0, <4>1, FS_CardinalityType DEF CountsExact
      <4>3. refcount[s] # 0
        BY <2>0, <3>2, CountMeansHolders
      <4>4. refcount[s] = 1
        BY ONLY <4>1, <4>2, <4>3
      <4> QED
        BY <2>0, <3>2, <4>4, CountMeansHolders
    <3> QED
      BY <2>0, <3>1, <3>3 DEF TypeInv, TypeOK
  <2>9. ASSUME NEW c \in Callers, Release(c) PROVE pc'[d] # pc[d]
    <3>1. c \in Callers /\ pc[c] \in {"relRetry", "relFail", "relDone"} /\ pc'[c] # pc[c]
      BY <2>0, <2>9 DEF Release, AfterRelease, Return, TypeInv, TypeOK
    <3>2. refcount[s] = 1 /\ sess[c] = s
      BY <2>0, <2>2, <2>9 DEF Release, ReturnConn, Discard, CloseConns, TypeInv, TypeOK
    <3>3. c \in Holders(s)
      BY <3>1, <3>2 DEF Holders, Leasing
    <3>4. Holders(s) = {c}
      BY <2>0, <3>2, <3>3, CountMeansHolders
    <3> QED
      BY <3>1, <3>4
  <2>10. CASE UNCHANGED vars
    BY <2>2, <2>10 DEF vars, connVars
  <2> QED
    BY <1>1, <2>2, <2>3, <2>4, <2>5, <2>6, <2>7, <2>8, <2>9, <2>10 DEF Next, CallerStep,
       Acquire, Dial, UseConn, connVars, Open, FindClosed, Lend, JoinFlight, Exhausted,
       WaiterRetries, StartDial, DialFail, DialPanic, DialPublish, DialTooLate, DialRetire,
       DialRecover, WaiterFails, WaiterCancelled, OpenCallOk, OpenCallBusy, OpenCallError,
       CloseCall, Cancel, PoolClose, ConnSpoils, LifetimePasses, IdleTimePasses
<1>2. BooksInv /\ [Next]_vars => [Kept]_vars
  BY <1>1
<1> QED
  BY <1>2, BooksInvariant, PTL DEF Spec, NoCloseUnderCall

=============================================================================
