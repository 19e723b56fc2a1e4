----------------------------- MODULE ServerProofs -----------------------------
(***************************************************************************)
(* Theorems about the server.  ServerConn, for every number of connections *)
(* and calls and every limit: the admission counters are exact, every call *)
(* is answered once and never with Canceled, a connection ends only behind *)
(* its calls, and no handler starts once the gate is closed.               *)
(* ServerLifecycle, for any number of Runs, Shutdowns, services and        *)
(* surfaces: at most one Run is under way and none follows one that        *)
(* launched, Run joins what it started, its result names what ended it,    *)
(* and the gate and the ctx it hands to its connections only ever end.     *)
(***************************************************************************)
EXTENDS ServerConn, ServerLifecycle, FiniteSetTheorems, TLAPS

(* TypeOK with the counters unbounded; their bounds follow from what they   *)
(* count.                                                                   *)
Types ==
  /\ concurrent \in Modes
  /\ active \in Int
  /\ cpc \in [Conns -> CPCs]
  /\ aged \subseteq Conns
  /\ connCause \in [Conns -> {"live", "expired", "canceled"}]
  /\ connErr \in [Conns -> {"none", "admit", "handshake", "accept"}]
  /\ reports \in [Conns -> Nat]
  /\ slots \in Int
  /\ gateClosed \in BOOLEAN
  /\ runDone \in BOOLEAN
  /\ kpc \in [Calls -> KPCs]
  /\ owner \in [Calls -> Conns \cup {None}]
  /\ callCtx \in [Calls -> Causes]
  /\ fin \in [Calls -> Statuses]
  /\ finishes \in [Calls -> Nat]

(* A connection is cancelled on its way out only, with a plain cancel when  *)
(* it is gone, and reports at most the failure that ended it.               *)
ConnOrder ==
  \A c \in Conns :
    /\ connCause[c] # "live" => cpc[c] \in {"draining", "gone"}
    /\ connCause[c] = "canceled" => cpc[c] = "gone"
    /\ cpc[c] # "gone" => reports[c] = 0
    /\ reports[c] <= 1

(* A call in flight arrived on a connection that is past its handshake and  *)
(* not gone: callWG keeps it.                                               *)
CallsHoused ==
  \A k \in Calls :
    kpc[k] \in Handling =>
      owner[k] \in Conns /\ cpc[owner[k]] \in {"accepting", "handling", "draining"}

(* Nothing cancels a handler plainly: connCancel(nil) and callCancel are    *)
(* deferred behind it.                                                      *)
NoPlainCancel ==
  \A k \in Calls : kpc[k] \in {"routing", "running"} => callCtx[k] # "canceled"

(* What is counted by lb.active, and what by admitGate.slots. *)
Counted == {c \in Conns : cpc[c] \in Serving \cup {"over"}}
Served  == {c \in Conns : cpc[c] \in Serving}
Holding == {k \in Calls : kpc[k] \in Admitted \cup {"recheck"}}

ActiveExact ==
  /\ active = Cardinality(Counted)
  /\ MaxInboundConns > 0 => Cardinality(Served) <= MaxInboundConns

SlotsExact ==
  /\ slots = IF Unlimited THEN 0 ELSE Cardinality(Holding)
  /\ slots <= MaxConcurrentCalls
  /\ Unlimited => \A k \in Calls : kpc[k] # "slot"

(* What a step does not do behind a closed gate. *)
NoneAdmitted ==
  gateClosed => \A k \in Calls : kpc[k] \notin Admitted => kpc'[k] \notin Admitted

CallInv == CallsHoused /\ NoPlainCancel /\ AnsweredOnce /\ AgeTold

ServerInv == Types /\ ConnOrder /\ CallInv /\ ActiveExact /\ SlotsExact

(***************************************************************************)
(* Types and the order of a connection's life                              *)
(***************************************************************************)

LEMMA TypesInit == Init => Types /\ ConnOrder /\ CallInv
<1> SUFFICES ASSUME Init PROVE Types /\ ConnOrder /\ CallInv
  OBVIOUS
<1>1. Types
  <2>1. concurrent \in Modes /\ active \in Int /\ slots \in Int
    BY DEF Init
  <2>2. gateClosed \in BOOLEAN /\ runDone \in BOOLEAN
    BY DEF Init
  <2>3. /\ cpc \in [Conns -> CPCs] /\ aged \subseteq Conns
        /\ connCause \in [Conns -> {"live", "expired", "canceled"}]
        /\ connErr \in [Conns -> {"none", "admit", "handshake", "accept"}]
        /\ reports \in [Conns -> Nat]
    BY DEF Init, CPCs
  <2>4. /\ kpc \in [Calls -> KPCs] /\ owner \in [Calls -> Conns \cup {None}]
        /\ callCtx \in [Calls -> Causes] /\ fin \in [Calls -> Statuses]
        /\ finishes \in [Calls -> Nat]
    BY DEF Init, KPCs, Causes, Statuses
  <2> QED
    BY <2>1, <2>2, <2>3, <2>4 DEF Types
<1>2. ConnOrder
  BY DEF Init, ConnOrder
<1>3. CallInv
  BY DEF Init, CallInv, CallsHoused, NoPlainCancel, AnsweredOnce, AgeTold, Handling
<1> QED
  BY <1>1, <1>2, <1>3

LEMMA TypesStep == Types /\ CallsHoused /\ [Next]_vars => Types'
<1> SUFFICES ASSUME Types, CallsHoused, [Next]_vars PROVE Types'
  OBVIOUS
<1> USE DEF Types, CPCs, KPCs, Serving, Handling, Causes, Statuses, connVars, gateVars, callVars
<1>1. ASSUME NEW c \in Conns, Enter(c) PROVE Types'
  BY <1>1 DEF Enter
<1>2. ASSUME NEW c \in Conns, RefuseConn(c) PROVE Types'
  BY <1>2 DEF RefuseConn, LeaveConn, GoConn, Report
<1>3. ASSUME NEW c \in Conns, CheckRun(c) PROVE Types'
  BY <1>3 DEF CheckRun, LeaveConn, GoConn
<1>4. ASSUME NEW c \in Conns, HandshakeOk(c) PROVE Types'
  BY <1>4 DEF HandshakeOk, GoConn
<1>5. ASSUME NEW c \in Conns, HandshakeFails(c) PROVE Types'
  BY <1>5 DEF HandshakeFails, LeaveConn, GoConn, Report
<1>6. ASSUME NEW c \in Conns, AgeTimer(c) PROVE Types'
  BY <1>6 DEF AgeTimer
<1>7. ASSUME NEW c \in Conns, AcceptCall(c) PROVE Types'
  BY <1>7 DEF AcceptCall, GoConn, AfterDispatch
<1>8. ASSUME NEW c \in Conns, NextCall(c) PROVE Types'
  BY <1>8 DEF NextCall, GoConn
<1>9. ASSUME NEW c \in Conns, AcceptRejected(c) PROVE Types'
  BY <1>9 DEF AcceptRejected
<1>10. ASSUME NEW c \in Conns, AcceptEOF(c) PROVE Types'
  BY <1>10 DEF AcceptEOF, GoConn
<1>11. ASSUME NEW c \in Conns, AcceptWoken(c) PROVE Types'
  BY <1>11 DEF AcceptWoken, ExitLoop, GoConn, CancelConn
<1>12. ASSUME NEW c \in Conns, AcceptError(c) PROVE Types'
  BY <1>12 DEF AcceptError, ExitLoop, GoConn, CancelConn
<1>13. ASSUME NEW c \in Conns, Drain(c) PROVE Types'
  BY <1>13 DEF Drain, LeaveConn, GoConn, CancelConn, Drained
<1>14. ASSUME NEW k \in Calls, Admit(k) PROVE Types'
  BY <1>14 DEF Admit, Refuse, GoCall, Finish
<1>15. ASSUME NEW k \in Calls, TakeSlot(k) PROVE Types'
  BY <1>15 DEF TakeSlot, Refuse, GoCall, Finish
<1>16. ASSUME NEW k \in Calls, Recheck(k) PROVE Types'
  BY <1>16 DEF Recheck, Refuse, GoCall, Finish, GiveSlot, CallsHoused
<1>17. ASSUME NEW k \in Calls, RouteFails(k) PROVE Types'
  BY <1>17 DEF RouteFails, GoCall, Finish
<1>18. ASSUME NEW k \in Calls, RouteOk(k) PROVE Types'
  BY <1>18 DEF RouteOk, GoCall
<1>19. ASSUME NEW k \in Calls, HandlerReturns(k) PROVE Types'
  BY <1>19 DEF HandlerReturns, GoCall, Finish, FinishError, StatusFromContext
<1>20. ASSUME NEW k \in Calls, ReleaseSlot(k) PROVE Types'
  BY <1>20 DEF ReleaseSlot, GoCall, GiveSlot
<1>21. ASSUME NEW k \in Calls, CloseCall(k) PROVE Types'
  BY <1>21 DEF CloseCall, GoCall
<1>22. ASSUME NEW k \in Calls, DeadlinePasses(k) PROVE Types'
  BY <1>22 DEF DeadlinePasses
<1>23. CASE GateCloses
  BY <1>23 DEF GateCloses
<1>24. CASE RunEnds
  BY <1>24 DEF RunEnds
<1>25. CASE UNCHANGED vars
  BY <1>25 DEF vars
<1> QED
  BY <1>1, <1>2, <1>3, <1>4, <1>5, <1>6, <1>7, <1>8, <1>9, <1>10, <1>11, <1>12, <1>13,
      <1>14, <1>15, <1>16, <1>17, <1>18, <1>19, <1>20, <1>21, <1>22, <1>23, <1>24, <1>25
  DEF Next, Loop, HandleCall

(* A connection is cancelled when it leaves its loop because of its age, or *)
(* when it is gone.                                                         *)
LEMMA ConnOrderStep == Types /\ ConnOrder /\ [Next]_vars => ConnOrder'
<1> SUFFICES ASSUME Types, ConnOrder, [Next]_vars PROVE ConnOrder'
  OBVIOUS
<1> USE DEF Types, ConnOrder, CPCs, Serving, connVars, gateVars, callVars
<1>1. ASSUME NEW c \in Conns, Enter(c) PROVE ConnOrder'
  BY <1>1 DEF Enter
<1>2. ASSUME NEW c \in Conns, RefuseConn(c) PROVE ConnOrder'
  BY <1>2 DEF RefuseConn, LeaveConn, GoConn, Report
<1>3. ASSUME NEW c \in Conns, CheckRun(c) PROVE ConnOrder'
  BY <1>3 DEF CheckRun, LeaveConn, GoConn
<1>4. ASSUME NEW c \in Conns, HandshakeOk(c) PROVE ConnOrder'
  BY <1>4 DEF HandshakeOk, GoConn
<1>5. ASSUME NEW c \in Conns, HandshakeFails(c) PROVE ConnOrder'
  BY <1>5 DEF HandshakeFails, LeaveConn, GoConn, Report
<1>6. ASSUME NEW c \in Conns, AgeTimer(c) PROVE ConnOrder'
  BY <1>6 DEF AgeTimer
<1>7. ASSUME NEW c \in Conns, AcceptCall(c) PROVE ConnOrder'
  BY <1>7 DEF AcceptCall, GoConn, AfterDispatch
<1>8. ASSUME NEW c \in Conns, NextCall(c) PROVE ConnOrder'
  BY <1>8 DEF NextCall, GoConn
<1>9. ASSUME NEW c \in Conns, AcceptRejected(c) PROVE ConnOrder'
  BY <1>9 DEF AcceptRejected
<1>10. ASSUME NEW c \in Conns, AcceptEOF(c) PROVE ConnOrder'
  BY <1>10 DEF AcceptEOF, GoConn
<1>11. ASSUME NEW c \in Conns, AcceptWoken(c) PROVE ConnOrder'
  BY <1>11 DEF AcceptWoken, ExitLoop, GoConn, CancelConn
<1>12. ASSUME NEW c \in Conns, AcceptError(c) PROVE ConnOrder'
  BY <1>12 DEF AcceptError, ExitLoop, GoConn, CancelConn
<1>13. ASSUME NEW c \in Conns, Drain(c) PROVE ConnOrder'
  BY <1>13 DEF Drain, LeaveConn, GoConn, CancelConn, Drained
<1>14. ASSUME NEW k \in Calls, Admit(k) PROVE ConnOrder'
  BY <1>14 DEF Admit, Refuse, GoCall, Finish
<1>15. ASSUME NEW k \in Calls, TakeSlot(k) PROVE ConnOrder'
  BY <1>15 DEF TakeSlot, Refuse, GoCall, Finish
<1>16. ASSUME NEW k \in Calls, Recheck(k) PROVE ConnOrder'
  BY <1>16 DEF Recheck, Refuse, GoCall, Finish, GiveSlot
<1>17. ASSUME NEW k \in Calls, RouteFails(k) PROVE ConnOrder'
  BY <1>17 DEF RouteFails, GoCall, Finish
<1>18. ASSUME NEW k \in Calls, RouteOk(k) PROVE ConnOrder'
  BY <1>18 DEF RouteOk, GoCall
<1>19. ASSUME NEW k \in Calls, HandlerReturns(k) PROVE ConnOrder'
  BY <1>19 DEF HandlerReturns, GoCall, Finish, FinishError, StatusFromContext
<1>20. ASSUME NEW k \in Calls, ReleaseSlot(k) PROVE ConnOrder'
  BY <1>20 DEF ReleaseSlot, GoCall, GiveSlot
<1>21. ASSUME NEW k \in Calls, CloseCall(k) PROVE ConnOrder'
  BY <1>21 DEF CloseCall, GoCall
<1>22. ASSUME NEW k \in Calls, DeadlinePasses(k) PROVE ConnOrder'
  BY <1>22 DEF DeadlinePasses
<1>23. CASE GateCloses
  BY <1>23 DEF GateCloses
<1>24. CASE RunEnds
  BY <1>24 DEF RunEnds
<1>25. CASE UNCHANGED vars
  BY <1>25 DEF vars
<1> QED
  BY <1>1, <1>2, <1>3, <1>4, <1>5, <1>6, <1>7, <1>8, <1>9, <1>10, <1>11, <1>12, <1>13,
      <1>14, <1>15, <1>16, <1>17, <1>18, <1>19, <1>20, <1>21, <1>22, <1>23, <1>24, <1>25
  DEF Next, Loop, HandleCall

(***************************************************************************)
(* Calls                                                                   *)
(***************************************************************************)

LEMMA CallStep == Types /\ ConnOrder /\ CallInv /\ [Next]_vars => CallInv'
<1> SUFFICES ASSUME Types, ConnOrder, CallInv, [Next]_vars PROVE CallInv'
  OBVIOUS
<1> USE DEF Types, CallInv, CallsHoused, NoPlainCancel, AnsweredOnce, AgeTold, InFlight, CallsOf,
            CPCs, KPCs, Serving, Handling, Admitted, Causes, Statuses, connVars, gateVars, callVars
<1>1. ASSUME NEW c \in Conns, Enter(c) PROVE CallInv'
  BY <1>1 DEF Enter
<1>2. ASSUME NEW c \in Conns, RefuseConn(c) PROVE CallInv'
  BY <1>2 DEF RefuseConn, LeaveConn, GoConn, Report
<1>3. ASSUME NEW c \in Conns, CheckRun(c) PROVE CallInv'
  BY <1>3 DEF CheckRun, LeaveConn, GoConn
<1>4. ASSUME NEW c \in Conns, HandshakeOk(c) PROVE CallInv'
  BY <1>4 DEF HandshakeOk, GoConn
<1>5. ASSUME NEW c \in Conns, HandshakeFails(c) PROVE CallInv'
  BY <1>5 DEF HandshakeFails, LeaveConn, GoConn, Report
<1>6. ASSUME NEW c \in Conns, AgeTimer(c) PROVE CallInv'
  BY <1>6 DEF AgeTimer
<1>7. ASSUME NEW c \in Conns, AcceptCall(c) PROVE CallInv'
  BY <1>7 DEF AcceptCall, GoConn, AfterDispatch
<1>8. ASSUME NEW c \in Conns, NextCall(c) PROVE CallInv'
  BY <1>8 DEF NextCall, GoConn
<1>9. ASSUME NEW c \in Conns, AcceptRejected(c) PROVE CallInv'
  BY <1>9 DEF AcceptRejected
<1>10. ASSUME NEW c \in Conns, AcceptEOF(c) PROVE CallInv'
  BY <1>10 DEF AcceptEOF, GoConn
<1>11. ASSUME NEW c \in Conns, AcceptWoken(c) PROVE CallInv'
  BY <1>11 DEF AcceptWoken, ExitLoop, GoConn, CancelConn
<1>12. ASSUME NEW c \in Conns, AcceptError(c) PROVE CallInv'
  BY <1>12 DEF AcceptError, ExitLoop, GoConn, CancelConn
<1>13. ASSUME NEW c \in Conns, Drain(c) PROVE CallInv'
  BY <1>13 DEF Drain, LeaveConn, GoConn, CancelConn, Drained
<1>14. ASSUME NEW k \in Calls, Admit(k) PROVE CallInv'
  BY <1>14 DEF Admit, Refuse, GoCall, Finish
<1>15. ASSUME NEW k \in Calls, TakeSlot(k) PROVE CallInv'
  BY <1>15 DEF TakeSlot, Refuse, GoCall, Finish
<1>16. ASSUME NEW k \in Calls, Recheck(k) PROVE CallInv'
  BY <1>16 DEF Recheck, Refuse, GoCall, Finish, GiveSlot, ConnOrder
<1>17. ASSUME NEW k \in Calls, RouteFails(k) PROVE CallInv'
  BY <1>17 DEF RouteFails, GoCall, Finish
<1>18. ASSUME NEW k \in Calls, RouteOk(k) PROVE CallInv'
  BY <1>18 DEF RouteOk, GoCall
<1>19. ASSUME NEW k \in Calls, HandlerReturns(k) PROVE CallInv'
  BY <1>19 DEF HandlerReturns, GoCall, Finish, FinishError, StatusFromContext
<1>20. ASSUME NEW k \in Calls, ReleaseSlot(k) PROVE CallInv'
  BY <1>20 DEF ReleaseSlot, GoCall, GiveSlot
<1>21. ASSUME NEW k \in Calls, CloseCall(k) PROVE CallInv'
  BY <1>21 DEF CloseCall, GoCall
<1>22. ASSUME NEW k \in Calls, DeadlinePasses(k) PROVE CallInv'
  BY <1>22 DEF DeadlinePasses
<1>23. CASE GateCloses
  BY <1>23 DEF GateCloses
<1>24. CASE RunEnds
  BY <1>24 DEF RunEnds
<1>25. CASE UNCHANGED vars
  BY <1>25 DEF vars
<1> QED
  BY <1>1, <1>2, <1>3, <1>4, <1>5, <1>6, <1>7, <1>8, <1>9, <1>10, <1>11, <1>12, <1>13,
      <1>14, <1>15, <1>16, <1>17, <1>18, <1>19, <1>20, <1>21, <1>22, <1>23, <1>24, <1>25
  DEF Next, Loop, HandleCall

(***************************************************************************)
(* The connection counter                                                  *)
(***************************************************************************)

(* The counted connections are finitely many, so they can be counted. *)
LEMMA CountedFinite ==
  /\ IsFiniteSet(Counted) /\ Cardinality(Counted) \in Nat
  /\ IsFiniteSet(Served) /\ Cardinality(Served) \in Nat
  /\ Served \subseteq Counted
<1>1. Counted \subseteq Conns /\ Served \subseteq Conns /\ Served \subseteq Counted
  BY DEF Counted, Served
<1> QED
  BY <1>1, FS_Subset, FS_CardinalityType, ServerConnAssumption

(* A step that moves no connection into or out of the count keeps it exact. *)
LEMMA ActiveKept ==
  ASSUME ActiveExact, active' = active,
         \A c \in Conns : /\ cpc'[c] \in Serving <=> cpc[c] \in Serving
                          /\ cpc'[c] = "over" <=> cpc[c] = "over"
  PROVE  ActiveExact'
<1>1. Counted' = Counted /\ Served' = Served
  BY DEF Counted, Served
<1> QED
  BY <1>1 DEF ActiveExact

(* onConn's Add(1): the connection it serves or refuses is counted, and it  *)
(* is served only within the limit.                                         *)
LEMMA ActiveEnters ==
  ASSUME Types, ActiveExact, NEW c \in Conns, Enter(c)
  PROVE  ActiveExact'
<1>1. c \notin Counted /\ Counted' = Counted \cup {c}
  BY DEF Enter, Counted, Serving, Types
<1>2. Cardinality(Counted') = active + 1 /\ active' = active + 1 /\ active \in Nat
  BY <1>1, CountedFinite, FS_AddElement DEF ActiveExact, Enter
<1>3. CASE OverLimit(active + 1)
  <2>1. Served' = Served
    BY <1>3 DEF Enter, Served, Serving, Types
  <2> QED
    BY <1>2, <2>1 DEF ActiveExact
<1>4. CASE ~OverLimit(active + 1)
  <2>1. Served' \subseteq Counted' /\ IsFiniteSet(Counted')
    BY <1>1, CountedFinite, FS_AddElement DEF Served, Counted
  <2>2. Cardinality(Served') <= Cardinality(Counted')
    BY <2>1, FS_Subset
  <2>3. Cardinality(Served') \in Nat
    BY <2>1, FS_Subset, FS_CardinalityType
  <2> QED
    BY <1>2, <1>4, <2>2, <2>3, ServerConnAssumption DEF ActiveExact, OverLimit
<1> QED
  BY <1>3, <1>4

(* onConn's deferred Add(-1). *)
LEMMA ActiveLeaves ==
  ASSUME Types, ActiveExact, NEW c \in Conns, NEW from, LeaveConn(c, from),
         from \in Serving \cup {"over"}
  PROVE  ActiveExact'
<1>1. c \in Counted /\ Counted' = Counted \ {c} /\ Served' \subseteq Served
  BY DEF LeaveConn, GoConn, Counted, Served, Serving, Types
<1>2. Cardinality(Counted') = active - 1 /\ active' = active - 1
  BY <1>1, CountedFinite, FS_RemoveElement DEF ActiveExact, LeaveConn
<1>3. Cardinality(Served') <= Cardinality(Served) /\ Cardinality(Served') \in Nat
  BY <1>1, CountedFinite, FS_Subset, FS_CardinalityType
<1> QED
  BY <1>2, <1>3, CountedFinite, ServerConnAssumption DEF ActiveExact

LEMMA ActiveStep == Types /\ ActiveExact /\ [Next]_vars => ActiveExact'
<1> SUFFICES ASSUME Types, ActiveExact, [Next]_vars PROVE ActiveExact'
  OBVIOUS
<1>1. ASSUME NEW c \in Conns, Enter(c) PROVE ActiveExact'
  BY <1>1, ActiveEnters
<1>2. ASSUME NEW c \in Conns, RefuseConn(c) PROVE ActiveExact'
  BY <1>2, ActiveLeaves DEF RefuseConn
<1>3. ASSUME NEW c \in Conns, CheckRun(c) PROVE ActiveExact'
  <2>1. CASE runDone /\ LeaveConn(c, "check")
    BY <2>1, ActiveLeaves DEF Serving
  <2>2. CASE GoConn(c, "check", "handshake") /\ UNCHANGED active
    BY <2>2, ActiveKept DEF GoConn, Serving, Types
  <2> QED
    BY <1>3, <2>1, <2>2 DEF CheckRun
<1>4. ASSUME NEW c \in Conns, HandshakeOk(c) PROVE ActiveExact'
  BY <1>4, ActiveKept DEF HandshakeOk, GoConn, connVars, gateVars, callVars, Serving, Types
<1>5. ASSUME NEW c \in Conns, HandshakeFails(c) PROVE ActiveExact'
  BY <1>5, ActiveLeaves DEF HandshakeFails, Serving
<1>6. ASSUME NEW c \in Conns, AgeTimer(c) PROVE ActiveExact'
  BY <1>6, ActiveKept DEF AgeTimer, connVars, gateVars, callVars, Serving, Types
<1>7. ASSUME NEW c \in Conns, AcceptCall(c) PROVE ActiveExact'
  BY <1>7, ActiveKept DEF AcceptCall, GoConn, AfterDispatch, connVars, gateVars, callVars,
      Serving, Types
<1>8. ASSUME NEW c \in Conns, NextCall(c) PROVE ActiveExact'
  BY <1>8, ActiveKept DEF NextCall, GoConn, connVars, gateVars, callVars, Serving, Types
<1>9. ASSUME NEW c \in Conns, AcceptRejected(c) PROVE ActiveExact'
  BY <1>9, ActiveKept DEF AcceptRejected, connVars, gateVars, callVars, Serving, Types
<1>10. ASSUME NEW c \in Conns, AcceptEOF(c) PROVE ActiveExact'
  BY <1>10, ActiveKept DEF AcceptEOF, GoConn, connVars, gateVars, callVars, Serving, Types
<1>11. ASSUME NEW c \in Conns, AcceptWoken(c) PROVE ActiveExact'
  BY <1>11, ActiveKept DEF AcceptWoken, ExitLoop, GoConn, CancelConn, connVars, gateVars,
      callVars, Serving, Types
<1>12. ASSUME NEW c \in Conns, AcceptError(c) PROVE ActiveExact'
  BY <1>12, ActiveKept DEF AcceptError, ExitLoop, GoConn, CancelConn, connVars, gateVars,
      callVars, Serving, Types
<1>13. ASSUME NEW c \in Conns, Drain(c) PROVE ActiveExact'
  BY <1>13, ActiveLeaves DEF Drain, Serving
<1>14. ASSUME NEW k \in Calls, Admit(k) PROVE ActiveExact'
  BY <1>14, ActiveKept DEF Admit, Refuse, GoCall, Finish, connVars, gateVars, callVars,
      Serving, Types
<1>15. ASSUME NEW k \in Calls, TakeSlot(k) PROVE ActiveExact'
  BY <1>15, ActiveKept DEF TakeSlot, Refuse, GoCall, Finish, connVars, gateVars, callVars,
      Serving, Types
<1>16. ASSUME NEW k \in Calls, Recheck(k) PROVE ActiveExact'
  BY <1>16, ActiveKept DEF Recheck, Refuse, GoCall, Finish, GiveSlot, connVars, gateVars,
      callVars, Serving, Types
<1>17. ASSUME NEW k \in Calls, RouteFails(k) PROVE ActiveExact'
  BY <1>17, ActiveKept DEF RouteFails, GoCall, Finish, connVars, gateVars, callVars,
      Serving, Types
<1>18. ASSUME NEW k \in Calls, RouteOk(k) PROVE ActiveExact'
  BY <1>18, ActiveKept DEF RouteOk, GoCall, connVars, gateVars, callVars, Serving, Types
<1>19. ASSUME NEW k \in Calls, HandlerReturns(k) PROVE ActiveExact'
  BY <1>19, ActiveKept DEF HandlerReturns, GoCall, Finish, FinishError, StatusFromContext,
      connVars, gateVars, callVars, Serving, Types
<1>20. ASSUME NEW k \in Calls, ReleaseSlot(k) PROVE ActiveExact'
  BY <1>20, ActiveKept DEF ReleaseSlot, GoCall, GiveSlot, connVars, gateVars, callVars,
      Serving, Types
<1>21. ASSUME NEW k \in Calls, CloseCall(k) PROVE ActiveExact'
  BY <1>21, ActiveKept DEF CloseCall, GoCall, connVars, gateVars, callVars, Serving, Types
<1>22. ASSUME NEW k \in Calls, DeadlinePasses(k) PROVE ActiveExact'
  BY <1>22, ActiveKept DEF DeadlinePasses, connVars, gateVars, callVars, Serving, Types
<1>23. CASE GateCloses
  BY <1>23, ActiveKept DEF GateCloses, connVars, gateVars, callVars, Serving, Types
<1>24. CASE RunEnds
  BY <1>24, ActiveKept DEF RunEnds, connVars, gateVars, callVars, Serving, Types
<1>25. CASE UNCHANGED vars
  BY <1>25, ActiveKept DEF vars, connVars, gateVars, callVars, Serving, Types
<1> QED
  BY <1>1, <1>2, <1>3, <1>4, <1>5, <1>6, <1>7, <1>8, <1>9, <1>10, <1>11, <1>12, <1>13,
      <1>14, <1>15, <1>16, <1>17, <1>18, <1>19, <1>20, <1>21, <1>22, <1>23, <1>24, <1>25
  DEF Next, Loop, HandleCall

(***************************************************************************)
(* The call slots                                                          *)
(***************************************************************************)

LEMMA HoldingFinite == IsFiniteSet(Holding) /\ Cardinality(Holding) \in Nat
<1>1. Holding \subseteq Calls
  BY DEF Holding
<1> QED
  BY <1>1, FS_Subset, FS_CardinalityType, ServerConnAssumption

(* A step that moves no call into or out of its slot keeps the slots exact. *)
LEMMA SlotsKept ==
  ASSUME SlotsExact, slots' = slots,
         \A k \in Calls : /\ kpc'[k] \in Admitted \cup {"recheck"} <=> kpc[k] \in Admitted \cup {"recheck"}
                          /\ kpc'[k] = "slot" /\ Unlimited => kpc[k] = "slot"
  PROVE  SlotsExact'
<1>1. Holding' = Holding
  BY DEF Holding
<1> QED
  BY <1>1 DEF SlotsExact, Unlimited

(* Without a limit the first look at closed leads straight to the second. *)
LEMMA SlotsAdmit ==
  ASSUME Types, SlotsExact, NEW k \in Calls, Admit(k)
  PROVE  SlotsExact'
<1>1. CASE Unlimited
  <2>1. slots' = slots /\ \A j \in Calls : kpc'[j] # "slot"
    BY <1>1 DEF Admit, Refuse, GoCall, SlotsExact, gateVars, Types
  <2> QED
    BY <1>1, <2>1 DEF SlotsExact, Unlimited
<1>2. CASE ~Unlimited
  BY <1>2, SlotsKept DEF Admit, Refuse, GoCall, gateVars, Types, Admitted
<1> QED
  BY <1>1, <1>2

(* The non-blocking send succeeds below the capacity only. *)
LEMMA SlotsTaken ==
  ASSUME Types, SlotsExact, NEW k \in Calls, TakeSlot(k)
  PROVE  SlotsExact'
<1>1. CASE SlotFree /\ GoCall(k, "slot", "recheck") /\ slots' = slots + 1
  <2>1. ~Unlimited
    BY <1>1 DEF GoCall, SlotsExact
  <2>2. k \notin Holding /\ Holding' = Holding \cup {k}
    BY <1>1 DEF GoCall, Holding, Admitted, Types
  <2>3. Cardinality(Holding') = slots + 1
    BY <2>1, <2>2, HoldingFinite, FS_AddElement DEF SlotsExact
  <2>4. \A j \in Calls : Unlimited => kpc'[j] # "slot"
    BY <2>1
  <2> QED
    BY <1>1, <2>1, <2>3, <2>4, ServerConnAssumption DEF SlotsExact, SlotFree, Unlimited, Types
<1>2. CASE Refuse(k, "slot") /\ UNCHANGED slots
  BY <1>2, SlotsKept DEF Refuse, GoCall, Admitted, Types
<1> QED
  BY <1>1, <1>2 DEF TakeSlot

(* release, and tryAdmit's own give-back: one token for one holder. *)
LEMMA SlotsGiven ==
  ASSUME Types, SlotsExact, NEW k \in Calls, NEW from, from \in Admitted \cup {"recheck"},
         GoCall(k, from, "released"), GiveSlot
  PROVE  SlotsExact'
<1>1. k \in Holding /\ Holding' = Holding \ {k}
  BY DEF GoCall, Holding, Admitted, Types
<1>2. Cardinality(Holding') = Cardinality(Holding) - 1
  BY <1>1, HoldingFinite, FS_RemoveElement
<1>3. \A j \in Calls : kpc'[j] = "slot" => kpc[j] = "slot"
  BY DEF GoCall, Types
<1> QED
  BY <1>2, <1>3, HoldingFinite, ServerConnAssumption DEF SlotsExact, GiveSlot, Unlimited, Types

LEMMA SlotsStep == Types /\ SlotsExact /\ [Next]_vars => SlotsExact'
<1> SUFFICES ASSUME Types, SlotsExact, [Next]_vars PROVE SlotsExact'
  OBVIOUS
<1>1. ASSUME NEW c \in Conns, Enter(c) PROVE SlotsExact'
  BY <1>1, SlotsKept DEF Enter, connVars, gateVars, callVars, Admitted, Types
<1>2. ASSUME NEW c \in Conns, RefuseConn(c) PROVE SlotsExact'
  BY <1>2, SlotsKept DEF RefuseConn, LeaveConn, GoConn, Report, connVars, gateVars,
      callVars, Admitted, Types
<1>3. ASSUME NEW c \in Conns, CheckRun(c) PROVE SlotsExact'
  BY <1>3, SlotsKept DEF CheckRun, LeaveConn, GoConn, connVars, gateVars, callVars,
      Admitted, Types
<1>4. ASSUME NEW c \in Conns, HandshakeOk(c) PROVE SlotsExact'
  BY <1>4, SlotsKept DEF HandshakeOk, GoConn, connVars, gateVars, callVars, Admitted, Types
<1>5. ASSUME NEW c \in Conns, HandshakeFails(c) PROVE SlotsExact'
  BY <1>5, SlotsKept DEF HandshakeFails, LeaveConn, GoConn, Report, connVars, gateVars,
      callVars, Admitted, Types
<1>6. ASSUME NEW c \in Conns, AgeTimer(c) PROVE SlotsExact'
  BY <1>6, SlotsKept DEF AgeTimer, connVars, gateVars, callVars, Admitted, Types
<1>7. ASSUME NEW c \in Conns, AcceptCall(c) PROVE SlotsExact'
  BY <1>7, SlotsKept DEF AcceptCall, GoConn, AfterDispatch, connVars, gateVars, callVars,
      Admitted, Types
<1>8. ASSUME NEW c \in Conns, NextCall(c) PROVE SlotsExact'
  BY <1>8, SlotsKept DEF NextCall, GoConn, connVars, gateVars, callVars, Admitted, Types
<1>9. ASSUME NEW c \in Conns, AcceptRejected(c) PROVE SlotsExact'
  BY <1>9, SlotsKept DEF AcceptRejected, connVars, gateVars, callVars, Admitted, Types
<1>10. ASSUME NEW c \in Conns, AcceptEOF(c) PROVE SlotsExact'
  BY <1>10, SlotsKept DEF AcceptEOF, GoConn, connVars, gateVars, callVars, Admitted, Types
<1>11. ASSUME NEW c \in Conns, AcceptWoken(c) PROVE SlotsExact'
  BY <1>11, SlotsKept DEF AcceptWoken, ExitLoop, GoConn, CancelConn, connVars, gateVars,
      callVars, Admitted, Types
<1>12. ASSUME NEW c \in Conns, AcceptError(c) PROVE SlotsExact'
  BY <1>12, SlotsKept DEF AcceptError, ExitLoop, GoConn, CancelConn, connVars, gateVars,
      callVars, Admitted, Types
<1>13. ASSUME NEW c \in Conns, Drain(c) PROVE SlotsExact'
  BY <1>13, SlotsKept DEF Drain, LeaveConn, GoConn, CancelConn, Drained, connVars, gateVars,
      callVars, Admitted, Types
<1>14. ASSUME NEW k \in Calls, Admit(k) PROVE SlotsExact'
  BY <1>14, SlotsAdmit
<1>15. ASSUME NEW k \in Calls, TakeSlot(k) PROVE SlotsExact'
  BY <1>15, SlotsTaken
<1>16. ASSUME NEW k \in Calls, Recheck(k) PROVE SlotsExact'
  <2>1. CASE Refuse(k, "recheck") /\ GiveSlot
    BY <2>1, SlotsGiven DEF Refuse
  <2>2. CASE GoCall(k, "recheck", "routing") /\ UNCHANGED slots
    BY <2>2, SlotsKept DEF GoCall, Admitted, Types
  <2> QED
    BY <1>16, <2>1, <2>2 DEF Recheck
<1>17. ASSUME NEW k \in Calls, RouteFails(k) PROVE SlotsExact'
  BY <1>17, SlotsKept DEF RouteFails, GoCall, Finish, connVars, gateVars, callVars,
      Admitted, Types
<1>18. ASSUME NEW k \in Calls, RouteOk(k) PROVE SlotsExact'
  BY <1>18, SlotsKept DEF RouteOk, GoCall, connVars, gateVars, callVars, Admitted, Types
<1>19. ASSUME NEW k \in Calls, HandlerReturns(k) PROVE SlotsExact'
  BY <1>19, SlotsKept DEF HandlerReturns, GoCall, Finish, FinishError, StatusFromContext,
      connVars, gateVars, callVars, Admitted, Types
<1>20. ASSUME NEW k \in Calls, ReleaseSlot(k) PROVE SlotsExact'
  BY <1>20, SlotsGiven DEF ReleaseSlot, Admitted
<1>21. ASSUME NEW k \in Calls, CloseCall(k) PROVE SlotsExact'
  BY <1>21, SlotsKept DEF CloseCall, GoCall, connVars, gateVars, callVars, Admitted, Types
<1>22. ASSUME NEW k \in Calls, DeadlinePasses(k) PROVE SlotsExact'
  BY <1>22, SlotsKept DEF DeadlinePasses, connVars, gateVars, callVars, Admitted, Types
<1>23. CASE GateCloses
  BY <1>23, SlotsKept DEF GateCloses, connVars, gateVars, callVars, Admitted, Types
<1>24. CASE RunEnds
  BY <1>24, SlotsKept DEF RunEnds, connVars, gateVars, callVars, Admitted, Types
<1>25. CASE UNCHANGED vars
  BY <1>25, SlotsKept DEF vars, connVars, gateVars, callVars, Admitted, Types
<1> QED
  BY <1>1, <1>2, <1>3, <1>4, <1>5, <1>6, <1>7, <1>8, <1>9, <1>10, <1>11, <1>12, <1>13,
      <1>14, <1>15, <1>16, <1>17, <1>18, <1>19, <1>20, <1>21, <1>22, <1>23, <1>24, <1>25
  DEF Next, Loop, HandleCall

(***************************************************************************)
(* The invariant and the theorems                                          *)
(***************************************************************************)

LEMMA ServerInit == Init => ServerInv
<1> SUFFICES ASSUME Init PROVE ServerInv
  OBVIOUS
<1>1. Counted = {} /\ Served = {} /\ Holding = {}
  BY DEF Init, Counted, Served, Holding, Serving, Admitted
<1>2. ActiveExact /\ SlotsExact
  BY <1>1, FS_EmptySet, ServerConnAssumption DEF Init, ActiveExact, SlotsExact
<1> QED
  BY <1>2, TypesInit DEF ServerInv

LEMMA ServerInvariant == Spec => []ServerInv
<1>1. ServerInv /\ [Next]_vars => ServerInv'
  BY TypesStep, ConnOrderStep, CallStep, ActiveStep, SlotsStep DEF ServerInv, CallInv
<1> QED
  BY <1>1, ServerInit, PTL DEF Spec

(* lb.active counts exactly the connections between onConn's two Adds, at   *)
(* most MaxInboundConns are served, and admitGate.slots holds one token for *)
(* exactly the calls past tryAdmit's send (conn.go, admit.go).              *)
THEOREM AdmissionIsExact == Spec => []AdmissionExact
<1>1. ServerInv => AdmissionExact
  <2> SUFFICES ASSUME ServerInv PROVE AdmissionExact
    OBVIOUS
  <2>1. active \in 0..Cardinality(Conns)
    <3>1. Counted \subseteq Conns
      BY DEF Counted
    <3> QED
      BY <3>1, CountedFinite, FS_Subset, FS_CardinalityType, ServerConnAssumption
      DEF ServerInv, ActiveExact
  <2>2. slots \in 0..MaxConcurrentCalls
    BY HoldingFinite, ServerConnAssumption DEF ServerInv, SlotsExact
  <2>3. reports \in [Conns -> 0..1] /\ finishes \in [Calls -> 0..1]
    BY DEF ServerInv, CallInv, Types, ConnOrder, AnsweredOnce
  <2>4. TypeOK
    BY <2>1, <2>2, <2>3 DEF ServerInv, Types, TypeOK
  <2> QED
    BY <2>4 DEF ServerInv, ActiveExact, SlotsExact, AdmissionExact, Counted, Served, Holding
<1> QED
  BY <1>1, ServerInvariant, PTL

(* Every path of handleCall calls Finish once, and no status is Canceled    *)
(* (conn.go, statusmap.go).                                                 *)
THEOREM CallsAnsweredOnce == Spec => []AnsweredOnce
<1>1. ServerInv => AnsweredOnce
  BY DEF ServerInv, CallInv
<1> QED
  BY <1>1, ServerInvariant, PTL

(* A connection is closed behind all its calls, and one that aged has told  *)
(* each of them to stop (conn.go, the deferred tail of onConn).             *)
THEOREM DrainIsSound == Spec => []DrainSound
<1>1. ServerInv => DrainSound
  BY DEF ServerInv, CallInv, CallsHoused, DrainSound, NoCallOnGoneConn, InFlight, CallsOf
<1> QED
  BY <1>1, ServerInvariant, PTL

(* With the gate closed no call gets past tryAdmit. *)
LEMMA ClosedGateStep == Types /\ [Next]_vars => NoneAdmitted
<1> SUFFICES ASSUME Types, [Next]_vars PROVE NoneAdmitted
  OBVIOUS
<1> USE DEF NoneAdmitted, Admitted
<1>1. ASSUME NEW c \in Conns, Enter(c) PROVE NoneAdmitted
  BY <1>1 DEF Enter, Types, callVars
<1>2. ASSUME NEW c \in Conns, RefuseConn(c) PROVE NoneAdmitted
  BY <1>2 DEF RefuseConn, LeaveConn, GoConn, Report, Types, callVars
<1>3. ASSUME NEW c \in Conns, CheckRun(c) PROVE NoneAdmitted
  BY <1>3 DEF CheckRun, LeaveConn, GoConn, Types, callVars
<1>4. ASSUME NEW c \in Conns, HandshakeOk(c) PROVE NoneAdmitted
  BY <1>4 DEF HandshakeOk, GoConn, Types, callVars
<1>5. ASSUME NEW c \in Conns, HandshakeFails(c) PROVE NoneAdmitted
  BY <1>5 DEF HandshakeFails, LeaveConn, GoConn, Report, Types, callVars
<1>6. ASSUME NEW c \in Conns, AgeTimer(c) PROVE NoneAdmitted
  BY <1>6 DEF AgeTimer, Types, callVars
<1>7. ASSUME NEW c \in Conns, AcceptCall(c) PROVE NoneAdmitted
  BY <1>7 DEF AcceptCall, GoConn, AfterDispatch, Types, callVars
<1>8. ASSUME NEW c \in Conns, NextCall(c) PROVE NoneAdmitted
  BY <1>8 DEF NextCall, GoConn, Types, callVars
<1>9. ASSUME NEW c \in Conns, AcceptRejected(c) PROVE NoneAdmitted
  BY <1>9 DEF AcceptRejected, Types, callVars
<1>10. ASSUME NEW c \in Conns, AcceptEOF(c) PROVE NoneAdmitted
  BY <1>10 DEF AcceptEOF, GoConn, Types, callVars
<1>11. ASSUME NEW c \in Conns, AcceptWoken(c) PROVE NoneAdmitted
  BY <1>11 DEF AcceptWoken, ExitLoop, GoConn, CancelConn, Types, callVars
<1>12. ASSUME NEW c \in Conns, AcceptError(c) PROVE NoneAdmitted
  BY <1>12 DEF AcceptError, ExitLoop, GoConn, CancelConn, Types, callVars
<1>13. ASSUME NEW c \in Conns, Drain(c) PROVE NoneAdmitted
  BY <1>13 DEF Drain, LeaveConn, GoConn, CancelConn, Drained, Types, callVars
<1>14. ASSUME NEW k \in Calls, Admit(k) PROVE NoneAdmitted
  BY <1>14 DEF Admit, Refuse, GoCall, Finish, Types, callVars
<1>15. ASSUME NEW k \in Calls, TakeSlot(k) PROVE NoneAdmitted
  BY <1>15 DEF TakeSlot, Refuse, GoCall, Finish, Types, callVars
<1>16. ASSUME NEW k \in Calls, Recheck(k) PROVE NoneAdmitted
  BY <1>16 DEF Recheck, Refuse, GoCall, Types
<1>17. ASSUME NEW k \in Calls, RouteFails(k) PROVE NoneAdmitted
  BY <1>17 DEF RouteFails, GoCall, Finish, Types, callVars
<1>18. ASSUME NEW k \in Calls, RouteOk(k) PROVE NoneAdmitted
  BY <1>18 DEF RouteOk, GoCall, Types, callVars
<1>19. ASSUME NEW k \in Calls, HandlerReturns(k) PROVE NoneAdmitted
  BY <1>19 DEF HandlerReturns, GoCall, Finish, FinishError, StatusFromContext, Types,
      callVars
<1>20. ASSUME NEW k \in Calls, ReleaseSlot(k) PROVE NoneAdmitted
  BY <1>20 DEF ReleaseSlot, GoCall, GiveSlot, Types, callVars
<1>21. ASSUME NEW k \in Calls, CloseCall(k) PROVE NoneAdmitted
  BY <1>21 DEF CloseCall, GoCall, Types, callVars
<1>22. ASSUME NEW k \in Calls, DeadlinePasses(k) PROVE NoneAdmitted
  BY <1>22 DEF DeadlinePasses, Types, callVars
<1>23. CASE GateCloses
  BY <1>23 DEF GateCloses, Types, callVars
<1>24. CASE RunEnds
  BY <1>24 DEF RunEnds, Types, callVars
<1>25. CASE UNCHANGED vars
  BY <1>25 DEF vars, Types, callVars
<1> QED
  BY <1>1, <1>2, <1>3, <1>4, <1>5, <1>6, <1>7, <1>8, <1>9, <1>10, <1>11, <1>12, <1>13,
      <1>14, <1>15, <1>16, <1>17, <1>18, <1>19, <1>20, <1>21, <1>22, <1>23, <1>24, <1>25
  DEF Next, Loop, HandleCall

(* The second look of tryAdmit: no call is admitted once admitGate.close    *)
(* has run; a handler that starts later is that of a call admitted before   *)
(* (admit.go).                                                              *)
THEOREM NoAdmissionBehindGate == Spec => NoAdmitAfterClose
<1>1. ServerInv => Types
  BY DEF ServerInv
<1>2. Types /\ [Next]_vars => [NoneAdmitted]_vars
  BY ClosedGateStep
<1> QED
  BY <1>1, <1>2, ServerInvariant, PTL DEF Spec, NoAdmitAfterClose, NoneAdmitted

(***************************************************************************)
(* The life of the server                                                  *)
(***************************************************************************)

(* A Run is past its latch: ran is set for it and will not fall again. *)
Latched == {"launch", "waiting", "joining", "closing"}

(* s.running, s.ran and s.runCtx describe the Run that is under way, or the *)
(* one that launched.                                                       *)
RunOwnsServer ==
  /\ \A r \in Runners :
       /\ rpc[r] \in Active => runOf = r /\ served[r] = routes
       /\ rpc[r] \in Active \ {"closing"} => running
       /\ rpc[r] \in {"starting", "latch"} => ~ran
       /\ rpc[r] \in Latched => ran
  /\ running => runOf \in Runners /\ rpc[runOf] \in Active \ {"closing"}
  /\ runOf # Nobody /\ ~ran => running
  /\ ran => runOf \in Runners /\ rpc[runOf] \in Latched \cup {"returned"}

(* The surfaces belong to the Run that launched; it waits with all of them  *)
(* up and closes with all of them done.                                     *)
SurfacesOfRun ==
  /\ \A b \in Surfaces : spc[b] # "none" => ran /\ servedBy[b] = runOf
  /\ \A r \in Runners :
       /\ rpc[r] \in {"waiting", "joining"} => \A b \in Surfaces : spc[b] # "none"
       /\ rpc[r] = "closing" => \A b \in Surfaces : spc[b] = "done"
  /\ ran /\ rpc[runOf] = "returned" => admitClosed /\ \A b \in Surfaces : spc[b] = "done"
  /\ admitClosed => stopped \/ (ran /\ rpc[runOf] = "returned")

(* What stands behind a cause, and behind a result. *)
CausesKnown ==
  /\ \A d \in Stoppers : dpc[d] # "idle" => stopped
  /\ \A b \in Surfaces : spc[b] = "cancelling" => serveErr # Nobody
  /\ \A r \in Runners :
       /\ rpc[r] = "idle" => cause[r] = "none"
       /\ cause[r] = "shutdown" => stopped
       /\ cause[r] = "parent" => r \in parentDone
       /\ cause[r] = "reason" => r \in parentDone \cap WithCause
       /\ cause[r] = "start" => rpc[r] = "returned"
       /\ cause[r] \in Surfaces => serveErr # Nobody
       /\ rpc[r] \in {"joining", "closing"} => Done(r)

(* The results of the Runs that have returned. *)
ResultsKnown ==
  \A r \in Runners :
    /\ rres[r] \in {"nil", "ctx", "cause"} =>
         ran /\ runOf = r /\ rpc[r] = "returned" /\ serveErr = Nobody
    /\ rres[r] = "nil" => stopped /\ r \notin parentDone
    /\ rres[r] = "ctx" => r \in parentDone
    /\ rres[r] = "cause" => r \in parentDone \cap WithCause /\ cause[r] = "reason"

LifeInv == LifeTypeOK /\ RunOwnsServer /\ SurfacesOfRun /\ CausesKnown /\ ResultsKnown

LEMMA LifeInvInit == LifeInit => LifeInv
<1> SUFFICES ASSUME LifeInit PROVE LifeInv
  OBVIOUS
<1>1. LifeTypeOK
  BY DEF LifeInit, LifeTypeOK, RPCs, SPCs, DPCs
<1>2. RunOwnsServer /\ SurfacesOfRun
  BY DEF LifeInit, RunOwnsServer, SurfacesOfRun, Active, Latched
<1>3. CausesKnown /\ ResultsKnown
  BY ServerLifecycleAssumption DEF LifeInit, CausesKnown, ResultsKnown
<1> QED
  BY <1>1, <1>2, <1>3 DEF LifeInv

LEMMA TypeStep == LifeTypeOK /\ [LifeNext]_lifeVars => LifeTypeOK'
<1> SUFFICES ASSUME LifeTypeOK, [LifeNext]_lifeVars PROVE LifeTypeOK'
  OBVIOUS
<1> USE DEF LifeTypeOK, RPCs, SPCs, DPCs, Active, mem, runs, surfs, stops
<1>1. ASSUME NEW s \in Services, Register(s) PROVE LifeTypeOK'
  BY <1>1 DEF Register, RegisterOpen
<1>2. ASSUME NEW r \in Runners, RunRefused(r) PROVE LifeTypeOK'
  BY <1>2 DEF RunRefused, ReturnRun, RunTaken
<1>3. ASSUME NEW r \in Runners, RunStarts(r) PROVE LifeTypeOK'
  BY <1>3 DEF RunStarts, MayRun, RunTaken, GoRun, ParentCause
<1>4. ASSUME NEW r \in Runners, BindOk(r) PROVE LifeTypeOK'
  BY <1>4 DEF BindOk, GoRun
<1>5. ASSUME NEW r \in Runners, BindFails(r) PROVE LifeTypeOK'
  BY <1>5 DEF BindFails, ReturnRun, Cause
<1>6. ASSUME NEW r \in Runners, Latch(r) PROVE LifeTypeOK'
  BY <1>6 DEF Latch, GoRun
<1>7. ASSUME NEW r \in Runners, NEW b \in Surfaces, Launch(r, b) PROVE LifeTypeOK'
  BY <1>7 DEF Launch
<1>8. ASSUME NEW r \in Runners, Launched(r) PROVE LifeTypeOK'
  BY <1>8 DEF Launched, GoRun
<1>9. ASSUME NEW r \in Runners, SeesDone(r) PROVE LifeTypeOK'
  BY <1>9 DEF SeesDone, GoRun, Done
<1>10. ASSUME NEW r \in Runners, Joins(r) PROVE LifeTypeOK'
  BY <1>10 DEF Joins, GoRun, Outstanding
<1>11. ASSUME NEW r \in Runners, RunReturns(r) PROVE LifeTypeOK'
  BY <1>11 DEF RunReturns, ReturnRun, RunResult
<1>12. ASSUME NEW r \in Runners, ParentCancels(r) PROVE LifeTypeOK'
  BY <1>12 DEF ParentCancels, Cause, ParentCause
<1>13. ASSUME NEW b \in Surfaces, ServeFails(b) PROVE LifeTypeOK'
  BY <1>13 DEF ServeFails, GoSurface
<1>14. ASSUME NEW b \in Surfaces, ServeStops(b) PROVE LifeTypeOK'
  BY <1>14 DEF ServeStops, GoSurface, Done
<1>15. ASSUME NEW b \in Surfaces, OwnerStopsTransport(b) PROVE LifeTypeOK'
  BY <1>15 DEF OwnerStopsTransport, GoSurface
<1>16. ASSUME NEW b \in Surfaces, FailureCounts(b) PROVE LifeTypeOK'
  BY <1>16 DEF FailureCounts, GoSurface, Done
<1>17. ASSUME NEW b \in Surfaces, StoreFailure(b) PROVE LifeTypeOK'
  BY <1>17 DEF StoreFailure, GoSurface
<1>18. ASSUME NEW b \in Surfaces, CancelRun(b) PROVE LifeTypeOK'
  BY <1>18 DEF CancelRun, GoSurface, Cause
<1>19. ASSUME NEW b \in Surfaces, SurfaceDone(b) PROVE LifeTypeOK'
  BY <1>19 DEF SurfaceDone, GoSurface
<1>20. ASSUME NEW d \in Stoppers, Shutdown(d) PROVE LifeTypeOK'
  BY <1>20 DEF Shutdown
<1>21. ASSUME NEW d \in Stoppers, ShutdownCancels(d) PROVE LifeTypeOK'
  BY <1>21 DEF ShutdownCancels, Cause
<1>22. ASSUME NEW d \in Stoppers, ShutdownJoined(d) PROVE LifeTypeOK'
  BY <1>22 DEF ShutdownJoined, ReturnShutdown
<1>23. ASSUME NEW d \in Stoppers, ShutdownExpires(d) PROVE LifeTypeOK'
  BY <1>23 DEF ShutdownExpires, ReturnShutdown
<1>24. CASE UNCHANGED lifeVars
  BY <1>24 DEF lifeVars
<1> QED
  BY <1>1, <1>2, <1>3, <1>4, <1>5, <1>6, <1>7, <1>8, <1>9, <1>10, <1>11, <1>12, <1>13,
      <1>14, <1>15, <1>16, <1>17, <1>18, <1>19, <1>20, <1>21, <1>22, <1>23, <1>24
  DEF LifeNext, RunStep, SurfaceStep, ShutdownStep

(* The flags under s.mu: running falls before the gate closes, ran stays.    *)
LEMMA OwnerStep == LifeTypeOK /\ RunOwnsServer /\ [LifeNext]_lifeVars => RunOwnsServer'
<1> SUFFICES ASSUME LifeTypeOK, RunOwnsServer, [LifeNext]_lifeVars PROVE RunOwnsServer'
  OBVIOUS
<1> USE DEF LifeTypeOK, RunOwnsServer, RPCs, Active, Latched, mem, runs, surfs, stops
<1>1. ASSUME NEW s \in Services, Register(s) PROVE RunOwnsServer'
  BY <1>1, ServerLifecycleAssumption DEF Register, RegisterOpen
<1>2. ASSUME NEW r \in Runners, RunRefused(r) PROVE RunOwnsServer'
  BY <1>2, ServerLifecycleAssumption DEF RunRefused, ReturnRun, RunTaken
<1>3. ASSUME NEW r \in Runners, RunStarts(r) PROVE RunOwnsServer'
  BY <1>3, ServerLifecycleAssumption DEF RunStarts, MayRun, RunTaken, GoRun, ParentCause
<1>4. ASSUME NEW r \in Runners, BindOk(r) PROVE RunOwnsServer'
  BY <1>4, ServerLifecycleAssumption DEF BindOk, GoRun
<1>5. ASSUME NEW r \in Runners, BindFails(r) PROVE RunOwnsServer'
  BY <1>5, ServerLifecycleAssumption DEF BindFails, ReturnRun, Cause
<1>6. ASSUME NEW r \in Runners, Latch(r) PROVE RunOwnsServer'
  BY <1>6, ServerLifecycleAssumption DEF Latch, GoRun
<1>7. ASSUME NEW r \in Runners, NEW b \in Surfaces, Launch(r, b) PROVE RunOwnsServer'
  BY <1>7, ServerLifecycleAssumption DEF Launch
<1>8. ASSUME NEW r \in Runners, Launched(r) PROVE RunOwnsServer'
  BY <1>8, ServerLifecycleAssumption DEF Launched, GoRun
<1>9. ASSUME NEW r \in Runners, SeesDone(r) PROVE RunOwnsServer'
  BY <1>9, ServerLifecycleAssumption DEF SeesDone, GoRun, Done
<1>10. ASSUME NEW r \in Runners, Joins(r) PROVE RunOwnsServer'
  BY <1>10, ServerLifecycleAssumption DEF Joins, GoRun, Outstanding
<1>11. ASSUME NEW r \in Runners, RunReturns(r) PROVE RunOwnsServer'
  BY <1>11, ServerLifecycleAssumption DEF RunReturns, ReturnRun, RunResult
<1>12. ASSUME NEW r \in Runners, ParentCancels(r) PROVE RunOwnsServer'
  BY <1>12, ServerLifecycleAssumption DEF ParentCancels, Cause, ParentCause
<1>13. ASSUME NEW b \in Surfaces, ServeFails(b) PROVE RunOwnsServer'
  BY <1>13, ServerLifecycleAssumption DEF ServeFails, GoSurface
<1>14. ASSUME NEW b \in Surfaces, ServeStops(b) PROVE RunOwnsServer'
  BY <1>14, ServerLifecycleAssumption DEF ServeStops, GoSurface, Done
<1>15. ASSUME NEW b \in Surfaces, OwnerStopsTransport(b) PROVE RunOwnsServer'
  BY <1>15, ServerLifecycleAssumption DEF OwnerStopsTransport, GoSurface
<1>16. ASSUME NEW b \in Surfaces, FailureCounts(b) PROVE RunOwnsServer'
  BY <1>16, ServerLifecycleAssumption DEF FailureCounts, GoSurface, Done
<1>17. ASSUME NEW b \in Surfaces, StoreFailure(b) PROVE RunOwnsServer'
  BY <1>17, ServerLifecycleAssumption DEF StoreFailure, GoSurface
<1>18. ASSUME NEW b \in Surfaces, CancelRun(b) PROVE RunOwnsServer'
  BY <1>18, ServerLifecycleAssumption DEF CancelRun, GoSurface, Cause
<1>19. ASSUME NEW b \in Surfaces, SurfaceDone(b) PROVE RunOwnsServer'
  BY <1>19, ServerLifecycleAssumption DEF SurfaceDone, GoSurface
<1>20. ASSUME NEW d \in Stoppers, Shutdown(d) PROVE RunOwnsServer'
  BY <1>20, ServerLifecycleAssumption DEF Shutdown
<1>21. ASSUME NEW d \in Stoppers, ShutdownCancels(d) PROVE RunOwnsServer'
  BY <1>21, ServerLifecycleAssumption DEF ShutdownCancels, Cause
<1>22. ASSUME NEW d \in Stoppers, ShutdownJoined(d) PROVE RunOwnsServer'
  BY <1>22, ServerLifecycleAssumption DEF ShutdownJoined, ReturnShutdown
<1>23. ASSUME NEW d \in Stoppers, ShutdownExpires(d) PROVE RunOwnsServer'
  BY <1>23, ServerLifecycleAssumption DEF ShutdownExpires, ReturnShutdown
<1>24. CASE UNCHANGED lifeVars
  BY <1>24, ServerLifecycleAssumption DEF lifeVars
<1> QED
  BY <1>1, <1>2, <1>3, <1>4, <1>5, <1>6, <1>7, <1>8, <1>9, <1>10, <1>11, <1>12, <1>13,
      <1>14, <1>15, <1>16, <1>17, <1>18, <1>19, <1>20, <1>21, <1>22, <1>23, <1>24
  DEF LifeNext, RunStep, SurfaceStep, ShutdownStep

(* The surfaces and the gate. *)
LEMMA SurfaceOwnerStep ==
  LifeTypeOK /\ RunOwnsServer /\ SurfacesOfRun /\ [LifeNext]_lifeVars => SurfacesOfRun'
<1> SUFFICES ASSUME LifeTypeOK, RunOwnsServer, SurfacesOfRun, [LifeNext]_lifeVars
             PROVE SurfacesOfRun'
  OBVIOUS
<1> USE DEF LifeTypeOK, RunOwnsServer, SurfacesOfRun, RPCs, SPCs, Active, Latched, mem, runs,
    surfs, stops
<1>1. ASSUME NEW s \in Services, Register(s) PROVE SurfacesOfRun'
  BY <1>1, ServerLifecycleAssumption DEF Register, RegisterOpen
<1>2. ASSUME NEW r \in Runners, RunRefused(r) PROVE SurfacesOfRun'
  BY <1>2, ServerLifecycleAssumption DEF RunRefused, ReturnRun, RunTaken
<1>3. ASSUME NEW r \in Runners, RunStarts(r) PROVE SurfacesOfRun'
  BY <1>3, ServerLifecycleAssumption DEF RunStarts, MayRun, RunTaken, GoRun, ParentCause
<1>4. ASSUME NEW r \in Runners, BindOk(r) PROVE SurfacesOfRun'
  BY <1>4, ServerLifecycleAssumption DEF BindOk, GoRun
<1>5. ASSUME NEW r \in Runners, BindFails(r) PROVE SurfacesOfRun'
  BY <1>5, ServerLifecycleAssumption DEF BindFails, ReturnRun, Cause
<1>6. ASSUME NEW r \in Runners, Latch(r) PROVE SurfacesOfRun'
  BY <1>6, ServerLifecycleAssumption DEF Latch, GoRun
<1>7. ASSUME NEW r \in Runners, NEW b \in Surfaces, Launch(r, b) PROVE SurfacesOfRun'
  BY <1>7, ServerLifecycleAssumption DEF Launch
<1>8. ASSUME NEW r \in Runners, Launched(r) PROVE SurfacesOfRun'
  BY <1>8, ServerLifecycleAssumption DEF Launched, GoRun
<1>9. ASSUME NEW r \in Runners, SeesDone(r) PROVE SurfacesOfRun'
  BY <1>9, ServerLifecycleAssumption DEF SeesDone, GoRun, Done
<1>10. ASSUME NEW r \in Runners, Joins(r) PROVE SurfacesOfRun'
  BY <1>10, ServerLifecycleAssumption DEF Joins, GoRun, Outstanding
<1>11. ASSUME NEW r \in Runners, RunReturns(r) PROVE SurfacesOfRun'
  BY <1>11, ServerLifecycleAssumption DEF RunReturns, ReturnRun, RunResult
<1>12. ASSUME NEW r \in Runners, ParentCancels(r) PROVE SurfacesOfRun'
  BY <1>12, ServerLifecycleAssumption DEF ParentCancels, Cause, ParentCause
<1>13. ASSUME NEW b \in Surfaces, ServeFails(b) PROVE SurfacesOfRun'
  BY <1>13, ServerLifecycleAssumption DEF ServeFails, GoSurface
<1>14. ASSUME NEW b \in Surfaces, ServeStops(b) PROVE SurfacesOfRun'
  BY <1>14, ServerLifecycleAssumption DEF ServeStops, GoSurface, Done
<1>15. ASSUME NEW b \in Surfaces, OwnerStopsTransport(b) PROVE SurfacesOfRun'
  BY <1>15, ServerLifecycleAssumption DEF OwnerStopsTransport, GoSurface
<1>16. ASSUME NEW b \in Surfaces, FailureCounts(b) PROVE SurfacesOfRun'
  BY <1>16, ServerLifecycleAssumption DEF FailureCounts, GoSurface, Done
<1>17. ASSUME NEW b \in Surfaces, StoreFailure(b) PROVE SurfacesOfRun'
  BY <1>17, ServerLifecycleAssumption DEF StoreFailure, GoSurface
<1>18. ASSUME NEW b \in Surfaces, CancelRun(b) PROVE SurfacesOfRun'
  BY <1>18, ServerLifecycleAssumption DEF CancelRun, GoSurface, Cause
<1>19. ASSUME NEW b \in Surfaces, SurfaceDone(b) PROVE SurfacesOfRun'
  BY <1>19, ServerLifecycleAssumption DEF SurfaceDone, GoSurface
<1>20. ASSUME NEW d \in Stoppers, Shutdown(d) PROVE SurfacesOfRun'
  BY <1>20, ServerLifecycleAssumption DEF Shutdown
<1>21. ASSUME NEW d \in Stoppers, ShutdownCancels(d) PROVE SurfacesOfRun'
  BY <1>21, ServerLifecycleAssumption DEF ShutdownCancels, Cause
<1>22. ASSUME NEW d \in Stoppers, ShutdownJoined(d) PROVE SurfacesOfRun'
  BY <1>22, ServerLifecycleAssumption DEF ShutdownJoined, ReturnShutdown
<1>23. ASSUME NEW d \in Stoppers, ShutdownExpires(d) PROVE SurfacesOfRun'
  BY <1>23, ServerLifecycleAssumption DEF ShutdownExpires, ReturnShutdown
<1>24. CASE UNCHANGED lifeVars
  BY <1>24, ServerLifecycleAssumption DEF lifeVars
<1> QED
  BY <1>1, <1>2, <1>3, <1>4, <1>5, <1>6, <1>7, <1>8, <1>9, <1>10, <1>11, <1>12, <1>13,
      <1>14, <1>15, <1>16, <1>17, <1>18, <1>19, <1>20, <1>21, <1>22, <1>23, <1>24
  DEF LifeNext, RunStep, SurfaceStep, ShutdownStep

(* The causes: the first one stays, and it is recorded before it is set. *)
LEMMA CauseStep ==
  LifeTypeOK /\ RunOwnsServer /\ SurfacesOfRun /\ CausesKnown /\ [LifeNext]_lifeVars =>
    CausesKnown'
<1> SUFFICES ASSUME LifeTypeOK, RunOwnsServer, SurfacesOfRun, CausesKnown, [LifeNext]_lifeVars
             PROVE CausesKnown'
  OBVIOUS
<1> USE DEF LifeTypeOK, CausesKnown, RPCs, SPCs, DPCs, Active, Done, mem, runs, surfs, stops
<1>1. ASSUME NEW s \in Services, Register(s) PROVE CausesKnown'
  BY <1>1, ServerLifecycleAssumption DEF Register, RegisterOpen
<1>2. ASSUME NEW r \in Runners, RunRefused(r) PROVE CausesKnown'
  BY <1>2, ServerLifecycleAssumption DEF RunRefused, ReturnRun, RunTaken
<1>3. ASSUME NEW r \in Runners, RunStarts(r) PROVE CausesKnown'
  BY <1>3, ServerLifecycleAssumption DEF RunStarts, MayRun, RunTaken, GoRun, ParentCause
<1>4. ASSUME NEW r \in Runners, BindOk(r) PROVE CausesKnown'
  BY <1>4, ServerLifecycleAssumption DEF BindOk, GoRun
<1>5. ASSUME NEW r \in Runners, BindFails(r) PROVE CausesKnown'
  BY <1>5, ServerLifecycleAssumption DEF BindFails, ReturnRun, Cause
<1>6. ASSUME NEW r \in Runners, Latch(r) PROVE CausesKnown'
  BY <1>6, ServerLifecycleAssumption DEF Latch, GoRun
<1>7. ASSUME NEW r \in Runners, NEW b \in Surfaces, Launch(r, b) PROVE CausesKnown'
  BY <1>7, ServerLifecycleAssumption DEF Launch
<1>8. ASSUME NEW r \in Runners, Launched(r) PROVE CausesKnown'
  BY <1>8, ServerLifecycleAssumption DEF Launched, GoRun
<1>9. ASSUME NEW r \in Runners, SeesDone(r) PROVE CausesKnown'
  BY <1>9, ServerLifecycleAssumption DEF SeesDone, GoRun, Done
<1>10. ASSUME NEW r \in Runners, Joins(r) PROVE CausesKnown'
  BY <1>10, ServerLifecycleAssumption DEF Joins, GoRun, Outstanding
<1>11. ASSUME NEW r \in Runners, RunReturns(r) PROVE CausesKnown'
  BY <1>11, ServerLifecycleAssumption DEF RunReturns, ReturnRun, RunResult
<1>12. ASSUME NEW r \in Runners, ParentCancels(r) PROVE CausesKnown'
  BY <1>12, ServerLifecycleAssumption DEF ParentCancels, Cause, ParentCause
<1>13. ASSUME NEW b \in Surfaces, ServeFails(b) PROVE CausesKnown'
  BY <1>13, ServerLifecycleAssumption DEF ServeFails, GoSurface
<1>14. ASSUME NEW b \in Surfaces, ServeStops(b) PROVE CausesKnown'
  BY <1>14, ServerLifecycleAssumption DEF ServeStops, GoSurface, Done
<1>15. ASSUME NEW b \in Surfaces, OwnerStopsTransport(b) PROVE CausesKnown'
  BY <1>15, ServerLifecycleAssumption DEF OwnerStopsTransport, GoSurface
<1>16. ASSUME NEW b \in Surfaces, FailureCounts(b) PROVE CausesKnown'
  BY <1>16, ServerLifecycleAssumption DEF FailureCounts, GoSurface, Done
<1>17. ASSUME NEW b \in Surfaces, StoreFailure(b) PROVE CausesKnown'
  BY <1>17, ServerLifecycleAssumption DEF StoreFailure, GoSurface
<1>18. ASSUME NEW b \in Surfaces, CancelRun(b) PROVE CausesKnown'
  BY <1>18, ServerLifecycleAssumption DEF CancelRun, GoSurface, Cause
<1>19. ASSUME NEW b \in Surfaces, SurfaceDone(b) PROVE CausesKnown'
  BY <1>19, ServerLifecycleAssumption DEF SurfaceDone, GoSurface
<1>20. ASSUME NEW d \in Stoppers, Shutdown(d) PROVE CausesKnown'
  BY <1>20, ServerLifecycleAssumption DEF Shutdown
<1>21. ASSUME NEW d \in Stoppers, ShutdownCancels(d) PROVE CausesKnown'
  BY <1>21, ServerLifecycleAssumption DEF ShutdownCancels, Cause
<1>22. ASSUME NEW d \in Stoppers, ShutdownJoined(d) PROVE CausesKnown'
  BY <1>22, ServerLifecycleAssumption DEF ShutdownJoined, ReturnShutdown
<1>23. ASSUME NEW d \in Stoppers, ShutdownExpires(d) PROVE CausesKnown'
  BY <1>23, ServerLifecycleAssumption DEF ShutdownExpires, ReturnShutdown
<1>24. CASE UNCHANGED lifeVars
  BY <1>24, ServerLifecycleAssumption DEF lifeVars
<1> QED
  BY <1>1, <1>2, <1>3, <1>4, <1>5, <1>6, <1>7, <1>8, <1>9, <1>10, <1>11, <1>12, <1>13,
      <1>14, <1>15, <1>16, <1>17, <1>18, <1>19, <1>20, <1>21, <1>22, <1>23, <1>24
  DEF LifeNext, RunStep, SurfaceStep, ShutdownStep

(* The results: nothing changes behind a Run that has returned. *)
LEMMA ResultStep == LifeInv /\ [LifeNext]_lifeVars => ResultsKnown'
<1> SUFFICES ASSUME LifeInv, [LifeNext]_lifeVars PROVE ResultsKnown'
  OBVIOUS
<1> USE DEF LifeInv, LifeTypeOK, RunOwnsServer, ResultsKnown, RPCs, SPCs, Active, Latched, mem,
    runs, surfs, stops
<1>1. ASSUME NEW s \in Services, Register(s) PROVE ResultsKnown'
  BY <1>1, ServerLifecycleAssumption DEF Register, RegisterOpen
<1>2. ASSUME NEW r \in Runners, RunRefused(r) PROVE ResultsKnown'
  BY <1>2, ServerLifecycleAssumption DEF RunRefused, ReturnRun, RunTaken
<1>3. ASSUME NEW r \in Runners, RunStarts(r) PROVE ResultsKnown'
  BY <1>3, ServerLifecycleAssumption DEF RunStarts, MayRun, RunTaken, GoRun, ParentCause
<1>4. ASSUME NEW r \in Runners, BindOk(r) PROVE ResultsKnown'
  BY <1>4, ServerLifecycleAssumption DEF BindOk, GoRun
<1>5. ASSUME NEW r \in Runners, BindFails(r) PROVE ResultsKnown'
  BY <1>5, ServerLifecycleAssumption DEF BindFails, ReturnRun, Cause
<1>6. ASSUME NEW r \in Runners, Latch(r) PROVE ResultsKnown'
  BY <1>6, ServerLifecycleAssumption DEF Latch, GoRun
<1>7. ASSUME NEW r \in Runners, NEW b \in Surfaces, Launch(r, b) PROVE ResultsKnown'
  BY <1>7, ServerLifecycleAssumption DEF Launch
<1>8. ASSUME NEW r \in Runners, Launched(r) PROVE ResultsKnown'
  BY <1>8, ServerLifecycleAssumption DEF Launched, GoRun
<1>9. ASSUME NEW r \in Runners, SeesDone(r) PROVE ResultsKnown'
  BY <1>9, ServerLifecycleAssumption DEF SeesDone, GoRun, Done
<1>10. ASSUME NEW r \in Runners, Joins(r) PROVE ResultsKnown'
  BY <1>10, ServerLifecycleAssumption DEF Joins, GoRun, Outstanding
<1>11. ASSUME NEW r \in Runners, RunReturns(r) PROVE ResultsKnown'
  BY <1>11, ServerLifecycleAssumption DEF RunReturns, ReturnRun, RunResult, CausesKnown, Done
<1>12. ASSUME NEW r \in Runners, ParentCancels(r) PROVE ResultsKnown'
  BY <1>12, ServerLifecycleAssumption DEF ParentCancels, Cause, ParentCause
<1>13. ASSUME NEW b \in Surfaces, ServeFails(b) PROVE ResultsKnown'
  BY <1>13, ServerLifecycleAssumption DEF ServeFails, GoSurface
<1>14. ASSUME NEW b \in Surfaces, ServeStops(b) PROVE ResultsKnown'
  BY <1>14, ServerLifecycleAssumption DEF ServeStops, GoSurface, Done
<1>15. ASSUME NEW b \in Surfaces, OwnerStopsTransport(b) PROVE ResultsKnown'
  BY <1>15, ServerLifecycleAssumption DEF OwnerStopsTransport, GoSurface
<1>16. ASSUME NEW b \in Surfaces, FailureCounts(b) PROVE ResultsKnown'
  BY <1>16, ServerLifecycleAssumption DEF FailureCounts, GoSurface, Done
<1>17. ASSUME NEW b \in Surfaces, StoreFailure(b) PROVE ResultsKnown'
  BY <1>17, ServerLifecycleAssumption DEF StoreFailure, GoSurface, SurfacesOfRun
<1>18. ASSUME NEW b \in Surfaces, CancelRun(b) PROVE ResultsKnown'
  BY <1>18, ServerLifecycleAssumption DEF CancelRun, GoSurface, Cause
<1>19. ASSUME NEW b \in Surfaces, SurfaceDone(b) PROVE ResultsKnown'
  BY <1>19, ServerLifecycleAssumption DEF SurfaceDone, GoSurface
<1>20. ASSUME NEW d \in Stoppers, Shutdown(d) PROVE ResultsKnown'
  BY <1>20, ServerLifecycleAssumption DEF Shutdown
<1>21. ASSUME NEW d \in Stoppers, ShutdownCancels(d) PROVE ResultsKnown'
  BY <1>21, ServerLifecycleAssumption DEF ShutdownCancels, Cause
<1>22. ASSUME NEW d \in Stoppers, ShutdownJoined(d) PROVE ResultsKnown'
  BY <1>22, ServerLifecycleAssumption DEF ShutdownJoined, ReturnShutdown
<1>23. ASSUME NEW d \in Stoppers, ShutdownExpires(d) PROVE ResultsKnown'
  BY <1>23, ServerLifecycleAssumption DEF ShutdownExpires, ReturnShutdown
<1>24. CASE UNCHANGED lifeVars
  BY <1>24, ServerLifecycleAssumption DEF lifeVars
<1> QED
  BY <1>1, <1>2, <1>3, <1>4, <1>5, <1>6, <1>7, <1>8, <1>9, <1>10, <1>11, <1>12, <1>13,
      <1>14, <1>15, <1>16, <1>17, <1>18, <1>19, <1>20, <1>21, <1>22, <1>23, <1>24
  DEF LifeNext, RunStep, SurfaceStep, ShutdownStep

LEMMA LifeInvariant == LifeSpec => []LifeInv
<1>1. LifeInv /\ [LifeNext]_lifeVars => LifeInv'
  BY TypeStep, OwnerStep, SurfaceOwnerStep, CauseStep, ResultStep DEF LifeInv
<1> QED
  BY <1>1, LifeInvInit, PTL DEF LifeSpec

(* A set with at most one element counts at most one. *)
LEMMA AtMostOne ==
  ASSUME NEW S, NEW x, S \subseteq {x}
  PROVE  Cardinality(S) <= 1
<1>1. IsFiniteSet({x}) /\ Cardinality({x}) = 1
  BY FS_Singleton
<1> QED
  BY <1>1, FS_Subset, FS_CardinalityType

(* However many Runs are called at once, one has the server at a time, none *)
(* follows one that launched, it serves the registered routes, and an       *)
(* aborted start leaves nothing behind (server.go, Run).                    *)
THEOREM RunIsUnique == LifeSpec => []OneRun
<1>1. LifeInv => OneRun
  <2> SUFFICES ASSUME LifeInv PROVE OneRun
    OBVIOUS
  <2> USE DEF LifeInv, RunOwnsServer, SurfacesOfRun
  <2>1. {r \in Runners : rpc[r] \in Active} \subseteq {runOf}
    OBVIOUS
  <2>2. {servedBy[b] : b \in {x \in Surfaces : spc[x] # "none"}} \subseteq {runOf}
    OBVIOUS
  <2>3. /\ Cardinality({r \in Runners : rpc[r] \in Active}) <= 1
        /\ Cardinality({servedBy[b] : b \in {x \in Surfaces : spc[x] # "none"}}) <= 1
    BY <2>1, <2>2, AtMostOne
  <2>4. (\A r \in Runners : rpc[r] \notin Active) /\ ~ran =>
          ~running /\ runOf = Nobody /\ \A b \in Surfaces : spc[b] = "none"
    OBVIOUS
  <2> QED
    BY <2>3, <2>4 DEF OneRun
<1> QED
  BY <1>1, LifeInvariant, PTL

(* Run returns behind every goroutine it launched, with the gate closed     *)
(* (server.go, Run's wg.Wait and admit.close).                              *)
THEOREM RunJoinsSurfaces == LifeSpec => []RunJoins
<1>1. LifeInv => RunJoins
  BY DEF LifeInv, RunOwnsServer, SurfacesOfRun, RunJoins, Outstanding
<1> QED
  BY <1>1, LifeInvariant, PTL

(* nil means Shutdown and a caller that did not cancel, ctx.Err() or a      *)
(* cause the caller's ctx, and neither hides a surface's failure            *)
(* (server.go, the end of Run).                                             *)
THEOREM ResultIsExplained == LifeSpec => []ResultExplained
<1>1. LifeInv => ResultExplained
  BY DEF LifeInv, ResultsKnown, ResultExplained
<1> QED
  BY <1>1, LifeInvariant, PTL

(* What the connection loop is given: a gate that never reopens, and the    *)
(* ctx of the one Run that launched, done for good once it is done.         *)
EndsForGood ==
  /\ admitClosed => admitClosed'
  /\ ran => ran' /\ runOf' = runOf
  /\ \A r \in Runners : Done(r) => Done(r)'

(* Cause keeps the first cause, BindFails is not reached behind the latch.  *)
LEMMA EndStep ==
  LifeTypeOK /\ RunOwnsServer /\ CausesKnown /\ [LifeNext]_lifeVars => EndsForGood
<1> SUFFICES ASSUME LifeTypeOK, RunOwnsServer, CausesKnown, [LifeNext]_lifeVars
             PROVE EndsForGood
  OBVIOUS
<1> USE DEF LifeTypeOK, RunOwnsServer, CausesKnown, EndsForGood, Done, RPCs, Active, Latched,
    mem, runs, surfs, stops
<1>1. ASSUME NEW s \in Services, Register(s) PROVE EndsForGood
  BY <1>1, ServerLifecycleAssumption DEF Register, RegisterOpen
<1>2. ASSUME NEW r \in Runners, RunRefused(r) PROVE EndsForGood
  BY <1>2, ServerLifecycleAssumption DEF RunRefused, ReturnRun, RunTaken
<1>3. ASSUME NEW r \in Runners, RunStarts(r) PROVE EndsForGood
  BY <1>3, ServerLifecycleAssumption DEF RunStarts, MayRun, RunTaken, GoRun, ParentCause
<1>4. ASSUME NEW r \in Runners, BindOk(r) PROVE EndsForGood
  BY <1>4, ServerLifecycleAssumption DEF BindOk, GoRun
<1>5. ASSUME NEW r \in Runners, BindFails(r) PROVE EndsForGood
  BY <1>5, ServerLifecycleAssumption DEF BindFails, ReturnRun, Cause
<1>6. ASSUME NEW r \in Runners, Latch(r) PROVE EndsForGood
  BY <1>6, ServerLifecycleAssumption DEF Latch, GoRun
<1>7. ASSUME NEW r \in Runners, NEW b \in Surfaces, Launch(r, b) PROVE EndsForGood
  BY <1>7, ServerLifecycleAssumption DEF Launch
<1>8. ASSUME NEW r \in Runners, Launched(r) PROVE EndsForGood
  BY <1>8, ServerLifecycleAssumption DEF Launched, GoRun
<1>9. ASSUME NEW r \in Runners, SeesDone(r) PROVE EndsForGood
  BY <1>9, ServerLifecycleAssumption DEF SeesDone, GoRun
<1>10. ASSUME NEW r \in Runners, Joins(r) PROVE EndsForGood
  BY <1>10, ServerLifecycleAssumption DEF Joins, GoRun, Outstanding
<1>11. ASSUME NEW r \in Runners, RunReturns(r) PROVE EndsForGood
  BY <1>11, ServerLifecycleAssumption DEF RunReturns, ReturnRun, RunResult
<1>12. ASSUME NEW r \in Runners, ParentCancels(r) PROVE EndsForGood
  BY <1>12, ServerLifecycleAssumption DEF ParentCancels, Cause, ParentCause
<1>13. ASSUME NEW b \in Surfaces, ServeFails(b) PROVE EndsForGood
  BY <1>13, ServerLifecycleAssumption DEF ServeFails, GoSurface
<1>14. ASSUME NEW b \in Surfaces, ServeStops(b) PROVE EndsForGood
  BY <1>14, ServerLifecycleAssumption DEF ServeStops, GoSurface
<1>15. ASSUME NEW b \in Surfaces, OwnerStopsTransport(b) PROVE EndsForGood
  BY <1>15, ServerLifecycleAssumption DEF OwnerStopsTransport, GoSurface
<1>16. ASSUME NEW b \in Surfaces, FailureCounts(b) PROVE EndsForGood
  BY <1>16, ServerLifecycleAssumption DEF FailureCounts, GoSurface
<1>17. ASSUME NEW b \in Surfaces, StoreFailure(b) PROVE EndsForGood
  BY <1>17, ServerLifecycleAssumption DEF StoreFailure, GoSurface
<1>18. ASSUME NEW b \in Surfaces, CancelRun(b) PROVE EndsForGood
  BY <1>18, ServerLifecycleAssumption DEF CancelRun, GoSurface, Cause
<1>19. ASSUME NEW b \in Surfaces, SurfaceDone(b) PROVE EndsForGood
  BY <1>19, ServerLifecycleAssumption DEF SurfaceDone, GoSurface
<1>20. ASSUME NEW d \in Stoppers, Shutdown(d) PROVE EndsForGood
  BY <1>20, ServerLifecycleAssumption DEF Shutdown
<1>21. ASSUME NEW d \in Stoppers, ShutdownCancels(d) PROVE EndsForGood
  BY <1>21, ServerLifecycleAssumption DEF ShutdownCancels, Cause
<1>22. ASSUME NEW d \in Stoppers, ShutdownJoined(d) PROVE EndsForGood
  BY <1>22, ServerLifecycleAssumption DEF ShutdownJoined, ReturnShutdown
<1>23. ASSUME NEW d \in Stoppers, ShutdownExpires(d) PROVE EndsForGood
  BY <1>23, ServerLifecycleAssumption DEF ShutdownExpires, ReturnShutdown
<1>24. CASE UNCHANGED lifeVars
  BY <1>24, ServerLifecycleAssumption DEF lifeVars
<1> QED
  BY <1>1, <1>2, <1>3, <1>4, <1>5, <1>6, <1>7, <1>8, <1>9, <1>10, <1>11, <1>12, <1>13,
      <1>14, <1>15, <1>16, <1>17, <1>18, <1>19, <1>20, <1>21, <1>22, <1>23, <1>24
  DEF LifeNext, RunStep, SurfaceStep, ShutdownStep

(* ServerConn takes its environment to close the gate and to end the ctx of *)
(* the Run once each (its GateCloses and RunEnds); so does the life of the  *)
(* server: Shutdown and Run set admitGate.closed and never clear it, and a  *)
(* runCtx that is done, whose Run launched, is the one s.runCtx stays       *)
(* (server.go, Run and Shutdown; admit.go, close).                          *)
THEOREM GateAndRunEndForGood == LifeSpec => [][EndsForGood]_lifeVars
<1>1. LifeInv => LifeTypeOK /\ RunOwnsServer /\ CausesKnown
  BY DEF LifeInv
<1>2. LifeTypeOK /\ RunOwnsServer /\ CausesKnown /\ [LifeNext]_lifeVars => [EndsForGood]_lifeVars
  BY EndStep
<1> QED
  BY <1>1, <1>2, LifeInvariant, PTL DEF LifeSpec

===============================================================================
